CONSTANTS
  w1 = w1
  w2 = w2
  c1 = c1
  c2 = c2
  Workers <- MCWorkers
  Chunks <- MCChunks2
  Cells = 1
  TTL = 1
  Heartbeat = TRUE
  Prompt = FALSE
  MaxNow = 1
  FaultBy = 1
  MaxNet = 1
  MaxCrash = 0
  MaxSig = 0
  NoClaim = NoClaim
  NoChunk = NoChunk
SPECIFICATION Spec
SYMMETRY Symmetry2
INVARIANTS ArmedUnlessFault
PROPERTIES ClaimsChangeHandsWhenStale
