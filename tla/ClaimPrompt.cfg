CONSTANTS
  w1 = w1
  w2 = w2
  c1 = c1
  c2 = c2
  Workers <- MCWorkers
  Chunks <- MCChunks2
  Cells = 1
  TTL = 2
  Heartbeat = TRUE
  Prompt = TRUE
  MaxNow = 3
  FaultBy = 2
  MaxNet = 0
  MaxCrash = 1
  MaxSig = 1
  NoClaim = NoClaim
  NoChunk = NoChunk
SPECIFICATION Spec
SYMMETRY Symmetry2
INVARIANTS TypeOK RunnerHoldsLease
PROPERTIES ImplementsLease
