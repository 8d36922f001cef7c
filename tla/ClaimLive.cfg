CONSTANTS
  w1 = w1
  w2 = w2
  c1 = c1
  c2 = c2
  Workers <- MCWorkers
  Chunks <- MCChunks1
  Cells = 2
  TTL = 1
  Heartbeat = FALSE
  Prompt = FALSE
  MaxNow = 2
  FaultBy = 1
  MaxNet = 1
  MaxCrash = 1
  MaxSig = 1
  NoClaim = NoClaim
  NoChunk = NoChunk
SPECIFICATION FairSpec
PROPERTIES EveryChunkPublished
