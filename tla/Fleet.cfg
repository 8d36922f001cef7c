SPECIFICATION FairSpec
CONSTANTS
  w1 = w1
  w2 = w2
  Workers <- MCWorkers
  Jobs <- ThreeJobs
  Cost <- Costs
  Mem <- Mems
  Thr <- Thrs
  Ram <- Rams
  Cores <- CoreCounts
  Target = 2
  RefConc = 2
  Spread = 64
  MinCells = 2
  Pack <- MCPack
  BoxPack <- MCBoxPack
  Uniform = TRUE
  Outcomes <- MCOutcomes
  MaxAttempts = 2
  TTL = 1
  MaxChunks = 0
  IdlePasses = 3
  MaxFaults = 1
  NoRow = NoRow
  Nobody = Nobody
INVARIANTS TypeOK OverlapOnlyAcrossViews EveryJobTried NoWorkLeftBehind
PROPERTIES FleetDrains
