CONSTANTS
  None = None
  Waiting = Waiting
  TaskCount = 2
  Shape <- PShape
  Ref <- PRef
  Params <- QParams
  Offers <- GpuOffers
  Caching <- CachingAll
  GpuLanes <- G1
  CpuLanes <- C1
  Window = 2
  Memory = 2
  MaxHandles = 3
  MaxFaults = 0
  MaxPanics = 0
SPECIFICATION Spec
INVARIANTS ScoredWithOwnParams
