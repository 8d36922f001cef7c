CONSTANTS
  None = None
  Waiting = Waiting
  TaskCount = 3
  Shape <- PShape
  Ref <- PRef
  Params <- PParams
  Offers <- GpuOffers
  Caching <- CachingAll
  GpuLanes <- G1
  CpuLanes <- C1
  Window = 2
  Memory = 2
  MaxHandles = 4
  MaxFaults = 1
  MaxPanics = 0
SPECIFICATION Spec
INVARIANTS TypeOK ScoredOnOwnReference HandlesAccounted
PROPERTIES ImplementsService
