CONSTANTS
  None = None
  Waiting = Waiting
  TaskCount = 2
  Shape <- PShape
  Ref <- PRef
  Params <- PParams
  Offers <- MixedOffers
  Caching <- CachingAll
  GpuLanes <- G2
  CpuLanes <- C1
  Window = 2
  Memory = 2
  MaxHandles = 3
  MaxFaults = 0
  MaxPanics = 1
SPECIFICATION FairSpec
CHECK_DEADLOCK FALSE
PROPERTIES BlockedCallReturns
