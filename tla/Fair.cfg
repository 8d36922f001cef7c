CONSTANTS
  t1 = t1
  t2 = t2
  j1 = j1
  j2 = j2
  j3 = j3
  NoRow = NoRow
  Torn = Torn
  Nobody = Nobody
  Manifest <- MCManifest
  Threads <- MCThreads
  Dims <- MCDims
  Need <- MCNeed
  Budget <- MCBudget
  Live <- MCLive
  Outcomes <- MCOutcomes
  LargeMem = 3
  Burst = 1
  MaxAttempts = 2
  TTL = 1
  MaxPass = 7
  MaxFaults = 2
  MaxCrash = 1
SPECIFICATION FairSpec
INVARIANTS TypeOK FootprintExact
PROPERTIES NoProducerOverUnresolvedRow MarkerRetiredOnlyWhenRecorded RecordAdvances EveryJobSettled
CHECK_DEADLOCK FALSE
