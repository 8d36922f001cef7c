CONSTANTS
  t1 = t1
  t2 = t2
  t3 = t3
  t4 = t4
  N = 21
  Dims <- MCDims
  Need <- MCMixed
  Budget <- MCBudget
  Unlimited = Unlimited
  Threads <- MCThreads
SPECIFICATION FairSpec
INVARIANTS TypeOK BudgetRespected FootprintExact CellsPartitioned NoLostWakeup ProgressReported
PROPERTIES ChunkCompletes
