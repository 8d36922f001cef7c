CONSTANTS
  w1 = w1
  w2 = w2
  Workers <- MCWorkers
  MaxAttempts = 2
  TTL = 1
  Margin = 0
  MaxNow = 2
  MaxRows = 3
  MaxUnreadable = 1
  Enabled <- NoTools
  MaxUses = 0
  NoRow = NoRow
  NoSnapshot = NoSnapshot
  NoClaim = NoClaim
SPECIFICATION Spec
SYMMETRY Symmetry
INVARIANTS PoisonEarned RetryEarned LatestRowWins
CHECK_DEADLOCK FALSE
