CONSTANTS
  w1 = w1
  w2 = w2
  Workers <- MCWorkers
  MaxAttempts = 1
  TTL = 1
  Margin = 0
  MaxNow = 2
  MaxRows = 2
  MaxUnreadable = 0
  Enabled <- Repairs
  MaxUses = 1
  NoRow = NoRow
  NoSnapshot = NoSnapshot
  NoClaim = NoClaim
SPECIFICATION Spec
SYMMETRY Symmetry
INVARIANTS TypeOK DoneIsFinal PardonReopens
CHECK_DEADLOCK FALSE
