CONSTANTS
  a = a
  b = b
  x = x
  Workers <- Two
  Cells = {x}
  Score <- ScoreOne
  Len = 4
  TTL = 4
  Batch = 1
  Free = Free
  Nothing = Nothing
  FirstNow = 8
  Instants = {8, 12, 15, 16}
  MaxFaults = 1
SPECIFICATION Spec
CHECK_DEADLOCK FALSE
INVARIANTS TypeOK FreeRunsApart LeasedRunsApart
PROPERTIES ImplementsLease
