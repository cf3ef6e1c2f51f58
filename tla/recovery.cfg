SPECIFICATION Spec
CONSTANTS
  p1 = p1
  p2 = p2
  Pages <- MCPages
  KeepsCounter = TRUE
  NoFrame = NoFrame
  MaxLsn = 3
  MaxCrashes = 2
  MaxFaults = 1
INVARIANTS
  TypeOK
  AlwaysRecoverable
  RowsRecovered
  ReplayNeverMisapplies
PROPERTY StartEnds
