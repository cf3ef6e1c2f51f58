SPECIFICATION Spec
CONSTANTS
  p1 = p1
  p2 = p2
  Pages <- MCPages
  KeepsCounter = FALSE
  NoFrame = NoFrame
  MaxLsn = 2
  MaxCrashes = 2
  MaxFaults = 0
INVARIANT RowsRecovered
