SPECIFICATION Spec
CONSTANTS
  Sync = TRUE
  WriteFails = FALSE
  Tears = {"zero"}
  MaxLsn = 6
  MaxBatch = 3
  MaxCrashes = 2
INVARIANTS
  AckedRecovered
CHECK_DEADLOCK FALSE
