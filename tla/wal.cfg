SPECIFICATION Spec
CONSTANTS
  Sync = TRUE
  WriteFails = TRUE
  Tears = {"cut"}
  MaxLsn = 5
  MaxBatch = 2
  MaxCrashes = 2
INVARIANTS
  TypeOK
  FlushedLsnIsDurable
  AckedRecovered
  RecoveredInOrder
  EntryCountTracksLog
CHECK_DEADLOCK FALSE
