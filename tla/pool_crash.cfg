SPECIFICATION Spec
CONSTANTS
  PoolSize = 2
  HasWal = TRUE
  IoFails = TRUE
  NoFrame = NoFrame
  MaxPage = 2
  MaxLsn = 2
  MaxPins = 1
  MaxCrashes = 1
INVARIANTS
  WalRule
  CheckpointSurvives
