SPECIFICATION Spec
CONSTANTS
  PoolSize = 2
  HasWal = TRUE
  IoFails = TRUE
  NoFrame = NoFrame
  MaxPage = 3
  MaxLsn = 2
  MaxPins = 1
  MaxCrashes = 0
INVARIANTS
  TypeOK
  ReplacerAgrees
  PoolBounded
  OneFramePerPage
  NoLostUpdate
  FreeSpaceIsFree
PROPERTY OnlyFailedWriteBackStrands
