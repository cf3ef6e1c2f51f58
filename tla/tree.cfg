SPECIFICATION Spec
CONSTANTS
  Keys = {1, 2, 3, 4}
  Payloads = {small}
  Size <- MCSize
  NoRow = NoRow
  PageSize = 14
  HeaderSize = 5
  SlotSize = 1
  MetaSize = 2
  MaxValue = 6
  MaxEntries = 2
  small = small
  large = large
  NoNode = NoNode
  PoolFails = TRUE
  MaxPage = 3
INVARIANTS
  TypeOK
  ChainInOrder
  FindAgreesWithScan
PROPERTY ImplementsRowMap
VIEW MCView
CONSTRAINT MCBound
