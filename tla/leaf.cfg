SPECIFICATION Spec
CONSTANTS
  Keys = {1, 2, 3}
  Payloads <- MCPayloads
  Size <- MCSize
  NoRow = NoRow
  PageSize = 20
  HeaderSize = 5
  SlotSize = 1
  MetaSize = 2
  MaxValue = 4
  v1 = v1
  v2 = v2
  v4 = v4
  v5 = v5
INVARIANTS
  TypeOK
  SlotsInOrder
  SplitKeepsRows
  SplitMakesRoom
PROPERTIES
  ImplementsRowMap
  OnlyGrowthOverfills
