SPECIFICATION Spec
CONSTANTS
  Keys = {1, 2, 3, 4}
  Payloads = {small, large}
  Size <- MCSize
  NoRow = NoRow
  PageSize = 32
  HeaderSize = 5
  SlotSize = 1
  MetaSize = 2
  MaxValue = 6
  MaxEntries = 1
  small = small
  large = large
  NoNode = NoNode
  PoolFails = FALSE
  MaxPage = 2
INVARIANT ModifiedIsDirty
VIEW MCView
