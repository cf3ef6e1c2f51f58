SPECIFICATION Spec
CONSTANTS
  PageIds = {p1, p2, p3, p4}
  Capacity = 3
  NoPage = NoPage
INVARIANTS
  TypeOK
  SlotsPartitioned
  LiveLinked
  ArenaBounded
PROPERTY ImplementsLruOrder
SYMMETRY PageSymmetry
