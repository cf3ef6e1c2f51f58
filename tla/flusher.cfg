SPECIFICATION Spec
CONSTANTS
  c1 = c1
  c2 = c2
  p1 = p1
  p2 = p2
  p3 = p3
  Clients = {c1, c2}
  Pages = {p1, p2, p3}
  PoolSize = 2
  Background = Background
  Owner = Owner
  None = None
SYMMETRY MCSymmetry
INVARIANTS
  TypeOK
  NoCircularWait
  DurableAtReturn
