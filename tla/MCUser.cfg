CONSTANTS
  i1 = i1
  i2 = i2
  u1 = u1
  u2 = u2
  p1 = p1
  p2 = p2
  c1 = c1
  c2 = c2
  c3 = c3
  Uid = {i1, i2}
  Object = {u1, u2}
  Peer = {p1, p2}
  Call = {c1, c2, c3}
  NULL = NULL
  MaxUser = 2
  Limit <- MCLimit
SPECIFICATION Spec
INVARIANTS UsersOK OneUserPerUid Balanced NoWarn
PROPERTIES ImplementsAccount
CHECK_DEADLOCK FALSE
SYMMETRY Symmetry
