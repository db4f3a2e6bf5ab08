SPECIFICATION Spec
CONSTANTS
  g1 = g1
  p1 = p1
  None = None
  Place = {p1, p2}
  Tag = {g1}
  Token = {t1, t2}
  User = {ua, ub}
  Filter <- TagOrName
  Prio = {0, 1}
SYMMETRY Alike
CONSTRAINT OneDeleted
INVARIANT ReservationsConsistent
PROPERTIES
  OnlyOwnerLocks
  ReservedWhileUsed
  PriorityRespected
