SPECIFICATION Spec
CONSTANTS
  g1 = g1
  p1 = p1
  None = None
  Place = {p1, p2}
  Tag = {g1}
  Token = {t1, t2}
  User = {ua}
  Filter <- TagOrName
  Prio = {0}
PROPERTY FreePlaceIsUsed
