SPECIFICATION Spec
CONSTANTS
  NumFilters = 4
  Places = {pa, pb, pc}
INVARIANTS
  TypeOK
  NoDoubleAllocation
  NoPriorityInversion
  JustifiedWaiting
PROPERTY Terminates
\* The function returns: the model stops where the loop is left.
CHECK_DEADLOCK FALSE
