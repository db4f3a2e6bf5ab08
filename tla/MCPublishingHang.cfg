CONSTANT
    c1 = c1
    c2 = c2
    Clients = {c1, c2}
    Places = {"1"}
    Groups = {"1"}
    MaxStarts = 1
    MaxEvents = 2
SPECIFICATION Spec
INVARIANT SyncCancelled
CHECK_DEADLOCK FALSE
