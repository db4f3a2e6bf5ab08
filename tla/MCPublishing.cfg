CONSTANT
    c1 = c1
    c2 = c2
    Clients = {c1, c2}
    Places = {"1"}
    Groups = {"1"}
    MaxStarts = 1
    MaxEvents = 2
SPECIFICATION Spec
SYMMETRY MCSymmetry
CONSTRAINT FewEdits
INVARIANT ClientsServed
PROPERTY ReadYourWrites
PROPERTY NoTakeover
CHECK_DEADLOCK FALSE
