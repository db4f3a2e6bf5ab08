CONSTANT
    Resources <- MCResources
    Drivers <- MCDrivers
    Managed = {"port", "outlet"}
    Suppliers <- MCSuppliers
    Consoles = {"console"}
    Stays = {"power"}
SPECIFICATION FairSpec
INVARIANT BindingsConsistent
PROPERTY TeardownInOrder
PROPERTY CallsEnd
