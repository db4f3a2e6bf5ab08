CONSTANT
    Resources <- MCResources
    Drivers <- MCDrivers
    Managed = {"port", "outlet"}
    Suppliers <- MCSuppliers
    Consoles = {"console"}
    Stays = {"power"}
SPECIFICATION Spec
INVARIANT SuppliersNeverLost
