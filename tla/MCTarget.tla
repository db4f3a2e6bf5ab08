------------------------------ MODULE MCTarget ------------------------------
EXTENDS Target

\* A serial port and a power outlet, both remote; a console with a boot loader
\* and a shell on it; a power driver; and a driver that needs console and
\* power (a programmer that switches the board into its loader).
MCResources == <<"port", "outlet">>
MCDrivers == <<"console", "uboot", "shell", "power", "loader">>
MCSuppliers == [console |-> {"port"}, uboot |-> {"console"}, shell |-> {"console"},
                power |-> {"outlet"}, loader |-> {"console", "power"}]
=============================================================================
