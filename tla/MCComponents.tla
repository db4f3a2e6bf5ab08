---------------------------- MODULE MCComponents ----------------------------
EXTENDS Components

MCClientOf == [d1 |-> "x", d2 |-> "x", d3 |-> "y"]
MCExported == DOMAIN Exports
=============================================================================
