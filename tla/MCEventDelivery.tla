--------------------------- MODULE MCEventDelivery -------------------------
EXTENDS EventDelivery
CONSTANTS e1, e2, e3, a1
=============================================================================
