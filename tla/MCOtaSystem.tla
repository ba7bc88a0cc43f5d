---------------------------- MODULE MCOtaSystem -----------------------------
EXTENDS OtaSystem
CONSTANTS p1, p2, c1, c2
=============================================================================
