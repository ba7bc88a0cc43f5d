--------------------------- MODULE MCDisplayLoop ----------------------------
EXTENDS DisplayLoop
=============================================================================
