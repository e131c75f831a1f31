-------------------------- MODULE MCITS3RunControl --------------------------
EXTENDS ITS3RunControl

CONSTANTS p1, p2, d1
=============================================================================
