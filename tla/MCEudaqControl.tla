--------------------------- MODULE MCEudaqControl ---------------------------
EXTENDS EudaqControlInv

CONSTANTS p1, p2, d1, m1
=============================================================================
