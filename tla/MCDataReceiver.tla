--------------------------- MODULE MCDataReceiver ---------------------------
EXTENDS DataReceiverInv

CONSTANTS c1, c2
=============================================================================
