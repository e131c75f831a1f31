------------------------- MODULE MCALPIDETelescope --------------------------
EXTENDS ALPIDETelescopeInv

CONSTANTS a, b
=============================================================================
