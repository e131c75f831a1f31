--------------------------- MODULE MCTransportTCP ---------------------------
EXTENDS TransportTCPInv

CONSTANTS c1, c2

\* An empty packet, and one of a single byte.
MCPackets == {<<>>, <<4>>}

MCMaxPackets == [c \in Conns |-> IF c = c1 THEN 2 ELSE 0]
=============================================================================
