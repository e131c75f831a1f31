--------------------------- MODULE MCTriggerSync ---------------------------
EXTENDS TriggerIDSyncInv

CONSTANTS c1, c2, c3

\* The second connection misses the first trigger, and then sends an event without a
\* number.  The third sends nothing.
MCTrigger == [c \in Conns |-> CASE c = c1 -> <<1, 2>> [] c = c2 -> <<2, 0>> [] OTHER -> <<>>]
=============================================================================
