------------------------ MODULE MCITS3DataCollector ------------------------
EXTENDS ITS3DataCollector

CONSTANTS c1, c2, c3, c4

\* The first event of c1 is its BORE, as sent by ALPIDEProducer.
MCStatus == {<<c1, 1>>}

\* The third plane takes part for the sake of a second run, the fourth is none.
MCMaxEvents == [c \in Conns |-> IF c \in {c1, c2} THEN 2 ELSE 1]
=============================================================================
