---------------------------- MODULE EventBuilding ----------------------------
(***************************************************************************)
(* What an event building collector promises, whatever its queues do: a    *)
(* global event takes events of connections of its own run only, those of  *)
(* one connection go into global events in the order they were sent, and   *)
(* none goes into two.                                                     *)
(***************************************************************************)
EXTENDS Naturals

CONSTANT Conns   \* data connections, each made once

VARIABLES
  run,    \* how many runs were begun
  born,   \* the run in which a connection was made; 0 before that
  sent,   \* events sent on it; the n-th one is called n
  used    \* the last one of them that went into a global event

vars == <<run, born, sent, used>>

Init ==
  /\ run = 0
  /\ born = [c \in Conns |-> 0]
  /\ sent = [c \in Conns |-> 0]
  /\ used = [c \in Conns |-> 0]

Listen == run' = run + 1 /\ UNCHANGED <<born, sent, used>>

Open(c) ==
  /\ born[c] = 0 /\ born' = [born EXCEPT ![c] = run]
  /\ UNCHANGED <<run, sent, used>>

Send(c) == sent' = [sent EXCEPT ![c] = @ + 1] /\ UNCHANGED <<run, born, used>>

\* A global event with one event of each connection in S.
Write(S) ==
  /\ \A c \in S : born[c] = run
  /\ used' \in [Conns -> Nat]
  /\ \A c \in Conns : IF c \in S THEN used'[c] \in used[c] + 1 .. sent[c]
                                 ELSE used'[c] = used[c]
  /\ UNCHANGED <<run, born, sent>>

Next ==
  \/ Listen
  \/ \E c \in Conns : Open(c) \/ Send(c)
  \/ \E S \in (SUBSET Conns) \ {{}} : Write(S)

Spec == Init /\ [][Next]_vars
=============================================================================
