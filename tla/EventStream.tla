----------------------------- MODULE EventStream -----------------------------
(***************************************************************************)
(* What a DataReceiver promises the code that is written on top of it,     *)
(* whatever threads, sockets and queues are in between: in OnReceive, the  *)
(* events of one connection come in the order they were sent, none twice   *)
(* and none that was not sent, and only during the run in which that       *)
(* connection was made; and OnConnect at most once, also in that run.  It  *)
(* does not promise that all of them come.                                 *)
(***************************************************************************)
EXTENDS Naturals

CONSTANT Conns   \* data connections, each made once

VARIABLES
  run,    \* how many times Listen has opened the server
  born,   \* the run in which the connection was made; 0 before that
  sent,   \* events sent on it; the n-th one is called n
  last,   \* the last one OnReceive was called with; 0 before that
  hails   \* how often OnConnect was called for it

vars == <<run, born, sent, last, hails>>

Init ==
  /\ run = 0
  /\ born = [c \in Conns |-> 0]
  /\ sent = [c \in Conns |-> 0]
  /\ last = [c \in Conns |-> 0]
  /\ hails = [c \in Conns |-> 0]

Listen ==
  /\ run' = run + 1
  /\ UNCHANGED <<born, sent, last, hails>>

Open(c) ==
  /\ born[c] = 0
  /\ born' = [born EXCEPT ![c] = run]
  /\ UNCHANGED <<run, sent, last, hails>>

Send(c) ==
  /\ born[c] > 0
  /\ sent' = [sent EXCEPT ![c] = @ + 1]
  /\ UNCHANGED <<run, born, last, hails>>

OnReceive(c) ==
  /\ born[c] = run
  /\ \E e \in last[c] + 1 .. sent[c] : last' = [last EXCEPT ![c] = e]
  /\ UNCHANGED <<run, born, sent, hails>>

OnConnect(c) ==
  /\ born[c] = run /\ hails[c] = 0
  /\ hails' = [hails EXCEPT ![c] = 1]
  /\ UNCHANGED <<run, born, sent, last>>

Next == Listen \/ \E c \in Conns : Open(c) \/ Send(c) \/ OnReceive(c) \/ OnConnect(c)

Spec == Init /\ [][Next]_vars
=============================================================================
