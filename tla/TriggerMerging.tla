--------------------------- MODULE TriggerMerging ---------------------------
(***************************************************************************)
(* What a collector that merges by trigger number promises: a packet takes *)
(* events of one and the same trigger, one of each connection at most, and *)
(* those of one connection go into packets in the order they were sent,    *)
(* none into two.  It does not promise that a run keeps to itself.         *)
(***************************************************************************)
EXTENDS Naturals, Sequences

CONSTANTS Conns,    \* data connections, each made once
          Trigger   \* the trigger numbers of the events sent on each of them

VARIABLES
  sent,   \* events sent on a connection; the n-th one is called n
  used    \* the last one of them that went into a packet

vars == <<sent, used>>

Init ==
  /\ sent = [c \in Conns |-> 0]
  /\ used = [c \in Conns |-> 0]

Send(c) == sent' = [sent EXCEPT ![c] = @ + 1] /\ UNCHANGED used

\* A packet with one event of each connection in S.
Write(S) ==
  /\ used' \in [Conns -> Nat]
  /\ \A c \in Conns : IF c \in S THEN used'[c] \in used[c] + 1 .. sent[c]
                                 ELSE used'[c] = used[c]
  /\ \A c, d \in S : Trigger[c][used'[c]] = Trigger[d][used'[d]]
  /\ UNCHANGED sent

Next ==
  \/ \E c \in Conns : Send(c)
  \/ \E S \in (SUBSET Conns) \ {{}} : Write(S)

Spec == Init /\ [][Next]_vars
=============================================================================
