-------------------------- MODULE TriggerIDSyncInv --------------------------
(***************************************************************************)
(* The inductive invariant of TriggerIDSyncDataCollector.                  *)
(***************************************************************************)
EXTENDS TriggerIDSyncDataCollector

OrderShape(c) ==
  /\ used[c] <= last[c] /\ last[c] <= sent[c] /\ sent[c] <= Len(Trigger[c])
  /\ born[c] <= run
  /\ born[c] = 0 => hails[c] = 0 /\ left[c] = 0 /\ last[c] = 0 /\ c \notin Connected
  /\ c \in inactive => left[c] > 0

\* A queue holds events that were received and are not in a packet, in order.
QueueShape(c) ==
  /\ \A i \in 1 .. Len(queues[c]) : queues[c][i] \in used[c] + 1 .. last[c]
  /\ \A i, j \in 1 .. Len(queues[c]) : i < j => queues[c][i] < queues[c][j]

\* With every connection told to come and to go, a queue is of a connection of this
\* run, and one of them at least is active.
TidyShape ==
  /\ fwd # "dead"
  /\ fwd = "none" => Connected = {}
  /\ inactive \subseteq Connected /\ (Connected # {} => inactive # Connected)
  /\ \A c \in Connected : /\ born[c] = run
                          /\ hails[c] = 1 \/ last[c] > 0
                          /\ left[c] > 0 => c \in inactive
  /\ \A c \in Conns : fwd = "alive" /\ born[c] = run =>
                        /\ hails[c] = 1 /\ left[c] = 0 => c \in Connected
                        /\ left[c] > 0 => hails[c] = 1

\* Nothing is missing between the events that were used and the last one received.
RegularShape(c) ==
  /\ \A i \in 1 .. Len(queues[c]) : queues[c][i] = used[c] + i
  /\ fwd = "alive" => used[c] + Len(queues[c]) = last[c]

MergerInv ==
  /\ fwd # "none" => run > 0
  /\ \A c \in Conns : OrderShape(c)
  /\ \A c \in Connected : QueueShape(c)
  /\ tidy => TidyShape
  /\ regular => \A c \in Connected : RegularShape(c)
  /\ BeforeData => trigger = 0
  /\ Together
=============================================================================
