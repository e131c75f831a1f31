--------------------- MODULE TriggerIDSyncDataCollector ---------------------
(***************************************************************************)
(* An event builder for producers that know the number of the trigger: one *)
(* queue for each connection, and a packet with the events of the lowest   *)
(* trigger whenever no queue is empty, but one packet for each event that  *)
(* comes at most.  Nothing is done when a run begins: what a run leaves    *)
(* behind goes when its last connection goes, or by a reset.               *)
(*                                                                         *)
(* The callbacks run in the forwarding thread of the DataReceiver, which   *)
(* is here what EventStream says of it; resets come from the command       *)
(* thread.                                                                 *)
(***************************************************************************)
EXTENDS EventStream, Sequences, FiniteSets

CONSTANTS Trigger,   \* the numbers of the events on each connection; 0 if it has none
          MaxRuns    \* bound: runs

ASSUME TriggerAssumption ==
  /\ Trigger \in [Conns -> Seq(Nat)]
  /\ \A c \in Conns : \A i, j \in 1 .. Len(Trigger[c]) :
       i < j /\ Trigger[c][j] > 0 => Trigger[c][i] < Trigger[c][j]
  /\ MaxRuns \in Nat

VARIABLES
  fwd,        \* the forwarding thread: "none", "alive", or "dead" by an exception
  cmd,        \* the command thread: "free", or in StopListen
  queues,     \* m_conn_evque
  inactive,   \* m_conn_inactive
  left,       \* how often DoDisconnect was called for a connection
  used,       \* of each connection, the last event that went into a packet
  trigger,    \* the trigger of the last packet in this run; 0 before
  tidy,       \* every connection so far was told to come, and to go
  regular     \* of this run nothing was lost, and all came before the first event

callVars == <<fwd, cmd, left>>
buildVars == <<queues, inactive, used, trigger>>
allVars == <<vars, callVars, buildVars, tidy, regular>>

Connected == DOMAIN queues
NoQueues == [c \in {} |-> <<>>]

TypeOK ==
  /\ run \in Nat /\ trigger \in Nat
  /\ born \in [Conns -> Nat] /\ sent \in [Conns -> Nat]
  /\ last \in [Conns -> Nat] /\ hails \in [Conns -> Nat]
  /\ used \in [Conns -> Nat] /\ left \in [Conns -> Nat]
  /\ fwd \in {"none", "alive", "dead"} /\ cmd \in {"free", "stop"}
  /\ Connected \subseteq Conns /\ IsFiniteSet(Connected)
  /\ queues \in [Connected -> Seq(Nat)]
  /\ \A c \in Connected : \A i \in 1 .. Len(queues[c]) :
       queues[c][i] \in 1 .. Len(Trigger[c]) /\ Trigger[c][queues[c][i]] > 0
  /\ inactive \subseteq Conns /\ IsFiniteSet(inactive)
  /\ tidy \in BOOLEAN /\ regular \in BOOLEAN

CInit ==
  /\ Init
  /\ fwd = "none" /\ cmd = "free"
  /\ queues = NoQueues /\ inactive = {}
  /\ left = [c \in Conns |-> 0] /\ used = [c \in Conns |-> 0]
  /\ trigger = 0
  /\ tidy = TRUE /\ regular = TRUE

-----------------------------------------------------------------------------
(***************************************************************************)
(* The command thread.                                                     *)
(***************************************************************************)

\* OnStartRun; there is no DoStartRun.
StartListening ==
  /\ cmd = "free" /\ fwd = "none" /\ run < MaxRuns
  /\ Listen
  /\ fwd' = "alive"
  /\ trigger' = 0 /\ regular' = tidy
  /\ UNCHANGED <<cmd, left, queues, inactive, used, tidy>>

StopRun ==
  /\ cmd = "free" /\ fwd # "none"
  /\ cmd' = "stop"
  /\ UNCHANGED <<vars, fwd, left, buildVars, tidy, regular>>

\* Everything is dropped, and then StopListen is called as in StopRun.
DoReset ==
  /\ cmd = "free"
  /\ queues' = NoQueues /\ inactive' = {}
  /\ cmd' = IF fwd = "none" THEN "free" ELSE "stop"
  /\ tidy' = (fwd = "none") /\ regular' = FALSE
  /\ UNCHANGED <<vars, fwd, left, used, trigger>>

StopListenReturns ==
  /\ cmd = "stop" /\ fwd = "none"
  /\ cmd' = "free"
  /\ UNCHANGED <<vars, fwd, left, buildVars, tidy, regular>>

-----------------------------------------------------------------------------
(***************************************************************************)
(* The other ends.                                                         *)
(***************************************************************************)

ProducerConnects(c) ==
  /\ fwd # "none"
  /\ Open(c)
  /\ UNCHANGED <<callVars, buildVars, tidy, regular>>

ProducerSends(c) ==
  /\ born[c] = run /\ sent[c] < Len(Trigger[c])
  /\ Send(c)
  /\ UNCHANGED <<callVars, buildVars, tidy, regular>>

-----------------------------------------------------------------------------
(***************************************************************************)
(* The forwarding thread.  The marker of a connect is taken for one of a   *)
(* disconnect if the connection has gone meanwhile: then there are two     *)
(* calls of DoDisconnect and none of DoConnect.                            *)
(***************************************************************************)

\* It may still be heard of.
Pending(c) == hails[c] + left[c] < 2

\* No data was received in this run yet.
BeforeData == \A d \in Conns : born[d] = run => last[d] = 0

DoConnect(c) ==
  /\ fwd = "alive" /\ left[c] = 0
  /\ OnConnect(c)
  /\ queues' = [d \in Connected \cup {c} |-> IF d = c THEN <<>> ELSE queues[d]]
  /\ inactive' = inactive \ {c}
  /\ regular' = (regular /\ BeforeData)
  /\ UNCHANGED <<callVars, used, trigger, tidy>>

\* Mutant: what the last connection leaves stays.
DoDisconnectKeeps(c) ==
  /\ fwd = "alive" /\ Pending(c) /\ (born[c] = run \/ hails[c] = 1)
  /\ left' = [left EXCEPT ![c] = @ + 1]
  /\ inactive' = inactive \cup {c}
  /\ tidy' = (tidy /\ born[c] = run /\ hails[c] = 1)
  /\ regular' = (regular /\ born[c] = run /\ hails[c] = 1)
  /\ UNCHANGED <<vars, fwd, cmd, queues, used, trigger>>

\* Whether all are gone is told by counting.  A connection of an earlier run may have
\* been left in m_vt_con by a thread that died.
DoDisconnect(c) ==
  /\ fwd = "alive" /\ Pending(c) /\ (born[c] = run \/ hails[c] = 1)
  /\ left' = [left EXCEPT ![c] = @ + 1]
  /\ IF Cardinality(inactive \cup {c}) = Cardinality(Connected)
     THEN inactive' = {} /\ queues' = NoQueues
     ELSE inactive' = inactive \cup {c} /\ UNCHANGED queues
  /\ tidy' = (tidy /\ born[c] = run /\ hails[c] = 1)
  /\ regular' = (regular /\ born[c] = run /\ hails[c] = 1)
  /\ UNCHANGED <<vars, fwd, cmd, used, trigger>>

Number(q, c) == Trigger[c][Head(q[c])]

Complete(q) == \A c \in DOMAIN q : q[c] # <<>>

\* Those whose first event is of trigger t.
Front(q, t) == {c \in DOMAIN q : q[c] # <<>> /\ Number(q, c) = t}

\* t is the lowest number of a first event.
Lowest(q, t) ==
  /\ Front(q, t) # {}
  /\ \A c \in DOMAIN q : q[c] # <<>> => t <= Number(q, c)

Write(q, S, t) ==
  LET rest == [c \in DOMAIN q |-> IF c \in S THEN Tail(q[c]) ELSE q[c]]
      gone == {c \in inactive \cap DOMAIN q : rest[c] = <<>>}
  IN  /\ queues' = [c \in DOMAIN q \ gone |-> rest[c]]
      /\ inactive' = inactive \ gone
      /\ used' = [c \in Conns |-> IF c \in S THEN Head(q[c]) ELSE used[c]]
      /\ trigger' = t

\* Mutant: a connection that has no event yet is not waited for.
MergeAvailable(q) ==
  \E t \in {Number(q, c) : c \in {d \in DOMAIN q : q[d] # <<>>}} :
    Lowest(q, t) /\ Write(q, Front(q, t), t)

\* Mutant: all that come first go together, as if their triggers were the same.
MergeAll(q) ==
  IF Complete(q)
  THEN \E t \in {Number(q, c) : c \in DOMAIN q} : Lowest(q, t) /\ Write(q, DOMAIN q, t)
  ELSE queues' = q /\ UNCHANGED <<inactive, used, trigger>>

\* An inactive connection whose queue is empty now is forgotten.
Merge(q) ==
  IF Complete(q)
  THEN \E t \in {Number(q, c) : c \in DOMAIN q} :
         Lowest(q, t) /\ Write(q, Front(q, t), t)
  ELSE queues' = q /\ UNCHANGED <<inactive, used, trigger>>

\* The queue of a connection that has none is made.
Pushed(c, e) ==
  [d \in Connected \cup {c} |->
     LET q == IF d \in Connected THEN queues[d] ELSE <<>>
     IN  IF d = c THEN Append(q, e) ELSE q]

\* Mutant: an event without a trigger number is taken.
DoReceiveAnything(c) ==
  /\ fwd = "alive" /\ Pending(c)
  /\ OnReceive(c)
  /\ regular' = (regular /\ c \in Connected /\ last'[c] = last[c] + 1)
  /\ Merge(Pushed(c, last'[c]))
  /\ UNCHANGED <<fwd, tidy, cmd, left>>

\* An event without a trigger number is an exception, which ends the thread.
DoReceive(c) ==
  /\ fwd = "alive" /\ Pending(c)
  /\ OnReceive(c)
  /\ regular' = (regular /\ c \in Connected /\ last'[c] = last[c] + 1)
  /\ IF Trigger[c][last'[c]] = 0
     THEN fwd' = "dead" /\ tidy' = FALSE /\ UNCHANGED buildVars
     ELSE Merge(Pushed(c, last'[c])) /\ UNCHANGED <<fwd, tidy>>
  /\ UNCHANGED <<cmd, left>>

\* After StopListen.  Connections may remain whose disconnect the receiver has lost.
ForwardingEnds ==
  /\ cmd = "stop" /\ fwd # "none"
  /\ fwd' = "none"
  /\ tidy' = (tidy /\ \A c \in Conns :
                        born[c] = run /\ (hails[c] = 1 \/ last[c] > 0) => left[c] > 0)
  /\ UNCHANGED <<vars, cmd, left, buildVars, regular>>

-----------------------------------------------------------------------------

CNext ==
  \/ StartListening \/ StopRun \/ DoReset \/ StopListenReturns \/ ForwardingEnds
  \/ \E c \in Conns : \/ ProducerConnects(c) \/ ProducerSends(c)
                      \/ DoConnect(c) \/ DoDisconnect(c) \/ DoReceive(c)

CSpec == CInit /\ [][CNext]_allVars

-----------------------------------------------------------------------------
(***************************************************************************)
(* Properties.                                                             *)
(***************************************************************************)

\* A packet has events of one trigger, and no event goes into two packets or after a
\* later one, whatever came, went, was lost or left behind
\* (TriggerIDSyncDataCollecor.cc:69-113).
Merging == INSTANCE TriggerMerging
MergingSpec == Merging!Spec

\* All events of one trigger go into the same packet, and the packets come in the
\* order of their triggers, also of connections that have left, as long as the run
\* began with nothing behind it, all were there before the first event and none was
\* lost: then what was used are the events up to the trigger of the last packet
\* (TriggerIDSyncDataCollecor.cc:76-110).
Together ==
  regular => \A c \in Connected : \A e \in 1 .. Len(Trigger[c]) :
               Trigger[c][e] > 0 => (e <= used[c] <=> Trigger[c][e] <= trigger)

\* Although a run begins with what is there, and whether all are gone is told by
\* counting, there is nothing when every connection was told to come and to go
\* (TriggerIDSyncDataCollecor.cc:38-51, 98-110).
NothingRemains == tidy /\ fwd = "none" => Connected = {} /\ inactive = {}
=============================================================================
