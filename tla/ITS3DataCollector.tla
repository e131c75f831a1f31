-------------------------- MODULE ITS3DataCollector --------------------------
(***************************************************************************)
(* The event builder of the ITS3 telescope: one queue for each connected   *)
(* data producer, and a global event whenever none of them is empty.       *)
(*                                                                         *)
(* Its callbacks run in the forwarding thread of the DataReceiver it is    *)
(* derived from, which is here what EventStream says of it; DoStartRun and *)
(* DoStatus run in the command thread.  Producers connect after DoStartRun *)
(* has returned, since RunControl starts them last (ServersUpFirst of      *)
(* EudaqControl).                                                          *)
(***************************************************************************)
EXTENDS EventStream, Sequences, FiniteSets

CONSTANTS DataConns,   \* those whose name is in dataproducers
          Status,      \* pairs of a connection and an event: the status events
          MaxEvents,   \* bound: how many events are sent on each connection
          MaxRuns      \* bound: runs

ASSUME ITS3DataCollectorAssumption ==
  /\ DataConns \subseteq Conns
  /\ Status \subseteq Conns \X Nat
  /\ MaxEvents \in [Conns -> Nat] /\ MaxRuns \in Nat

VARIABLES
  ready,    \* DoStartRun has returned in this run
  fwd,      \* the forwarding thread: "none", "alive", or "dead" by an exception
  cmd,      \* the command thread: "free", "stop", in "status", or "dead"
  seen,     \* the size of producer_queues that the iteration of DoStatus began with
  queues,   \* producer_queues
  ndev,     \* global events of this run
  used,     \* of each connection, the last event that went into a global event
  regular   \* nothing was lost so far in this run, and the telescope was complete

threadVars == <<ready, fwd, cmd, seen>>
buildVars == <<queues, ndev, used, regular>>
allVars == <<vars, threadVars, buildVars>>

IsStatus(c, e) == <<c, e>> \in Status

\* How many of the first e events of c are data.
Nth(c, e) == Cardinality({d \in 1 .. e : ~IsStatus(c, d)})

Connected == DOMAIN queues
NoQueues == [c \in {} |-> <<>>]

TypeOK ==
  /\ run \in Nat /\ ndev \in Nat /\ seen \in Nat
  /\ born \in [Conns -> Nat] /\ sent \in [Conns -> Nat]
  /\ last \in [Conns -> Nat] /\ hails \in [Conns -> Nat] /\ used \in [Conns -> Nat]
  /\ ready \in BOOLEAN /\ regular \in BOOLEAN
  /\ fwd \in {"none", "alive", "dead"}
  /\ cmd \in {"free", "stop", "status", "dead"}
  /\ Connected \subseteq DataConns /\ IsFiniteSet(Connected)
  /\ queues \in [Connected -> Seq(Nat)]

CInit ==
  /\ Init
  /\ ready = FALSE /\ fwd = "none" /\ cmd = "free" /\ seen = 0
  /\ queues = NoQueues /\ ndev = 0
  /\ used = [c \in Conns |-> 0]
  /\ regular = TRUE

-----------------------------------------------------------------------------
(***************************************************************************)
(* The command thread.                                                     *)
(***************************************************************************)

\* OnStartRun begins: the server is opened and its threads are launched.
StartListening ==
  /\ cmd = "free" /\ fwd = "none" /\ run < MaxRuns
  /\ Listen
  /\ ready' = FALSE
  /\ fwd' = "alive"
  /\ UNCHANGED <<cmd, seen, buildVars>>

\* Mutant: only the counters are reset.
DoStartRunKeepsQueues ==
  /\ cmd = "free" /\ fwd # "none" /\ ~ready
  /\ ready' = TRUE /\ ndev' = 0 /\ regular' = TRUE
  /\ UNCHANGED <<vars, fwd, cmd, seen, queues, used>>

DoStartRun ==
  /\ cmd = "free" /\ fwd # "none" /\ ~ready
  /\ ready' = TRUE
  /\ ndev' = 0
  /\ queues' = NoQueues
  /\ regular' = TRUE
  /\ UNCHANGED <<vars, fwd, cmd, seen, used>>

\* OnStopRun or OnReset, also after an OnStartRun that failed before DoStartRun:
\* what is called of this class does nothing, and StopListen waits for the thread.
StopRun ==
  /\ cmd = "free" /\ fwd # "none"
  /\ cmd' = "stop"
  /\ UNCHANGED <<vars, ready, fwd, seen, buildVars>>

StopListenReturns ==
  /\ cmd = "stop" /\ fwd = "none"
  /\ cmd' = "free"
  /\ UNCHANGED <<vars, ready, fwd, seen, buildVars>>

\* DoStatus adds up the lengths of the queues, one after the other.
DoStatusBegins ==
  /\ cmd = "free" /\ Connected # {}
  /\ cmd' = "status"
  /\ seen' = Cardinality(Connected)
  /\ UNCHANGED <<vars, ready, fwd, buildVars>>

\* A queue that came or went meanwhile is a RuntimeError, which OnStatus does not
\* catch: the thread ends.  The code looks in every turn of the loop; this may happen at
\* any of them, and a look that finds nothing changes nothing.
DoStatusEnds ==
  /\ cmd = "status"
  /\ cmd' = IF seen = Cardinality(Connected) THEN "free" ELSE "dead"
  /\ seen' = 0
  /\ UNCHANGED <<vars, ready, fwd, buildVars>>

-----------------------------------------------------------------------------
(***************************************************************************)
(* The other ends.                                                         *)
(***************************************************************************)

ProducerConnects(c) ==
  /\ ready /\ fwd # "none"
  /\ Open(c)
  /\ UNCHANGED <<threadVars, buildVars>>

ProducerSends(c) ==
  /\ born[c] = run /\ sent[c] < MaxEvents[c]
  /\ Send(c)
  /\ UNCHANGED <<threadVars, buildVars>>

-----------------------------------------------------------------------------
(***************************************************************************)
(* The forwarding thread.                                                  *)
(***************************************************************************)

\* No data was received in this run yet.
BeforeData == \A d \in DataConns : born[d] = run => Nth(d, last[d]) = 0

\* Mutant: every connection gets a queue.
DoConnectOfAny(c) ==
  /\ fwd = "alive"
  /\ OnConnect(c)
  /\ queues' = [d \in Connected \cup {c} |-> IF d = c THEN <<>> ELSE queues[d]]
  /\ regular' = (regular /\ BeforeData)
  /\ UNCHANGED <<threadVars, ndev, used>>

\* A telescope that grows after that is not the one the run began with.
DoConnect(c) ==
  /\ fwd = "alive"
  /\ OnConnect(c)
  /\ IF c \in DataConns
     THEN /\ queues' = [d \in Connected \cup {c} |-> IF d = c THEN <<>> ELSE queues[d]]
          /\ regular' = (regular /\ BeforeData)
     ELSE UNCHANGED <<queues, regular>>
  /\ UNCHANGED <<threadVars, ndev, used>>

DoDisconnect(c) ==
  /\ fwd = "alive" /\ born[c] = run /\ c \in Connected
  /\ queues' = [d \in Connected \ {c} |-> queues[d]]
  /\ regular' = FALSE
  /\ UNCHANGED <<vars, threadVars, ndev, used>>

Complete(q) == \A c \in DOMAIN q : q[c] # <<>>

\* Mutant: whatever is there is built.
BuildAndWriteAnyway(q) ==
  /\ queues' = [c \in DOMAIN q |-> IF q[c] = <<>> THEN <<>> ELSE Tail(q[c])]
  /\ ndev' = ndev + 1
  /\ used' = [c \in Conns |-> IF c \in DOMAIN q /\ q[c] # <<>> THEN Head(q[c]) ELSE used[c]]

\* Mutant: the last queue to be filled must hold two.
BuildAndWriteLate(q) ==
  IF Complete(q) /\ \E c \in DOMAIN q : Len(q[c]) > 1
  THEN /\ queues' = [c \in DOMAIN q |-> Tail(q[c])]
       /\ ndev' = ndev + 1
       /\ used' = [c \in Conns |-> IF c \in DOMAIN q THEN Head(q[c]) ELSE used[c]]
  ELSE queues' = q /\ UNCHANGED <<ndev, used>>

\* A global event is built if q has an event of every connection.  WriteEvent keeps its
\* own exceptions: the queues are the same if it fails (DataCollector.cc:216-221).
BuildAndWrite(q) ==
  IF Complete(q)
  THEN /\ queues' = [c \in DOMAIN q |-> Tail(q[c])]
       /\ ndev' = ndev + 1
       /\ used' = [c \in Conns |-> IF c \in DOMAIN q THEN Head(q[c]) ELSE used[c]]
  ELSE queues' = q /\ UNCHANGED <<ndev, used>>

\* Status events are written as they come.  Data of a connection without a queue is
\* a KeyError, which ends the thread.
DoReceive(c) ==
  /\ fwd = "alive"
  /\ OnReceive(c)
  /\ regular' = (regular /\ last'[c] = last[c] + 1)
  /\ IF IsStatus(c, last'[c])
     THEN UNCHANGED <<fwd, queues, ndev, used>>
     ELSE IF c \in Connected
     THEN /\ BuildAndWrite([queues EXCEPT ![c] = Append(@, last'[c])])
          /\ UNCHANGED fwd
     ELSE fwd' = "dead" /\ UNCHANGED <<queues, ndev, used>>
  /\ UNCHANGED <<ready, cmd, seen>>

\* After StopListen.  Connections may remain whose disconnect the receiver has lost.
ForwardingEnds ==
  /\ cmd = "stop" /\ fwd # "none"
  /\ fwd' = "none"
  /\ UNCHANGED <<vars, ready, cmd, seen, buildVars>>

-----------------------------------------------------------------------------

CNext ==
  \/ StartListening \/ DoStartRun \/ StopRun \/ StopListenReturns
  \/ DoStatusBegins \/ DoStatusEnds \/ ForwardingEnds
  \/ \E c \in Conns : \/ ProducerConnects(c) \/ ProducerSends(c)
                      \/ DoConnect(c) \/ DoDisconnect(c) \/ DoReceive(c)

CSpec == CInit /\ [][CNext]_allVars

-----------------------------------------------------------------------------
(***************************************************************************)
(* Properties.                                                             *)
(***************************************************************************)

\* Global events take every event once at most, in order, and of their own run,
\* although a forwarding thread that died leaves its queues behind
\* (ITS3DataCollector.py:33-37, 84-107).
Building == INSTANCE EventBuilding
BuildingSpec == Building!Spec

\* The n-th global event holds the n-th data event of every plane, as long as all
\* were connected before the first data came, none has left and the queue of the
\* receiver lost nothing (ITS3DataCollector.py:94-107).
InStep == regular => \A c \in Connected : Nth(c, used[c]) = ndev

\* And no event waits for longer than it must: of one plane at least everything is
\* written (ITS3DataCollector.py:95, 100).
NothingHeldBack == regular /\ Connected # {} => ~Complete(queues)
=============================================================================
