---------------------------- MODULE DataReceiver ----------------------------
(***************************************************************************)
(* DataReceiver: the data server of a collector or monitor.  Four threads  *)
(* share it: the command thread, which calls Listen and StopListen; the    *)
(* receiving thread, which turns packets into a queue of events and        *)
(* markers; the forwarding thread, which empties the queue into the user's *)
(* OnConnect, OnReceive and OnDisconnect; and the Deamon, which waits for  *)
(* the other two and takes the server down.  The other end of a connection *)
(* is a DataSender.                                                        *)
(*                                                                         *)
(* An element of Conns is one ConnectionInfo object.  The first Listen     *)
(* launches the Deamon; until then it would find nothing to do, so it is   *)
(* modelled as being there from the start.                                 *)
(***************************************************************************)
EXTENDS Integers, Sequences

CONSTANTS Conns,       \* data connections, each made once
          Rude,        \* those whose sender may leave before it is identified
          Throwing,    \* the user's callbacks may throw
          Slow,        \* the user's callbacks may take more than 10 seconds
          MaxEvents,   \* bound: events sent on one connection
          Cap,         \* the limit of m_qu_ev, 50000 in the code
          MaxCalls     \* bound: calls of Listen and StopListen

ASSUME DataReceiverAssumption ==
  /\ Rude \subseteq Conns
  /\ Throwing \in BOOLEAN /\ Slow \in BOOLEAN
  /\ MaxEvents \in Nat /\ Cap \in Nat \ {0} /\ MaxCalls \in Nat

VARIABLES
  cmd,        \* what the command thread is in: "idle", "listen" or "stop"
  calls,      \* how many calls it has made (for the bound alone)
  run,        \* how many times Listen has opened the server
  listening,  \* m_is_listening
  server,     \* there is a m_dataserver
  rcvReturn,  \* m_is_async_rcv_return
  rcv,        \* m_fut_async_rcv: no future, running, ready or holding an exception
  fwd,        \* m_fut_async_fwd: the same, and where the thread is while it runs
  awake,      \* m_cv_not_empty was notified since fwd began to wait
  dm,         \* where the Deamon is; it holds m_mx_deamon except at "top"
  phase,      \* the other end: from DataSender::Connect to its destruction
  born,       \* the run in which the connection was made
  sent,       \* events sent on it
  to,         \* packets on the way to the server
  state,      \* GetState() of the ConnectionInfo: 1 once identified
  known,      \* m_vt_con
  qu,         \* m_qu_ev: pairs of a connection and an event, or 0 for a marker
  last,       \* the last event of each connection given to OnReceive
  hails,      \* how often OnConnect was called for it
  byes,       \* how often OnDisconnect was called for it
  full        \* the queue has overflowed

lifeVars == <<listening, server, rcvReturn, run>>
sendVars == <<phase, born, sent>>
userVars == <<last, hails, byes>>
vars == <<cmd, calls, lifeVars, rcv, fwd, awake, dm, sendVars, to, state, known, qu,
          userVars, full>>

Events  == 1 .. MaxEvents
Packets == {"CONNECT", "NAME", "EVENT", "BYE"} \X (0 .. MaxEvents)
FwdAlive == {"top", "go", "wait"}

TypeOK ==
  /\ cmd \in {"idle", "listen", "stop"}
  /\ calls \in 0 .. MaxCalls
  /\ run \in Nat
  /\ listening \in BOOLEAN /\ server \in BOOLEAN
  /\ rcvReturn \in BOOLEAN /\ awake \in BOOLEAN /\ full \in BOOLEAN
  /\ rcv \in {"none", "run", "ended", "threw"}
  /\ fwd \in FwdAlive \cup {"none", "ended", "threw"}
  /\ dm \in {"top", "watchRcv", "watchFwd", "closeRcv", "closeFwd"}
  /\ phase \in [Conns -> {"absent", "calling", "greeted", "naming", "up", "gone"}]
  /\ born \in [Conns -> Nat]
  /\ sent \in [Conns -> 0 .. MaxEvents]
  /\ to \in [Conns -> Seq(Packets)]
  /\ state \in [Conns -> {0, 1}]
  /\ known \in SUBSET Conns
  /\ qu \in Seq(Conns \X (0 .. MaxEvents))
  /\ last \in [Conns -> 0 .. MaxEvents]
  /\ hails \in [Conns -> Nat]
  /\ byes \in [Conns -> Nat]

Init ==
  /\ cmd = "idle" /\ calls = 0 /\ run = 0
  /\ listening = FALSE /\ server = FALSE /\ rcvReturn = FALSE
  /\ rcv = "none" /\ fwd = "none" /\ awake = FALSE /\ dm = "top"
  /\ phase = [c \in Conns |-> "absent"]
  /\ born = [c \in Conns |-> 0]
  /\ sent = [c \in Conns |-> 0]
  /\ to = [c \in Conns |-> <<>>]
  /\ state = [c \in Conns |-> 0]
  /\ known = {}
  /\ qu = <<>>
  /\ last = [c \in Conns |-> 0]
  /\ hails = [c \in Conns |-> 0]
  /\ byes = [c \in Conns |-> 0]
  /\ full = FALSE

-----------------------------------------------------------------------------
(***************************************************************************)
(* The command thread.                                                     *)
(***************************************************************************)

CallListen ==
  /\ cmd = "idle" /\ calls < MaxCalls
  /\ calls' = calls + 1
  /\ cmd' = "listen"
  /\ UNCHANGED <<lifeVars, rcv, fwd, awake, dm, sendVars, to, state, known, qu, userVars, full>>

\* With m_mx_deamon taken: it throws when the last server is still there.
Listen ==
  /\ cmd = "listen" /\ dm = "top"
  /\ cmd' = "idle"
  /\ IF server
     THEN UNCHANGED <<lifeVars, rcv, fwd>>
     ELSE /\ server' = TRUE
          /\ listening' = TRUE
          /\ rcvReturn' = FALSE
          /\ run' = run + 1
          /\ rcv' = "run"
          /\ fwd' = "top"
  /\ UNCHANGED <<calls, awake, dm, sendVars, to, state, known, qu, userVars, full>>

CallStopListen ==
  /\ cmd = "idle" /\ calls < MaxCalls
  /\ calls' = calls + 1
  /\ cmd' = "stop"
  /\ listening' = FALSE
  /\ UNCHANGED <<server, rcvReturn, run, rcv, fwd, awake, dm, sendVars, to, state, known, qu, userVars, full>>

StopListenReturns ==
  /\ cmd = "stop" /\ rcv = "none" /\ fwd = "none"
  /\ cmd' = "idle"
  /\ UNCHANGED <<calls, lifeVars, rcv, fwd, awake, dm, sendVars, to, state, known, qu, userVars, full>>

\* The Deamon waits for a forwarding thread that nothing will ever end.
Stuck == dm = "closeFwd" /\ rcv = "none" /\ ~rcvReturn /\ fwd \in FwdAlive

\* The limit of 10 seconds: the threads need far less unless a callback does
\* not return or they are stuck.
StopListenThrows ==
  /\ cmd = "stop" /\ (rcv # "none" \/ fwd # "none")
  /\ Slow \/ Stuck
  /\ cmd' = "idle"
  /\ UNCHANGED <<calls, lifeVars, rcv, fwd, awake, dm, sendVars, to, state, known, qu, userVars, full>>

CommandStep == Listen \/ StopListenReturns \/ StopListenThrows

-----------------------------------------------------------------------------
(***************************************************************************)
(* The other ends: DataSender.  Its answers from the server (the greeting, *)
(* the OK) take effect here when the server sends them; it acts on them    *)
(* whenever it likes.                                                      *)
(***************************************************************************)

Open(c) ==
  /\ server /\ phase[c] = "absent"
  /\ phase' = [phase EXCEPT ![c] = "calling"]
  /\ born' = [born EXCEPT ![c] = run]
  /\ to' = [to EXCEPT ![c] = <<<<"CONNECT", 0>>>>]
  /\ UNCHANGED <<cmd, calls, lifeVars, rcv, fwd, awake, dm, sent, state, known, qu, userVars, full>>

SendName(c) ==
  /\ phase[c] = "greeted"
  /\ phase' = [phase EXCEPT ![c] = "naming"]
  /\ to' = [to EXCEPT ![c] = Append(@, <<"NAME", 0>>)]
  /\ UNCHANGED <<cmd, calls, lifeVars, rcv, fwd, awake, dm, born, sent, state, known, qu, userVars, full>>

SendEvent(c) ==
  /\ phase[c] = "up" /\ sent[c] < MaxEvents
  /\ sent' = [sent EXCEPT ![c] = @ + 1]
  /\ to' = [to EXCEPT ![c] = Append(@, <<"EVENT", sent[c] + 1>>)]
  /\ UNCHANGED <<cmd, calls, lifeVars, rcv, fwd, awake, dm, phase, born, state, known, qu, userVars, full>>

\* The end of the DataSender, or of Connect when no answer came in a second.
Close(c) ==
  /\ \/ phase[c] = "up"
     \/ c \in Rude /\ phase[c] \in {"calling", "greeted", "naming"}
  /\ phase' = [phase EXCEPT ![c] = "gone"]
  /\ to' = [to EXCEPT ![c] = Append(@, <<"BYE", 0>>)]
  /\ UNCHANGED <<cmd, calls, lifeVars, rcv, fwd, awake, dm, born, sent, state, known, qu, userVars, full>>

Sender(c) == Open(c) \/ SendName(c) \/ SendEvent(c) \/ Close(c)

-----------------------------------------------------------------------------
(***************************************************************************)
(* The receiving thread: DataHandler, by kind of packet.                   *)
(***************************************************************************)

\* The next packet of c is the n-th event, or of another kind k.  One Process call
\* may handle any number of them without a look at the loop's condition.
Packet(c, k, n) ==
  /\ rcv = "run"
  /\ to[c] # <<>> /\ Head(to[c]) = <<k, n>>
  /\ to' = [to EXCEPT ![c] = Tail(@)]

\* notify_all reaches the forwarding thread if it waits.
Notify == awake' = (awake \/ fwd = "wait")

\* The answer to a sender that has left meanwhile may fail, and the exception
\* ends the thread.
AnswerFails(c) == phase[c] = "gone" /\ rcv' = "threw"

HandleConnect(c) ==
  /\ Packet(c, "CONNECT", 0)
  /\ \/ /\ phase' = [phase EXCEPT ![c] = IF @ = "calling" THEN "greeted" ELSE @]
        /\ UNCHANGED rcv
     \/ AnswerFails(c) /\ UNCHANGED phase
  /\ UNCHANGED <<cmd, calls, lifeVars, fwd, awake, dm, born, sent, state, known, qu, userVars, full>>

\* Mutant: the marker is forgotten.
HandleNameQuietly(c) ==
  /\ Packet(c, "NAME", 0)
  /\ state' = [state EXCEPT ![c] = 1]
  /\ known' = known \cup {c}
  /\ phase' = [phase EXCEPT ![c] = IF @ = "naming" THEN "up" ELSE @]
  /\ UNCHANGED <<cmd, calls, lifeVars, rcv, fwd, awake, qu, dm, born, sent, userVars, full>>

HandleName(c) ==
  /\ Packet(c, "NAME", 0)
  /\ \/ /\ phase' = [phase EXCEPT ![c] = IF @ = "naming" THEN "up" ELSE @]
        /\ state' = [state EXCEPT ![c] = 1]
        /\ known' = known \cup {c}
        /\ qu' = Append(qu, <<c, 0>>)
        /\ Notify
        /\ UNCHANGED rcv
     \/ AnswerFails(c) /\ UNCHANGED <<phase, state, known, qu, awake>>
  /\ UNCHANGED <<cmd, calls, lifeVars, fwd, dm, born, sent, userVars, full>>

\* Mutant: the newest event goes to the front.
HandleEventInFront(c) ==
  \E e \in Events :
    LET q == <<<<c, e>>>> \o qu IN
    /\ Packet(c, "EVENT", e)
    /\ qu' = IF Len(q) > Cap THEN Tail(q) ELSE q
    /\ full' = (full \/ Len(q) > Cap)
    /\ Notify
    /\ UNCHANGED <<cmd, calls, lifeVars, rcv, fwd, dm, sendVars, state, known, userVars>>

\* Only here is the limit of the queue looked at; the oldest entry goes, be it
\* an event or a marker.
HandleEvent(c) ==
  \E e \in Events :
    LET q == Append(qu, <<c, e>>) IN
    /\ Packet(c, "EVENT", e)
    /\ qu' = IF Len(q) > Cap THEN Tail(q) ELSE q
    /\ full' = (full \/ Len(q) > Cap)
    /\ Notify
    /\ UNCHANGED <<cmd, calls, lifeVars, rcv, fwd, dm, sendVars, state, known, userVars>>

\* Mutant: the state is not reset.
HandleDisconnectKeepsState(c) ==
  /\ Packet(c, "BYE", 0)
  /\ IF c \in known
     THEN known' = known \ {c} /\ qu' = Append(qu, <<c, 0>>) /\ Notify /\ UNCHANGED rcv
     ELSE rcv' = "threw" /\ UNCHANGED <<known, qu, awake>>
  /\ UNCHANGED <<cmd, calls, lifeVars, fwd, dm, sendVars, state, userVars, full>>

\* Mutant: the state is counted down, not reset.
HandleDisconnectByCount(c) ==
  /\ Packet(c, "BYE", 0)
  /\ state' = [state EXCEPT ![c] = @ - 1]
  /\ IF c \in known
     THEN known' = known \ {c} /\ qu' = Append(qu, <<c, 0>>) /\ Notify /\ UNCHANGED rcv
     ELSE rcv' = "threw" /\ UNCHANGED <<known, qu, awake>>
  /\ UNCHANGED <<cmd, calls, lifeVars, fwd, dm, sendVars, userVars, full>>

\* Of a connection that was never identified, the exception ends the thread
\* without m_is_async_rcv_return.
HandleDisconnect(c) ==
  /\ Packet(c, "BYE", 0)
  /\ state' = [state EXCEPT ![c] = 0]
  /\ IF c \in known
     THEN /\ known' = known \ {c}
          /\ qu' = Append(qu, <<c, 0>>)
          /\ Notify
          /\ UNCHANGED rcv
     ELSE /\ rcv' = "threw"
          /\ UNCHANGED <<known, qu, awake>>
  /\ UNCHANGED <<cmd, calls, lifeVars, fwd, dm, sendVars, userVars, full>>

\* Mutant: the end is not announced.
ReceivingEndsQuietly ==
  /\ rcv = "run" /\ ~listening
  /\ rcv' = "ended"
  /\ UNCHANGED <<cmd, calls, lifeVars, fwd, awake, dm, sendVars, to, state, known, qu, userVars, full>>

ReceivingEnds ==
  /\ rcv = "run" /\ ~listening
  /\ rcvReturn' = TRUE
  /\ rcv' = "ended"
  /\ UNCHANGED <<cmd, calls, listening, server, run, fwd, awake, dm, sendVars, to, state, known, qu, userVars, full>>

DataHandler(c) ==
  HandleConnect(c) \/ HandleName(c) \/ HandleEvent(c) \/ HandleDisconnect(c)

-----------------------------------------------------------------------------
(***************************************************************************)
(* The forwarding thread.                                                  *)
(***************************************************************************)

\* Where a callback leaves the thread.
AfterCallback == fwd' \in {"top"} \cup IF Throwing THEN {"threw"} ELSE {}

\* m_is_async_rcv_return is looked at, and later the queue.
ForwardingGoesOn ==
  /\ fwd = "top" /\ ~rcvReturn
  /\ fwd' = "go"
  /\ UNCHANGED <<cmd, calls, lifeVars, rcv, awake, dm, sendVars, to, state, known, qu, userVars, full>>

Take(c, e) ==
  /\ fwd = "go"
  /\ qu # <<>> /\ Head(qu) = <<c, e>>
  /\ qu' = Tail(qu)

OnReceive(c) ==
  /\ \E e \in Events : Take(c, e) /\ last' = [last EXCEPT ![c] = e]
  /\ AfterCallback
  /\ UNCHANGED <<cmd, calls, lifeVars, rcv, awake, dm, sendVars, to, state, known, hails, byes, full>>

\* A marker says nothing itself: the state of the connection by now decides.
OnConnect(c) ==
  /\ state[c] = 1
  /\ Take(c, 0)
  /\ hails' = [hails EXCEPT ![c] = @ + 1]
  /\ AfterCallback
  /\ UNCHANGED <<cmd, calls, lifeVars, rcv, awake, dm, sendVars, to, state, known, last, byes, full>>

OnDisconnect(c) ==
  /\ state[c] = 0
  /\ Take(c, 0)
  /\ byes' = [byes EXCEPT ![c] = @ + 1]
  /\ AfterCallback
  /\ UNCHANGED <<cmd, calls, lifeVars, rcv, awake, dm, sendVars, to, state, known, last, hails, full>>

WaitForEvents ==
  /\ fwd = "go" /\ qu = <<>>
  /\ fwd' = "wait"
  /\ awake' = FALSE
  /\ UNCHANGED <<cmd, calls, lifeVars, rcv, dm, sendVars, to, state, known, qu, userVars, full>>

Wake ==
  /\ fwd = "wait" /\ awake
  /\ fwd' = "go"
  /\ UNCHANGED <<cmd, calls, lifeVars, rcv, awake, dm, sendVars, to, state, known, qu, userVars, full>>

\* wait_for times out just when it is notified, and waits again without a look
\* at the queue.
Oversleep ==
  /\ fwd = "wait" /\ awake /\ ~rcvReturn
  /\ awake' = FALSE
  /\ UNCHANGED <<cmd, calls, lifeVars, rcv, fwd, dm, sendVars, to, state, known, qu, userVars, full>>

\* The connections that remain are taken leave of; the queue is left as it is.
ForwardingEnds ==
  /\ fwd \in {"top", "wait"} /\ rcvReturn
  /\ fwd' = "ended"
  /\ byes' = [c \in Conns |-> IF c \in known THEN byes[c] + 1 ELSE byes[c]]
  /\ known' = {}
  /\ UNCHANGED <<cmd, calls, lifeVars, rcv, awake, dm, sendVars, to, state, qu, last, hails, full>>

\* One of those farewells throws: some are told, and m_vt_con keeps all of them.
ForwardingEndsBadly ==
  /\ Throwing
  /\ fwd \in {"top", "wait"} /\ rcvReturn /\ known # {}
  /\ fwd' = "threw"
  /\ \E S \in SUBSET known \ {{}} :
       byes' = [c \in Conns |-> IF c \in S THEN byes[c] + 1 ELSE byes[c]]
  /\ UNCHANGED <<cmd, calls, lifeVars, rcv, awake, dm, sendVars, to, state, known, qu, last, hails, full>>

Forwarding ==
  \/ ForwardingGoesOn \/ WaitForEvents \/ Wake \/ ForwardingEnds \/ ForwardingEndsBadly
  \/ \E c \in Conns : OnReceive(c) \/ OnConnect(c) \/ OnDisconnect(c)

-----------------------------------------------------------------------------
(***************************************************************************)
(* The Deamon: every 200 ms, with m_mx_deamon held for the whole round.    *)
(***************************************************************************)

DeamonLooks ==
  /\ dm = "top"
  /\ dm' = IF listening THEN "watchRcv" ELSE "closeRcv"
  /\ UNCHANGED <<cmd, calls, lifeVars, rcv, fwd, awake, sendVars, to, state, known, qu, userVars, full>>

\* While listening: futures are taken up if they are ready; an exception ends
\* the round.
WatchReceiving ==
  /\ dm = "watchRcv"
  /\ rcv' = IF rcv = "run" THEN "run" ELSE "none"
  /\ dm' = IF rcv = "threw" THEN "top" ELSE "watchFwd"
  /\ UNCHANGED <<cmd, calls, lifeVars, fwd, awake, sendVars, to, state, known, qu, userVars, full>>

WatchForwarding ==
  /\ dm = "watchFwd"
  /\ fwd' = IF fwd \in FwdAlive THEN fwd ELSE "none"
  /\ dm' = "top"
  /\ UNCHANGED <<cmd, calls, lifeVars, rcv, awake, sendVars, to, state, known, qu, userVars, full>>

\* After StopListen: get() waits for the thread; its exception ends the round.
CloseReceiving ==
  /\ dm = "closeRcv" /\ rcv # "run"
  /\ rcv' = "none"
  /\ dm' = IF rcv = "threw" THEN "top" ELSE "closeFwd"
  /\ UNCHANGED <<cmd, calls, lifeVars, fwd, awake, sendVars, to, state, known, qu, userVars, full>>

\* What the end of the server does to those at the other end.
Disconnected ==
  /\ phase' = [c \in Conns |-> IF phase[c] = "absent" THEN "absent" ELSE "gone"]
  /\ to' = [c \in Conns |-> <<>>]

\* Mutant: what the queue holds stays there.
CloseServerOnly ==
  /\ dm = "closeFwd" /\ fwd \notin FwdAlive
  /\ fwd' = "none"
  /\ dm' = "top"
  /\ IF fwd = "threw"
     THEN UNCHANGED <<server, phase, to>>
     ELSE server' = FALSE /\ Disconnected
  /\ UNCHANGED <<cmd, calls, listening, rcvReturn, run, rcv, awake, born, sent, state, known, qu, userVars, full>>

\* Without an exception the queue is emptied and the server closed.
CloseForwarding ==
  /\ dm = "closeFwd" /\ fwd \notin FwdAlive
  /\ fwd' = "none"
  /\ dm' = "top"
  /\ IF fwd = "threw"
     THEN UNCHANGED <<server, phase, to, qu>>
     ELSE server' = FALSE /\ qu' = <<>> /\ Disconnected
  /\ UNCHANGED <<cmd, calls, listening, rcvReturn, run, rcv, awake, born, sent, state, known, userVars, full>>

Deamon ==
  \/ DeamonLooks \/ WatchReceiving \/ WatchForwarding
  \/ CloseReceiving \/ CloseForwarding

-----------------------------------------------------------------------------

Next ==
  \/ CallListen \/ CallStopListen \/ CommandStep
  \/ ReceivingEnds \/ Forwarding \/ Oversleep \/ Deamon
  \/ \E c \in Conns : Sender(c) \/ DataHandler(c)

Spec == Init /\ [][Next]_vars

\* The four threads are scheduled, and a Listen that waits for m_mx_deamon gets it
\* if the Deamon lets it go again and again, for 200 ms each time.  The senders,
\* the user's calls, the coincidence of Oversleep and the limit of StopListen are
\* not promised.
Fairness ==
  /\ SF_vars(Listen)
  /\ WF_vars(StopListenReturns)
  /\ WF_vars(ReceivingEnds)
  /\ WF_vars(Forwarding)
  /\ WF_vars(Deamon)

FairSpec == Spec /\ Fairness

-----------------------------------------------------------------------------
(***************************************************************************)
(* Properties.                                                             *)
(***************************************************************************)

\* What the user's code sees is an event stream: per connection in order, no
\* event twice, and none of an earlier run, whatever was left in the queue or
\* threw in between; a call with the event of the call before would be no step of
\* the stream, so that each is of a later one is said beside it
\* (DataReceiver.cc:105-117, 136-141, 226-232).
Stream == INSTANCE EventStream
StreamSpec ==
  /\ Stream!Spec
  /\ [][\A c \in Conns : OnReceive(c) => last'[c] > last[c]]_vars

\* While there is no server there is nothing of the last one either: no thread,
\* no entry in the queue, no packet (DataReceiver.cc:162-185, 219-235).
CleanSlate ==
  ~server => /\ rcv = "none" /\ fwd = "none" /\ ~listening
             /\ qu = <<>> /\ \A c \in Conns : to[c] = <<>>

\* OnConnect comes before the first OnReceive of a connection, unless it has left
\* already or the queue was full in between (DataReceiver.cc:83-102, 136-151).
HailedFirst ==
  [][\A c \in Conns : last'[c] # last[c] => hails[c] = 1 \/ state[c] = 0 \/ full]_vars

\* StopListen comes back because both threads have ended, not by its limit, when
\* no callback hangs and no sender leaves unidentified (DataReceiver.cc:187-196).
StopListenEnds == cmd = "stop" ~> rcv = "none" /\ fwd = "none"

\* A Listen always returns: the Deamon lets go of m_mx_deamon, and the check for a
\* server that was not closed is reached (DataReceiver.cc:162-172, 198-226).
ListenAnswers == cmd = "listen" ~> cmd = "idle"

\* A connection that was announced is also taken leave of, or will be: while its
\* server is there, OnDisconnect was called for it, or AsyncForwarding knows it still,
\* or its marker is queued.  So a farewell can be lost in two ways only, at the limit
\* of the queue and with the queue at the end of a run (DataReceiver.cc:39-53,
\* 100-104, 145-158, 227-230).
FarewellWaits ==
  server /\ ~full =>
    \A c \in Conns : born[c] = run /\ hails[c] > 0 =>
      byes[c] > 0 \/ c \in known \/ \E i \in DOMAIN qu : qu[i] = <<c, 0>>
=============================================================================
