------------------------ MODULE ITS3RunControl_proofs ------------------------
(***************************************************************************)
(* The ITS3 run control uses RunControl as EudaqControl says, and so has   *)
(* all that was proved of it; its own variables keep their types, the      *)
(* series ends, the replicas are where they were waited for, the producers *)
(* stop first, and the replicas go through RunCycle together.              *)
(*                                                                         *)
(* For that come lemmas about the statuses under way of a client that is   *)
(* waited for, then what each step does to a replica, and then the three   *)
(* invariants of ITS3RunControlInv.                                        *)
(***************************************************************************)
EXTENDS ITS3RunControlInv, EudaqControlInv_proofs

\* A step of the user's thread is a call of RunControl or does not touch it.
LEMMA UserLogicStep == UserLogic => UserCall \/ UNCHANGED vars
<1> SUFFICES ASSUME UserLogic PROVE UserCall \/ UNCHANGED vars
  OBVIOUS
<1>1. CASE ScanEnds \/ Check \/ \E r \in Replicas : Scan(r)
  BY <1>1 DEF ScanEnds, Check, Scan
<1>2. CASE CallInitialise \/ CallConfigure \/ CallStartRun \/ CallStopRun \/ CallTerminate
  BY <1>2 DEF CallInitialise, CallConfigure, CallStartRun, CallStopRun, CallTerminate, UserCall,
              Configure
<1>3. CASE RunBegins \/ RunChecks \/ RunEnds \/ ShownStopped \/ TerminateReturns
  BY <1>3 DEF RunBegins, RunChecks, RunEnds, ShownStopped, TerminateReturns
<1>4. CASE Fail
  BY <1>4 DEF Fail, UserCall
<1> QED BY <1>1, <1>2, <1>3, <1>4 DEF UserLogic

LEMMA InsideCallStep == InsideCall => CallStep
BY DEF InsideCall, CallStep

LEMMA CommandThreadStep ==
  (Callback \/ \E c \in Clients : AcceptConnection(c) \/ Receive(c)) =>
    (\E c \in Clients : Connect(c) \/ ReceiveStatus(c)) \/ UNCHANGED vars
BY DEF Callback, CallbackLocks, CallbackDraws, AcceptConnection, Receive

LEMMA KeyStep ==
  (EnoughEvents \/ HandleKey \/ Quit \/ \E k \in Keys : PressKey(k)) => UNCHANGED vars
BY DEF EnoughEvents, HandleKey, Quit, PressKey

\* Every step of the run control is one of EudaqControl, or a stutter.
LEMMA UIStep == [UINext]_allVars => [Next]_vars
<1> SUFFICES ASSUME [UINext]_allVars PROVE [Next]_vars
  OBVIOUS
<1>1. CASE UserLogic
  BY <1>1, UserLogicStep DEF Next
<1>2. CASE InsideCall
  BY <1>2, InsideCallStep DEF Next, Internal
<1>3. CASE Callback \/ \E c \in Clients : AcceptConnection(c) \/ Receive(c)
  BY <1>3, CommandThreadStep DEF Next, Internal
<1>4. CASE EnoughEvents \/ HandleKey \/ Quit \/ \E k \in Keys : PressKey(k)
  BY <1>4, KeyStep
<1>5. CASE Elsewhere
  BY <1>5 DEF Elsewhere, Next, Internal
<1>6. CASE UNCHANGED allVars
  BY <1>6 DEF allVars
<1> QED BY <1>1, <1>2, <1>3, <1>4, <1>5, <1>6 DEF UINext

\* RunControl, its clients and what is between them behave below the ITS3 run control
\* as EudaqControl says (ITS3RunControl.py:342-395).
THEOREM RunControlBelow == UISpec => Spec
<1>1. UIInit => Init
  BY DEF UIInit
<1> QED BY <1>1, UIStep, PTL DEF UISpec, Spec

\* So its StopRun overlooks no collector, whatever fails, hotkeys or not
\* (RunControl.cc:310-320).
THEOREM NoCollectorIsOverlooked == UISpec => []NoServerOverlooked
BY RunControlBelow, NoServerIsOverlooked, PTL

-----------------------------------------------------------------------------
(* Types of the run control's own variables.                               *)

LEMMA UserLogicType ==
  ASSUME UITypeOK, UserLogic
  PROVE  UITypeOK'
<1> USE DEF UITypeOK, userVars, flagVars, cbVars, keyVars, WaitFor
<1>1. CASE ScanEnds \/ Check \/ \E r \in Replicas : Scan(r)
  BY <1>1 DEF ScanEnds, Check, Scan
<1>2. CASE CallInitialise \/ CallConfigure \/ CallStopRun \/ CallTerminate \/ Fail
  BY <1>2 DEF CallInitialise, CallConfigure, CallStopRun, CallTerminate, Fail
<1>3. CASE CallStartRun
  BY <1>3 DEF CallStartRun
<1>4. CASE RunBegins \/ RunChecks \/ RunEnds \/ ShownStopped \/ TerminateReturns
  BY <1>4 DEF RunBegins, RunChecks, RunEnds, ShownStopped, TerminateReturns
<1> QED BY <1>1, <1>2, <1>3, <1>4 DEF UserLogic

LEMMA CommandThreadType ==
  ASSUME UITypeOK, TypeOK, Callback \/ \E c \in Clients : AcceptConnection(c) \/ Receive(c)
  PROVE  UITypeOK'
<1> USE DEF UITypeOK, userVars, flagVars, cbVars, keyVars
<1>1. CASE CallbackLocks
  <2>1. cb \in Clients
    BY <1>1 DEF CallbackLocks
  <2>2. status' \in [Clients -> Views]
    BY <1>1, <2>1 DEF CallbackLocks, TypeOK
  <2> QED BY <1>1, <2>1, <2>2 DEF CallbackLocks, LockFree
<1>2. CASE CallbackDraws
  BY <1>2 DEF CallbackDraws
<1>3. ASSUME NEW c \in Clients, AcceptConnection(c) \/ Receive(c)
      PROVE  UITypeOK'
  BY <1>3, ClientsAssumption DEF AcceptConnection, Receive, ConnsFree
<1> QED BY <1>1, <1>2, <1>3 DEF Callback

LEMMA KeyType ==
  ASSUME UITypeOK, EnoughEvents \/ HandleKey \/ Quit \/ \E k \in Keys : PressKey(k)
  PROVE  UITypeOK'
<1> USE DEF UITypeOK, userVars, flagVars, cbVars, keyVars
<1>1. CASE EnoughEvents \/ HandleKey \/ Quit
  BY <1>1 DEF EnoughEvents, HandleKey, Quit
<1>2. ASSUME NEW k \in Keys, PressKey(k)
      PROVE  UITypeOK'
  BY <1>2, ITS3RunControlAssumption DEF PressKey
<1> QED BY <1>1, <1>2

\* The run control's variables keep their types: among the rest, the lock is held
\* exactly while a callback waits for the loop (ITS3RunControl.py:286-296).
THEOREM UITyping == UISpec => []UITypeOK
<1>1. UIInit => UITypeOK
  <2> SUFFICES ASSUME UIInit PROVE UITypeOK
    OBVIOUS
  <2>1. status \in [Clients -> Views] /\ keys \in 0 .. MaxKeys
    BY ITS3RunControlAssumption DEF UIInit, Views
  <2> QED BY <2>1 DEF UIInit, UITypeOK
<1>2. ASSUME UITypeOK, TypeOK, [UINext]_allVars
      PROVE  UITypeOK'
  <2>1. CASE UserLogic
    BY <1>2, <2>1, UserLogicType
  <2>2. CASE Callback \/ \E c \in Clients : AcceptConnection(c) \/ Receive(c)
    BY <1>2, <2>2, CommandThreadType
  <2>3. CASE EnoughEvents \/ HandleKey \/ Quit \/ \E k \in Keys : PressKey(k)
    BY <1>2, <2>3, KeyType
  <2>4. CASE InsideCall \/ Elsewhere \/ UNCHANGED allVars
    <3>1. UNCHANGED uiVars
      BY <2>4 DEF InsideCall, Elsewhere, allVars
    <3> QED BY <1>2, <3>1 DEF uiVars, userVars, flagVars, cbVars, keyVars, UITypeOK
  <2> QED BY <1>2, <2>1, <2>2, <2>3, <2>4 DEF UINext
<1>3. UISpec => []TypeOK
  BY RunControlBelow, Typing, PTL
<1> QED BY <1>1, <1>2, <1>3, PTL DEF UISpec

-----------------------------------------------------------------------------
(* The end of the series.                                                  *)

\* Once a run was started after halt, nothing leads back to StartRun: the wait for
\* CONF, and what comes before it, lies behind the user's thread.
NoMoreRuns ==
  /\ late \in {0, 1}
  /\ late = 1 => halt /\ goal \in {"RUNNING", "STOPPED"} /\ user # "configure"

LEMMA UserLogicNoMoreRuns ==
  ASSUME NoMoreRuns, UserLogic
  PROVE  NoMoreRuns'
<1> USE DEF NoMoreRuns, flagVars, WaitFor
<1>1. CASE ScanEnds \/ Check \/ \E r \in Replicas : Scan(r)
  BY <1>1 DEF ScanEnds, Check, Scan
<1>2. CASE CallInitialise \/ CallConfigure \/ CallStopRun \/ CallTerminate \/ Fail
  BY <1>2 DEF CallInitialise, CallConfigure, CallStopRun, CallTerminate, Fail
<1>3. CASE CallStartRun
  <2>1. late = 0
    BY <1>3 DEF CallStartRun
  <2> QED BY <1>3, <2>1 DEF CallStartRun
<1>4. CASE RunBegins \/ RunChecks \/ RunEnds \/ ShownStopped \/ TerminateReturns
  BY <1>4 DEF RunBegins, RunChecks, RunEnds, ShownStopped, TerminateReturns
<1> QED BY <1>1, <1>2, <1>3, <1>4 DEF UserLogic

\* T ends the series, whenever it is pressed and whatever fails: one more run at most is
\* started after it (ITS3RunControl.py:64-67, 383).
THEOREM SeriesEnds == UISpec => []HaltIsHeard
<1>1. UIInit => NoMoreRuns
  BY DEF UIInit, NoMoreRuns
<1>2. ASSUME NoMoreRuns, [UINext]_allVars
      PROVE  NoMoreRuns'
  <2>1. CASE UserLogic
    BY <1>2, <2>1, UserLogicNoMoreRuns
  <2>2. CASE EnoughEvents \/ HandleKey \/ Quit \/ \E k \in Keys : PressKey(k)
    BY <1>2, <2>2 DEF NoMoreRuns, EnoughEvents, HandleKey, Quit, PressKey, userVars, flagVars
  <2>3. CASE Callback \/ \E c \in Clients : AcceptConnection(c) \/ Receive(c)
    BY <1>2, <2>3 DEF NoMoreRuns, Callback, CallbackLocks, CallbackDraws, AcceptConnection,
                      Receive, userVars, flagVars
  <2>4. CASE InsideCall \/ Elsewhere \/ UNCHANGED allVars
    BY <1>2, <2>4 DEF NoMoreRuns, InsideCall, Elsewhere, allVars, uiVars, userVars, flagVars
  <2> QED BY <1>2, <2>1, <2>2, <2>3, <2>4 DEF UINext
<1>3. NoMoreRuns => HaltIsHeard
  BY DEF NoMoreRuns, HaltIsHeard
<1> QED BY <1>1, <1>2, <1>3, PTL DEF UISpec

-----------------------------------------------------------------------------
(* Statuses under way, of a client that is waited for.                     *)

Goals == {"UNINIT", "UNCONF", "CONF", "RUNNING", "STOPPED"}

\* What was not g all along may become it now, or not.
LEMMA FirstArrival ==
  ASSUME NEW g, NEW v, NEW q \in Seq(Msgs), NEW s \in Msgs, NEW t \in Msgs,
         v # g, \A i \in DOMAIN q : q[i] # g
  PROVE  /\ Arriving(v, q, t, g)
         /\ Arriving(v, Append(q, t), t, g)
         /\ s # g => Arriving(v, Append(Append(q, s), t), t, g)
<1>1. Arriving(v, q, t, g) /\ Arriving(v, Append(q, t), t, g)
  BY DEF Arriving, Now
<1>2. ASSUME s # g
      PROVE  Arriving(v, Append(Append(q, s), t), t, g)
  <2> DEFINE p == Append(q, s)
  <2>1. p \in Seq(Msgs) /\ \A i \in DOMAIN p : p[i] # g
    BY <1>2
  <2> HIDE DEF p
  <2>2. Arriving(v, Append(p, t), t, g)
    BY <2>1 DEF Arriving, Now
  <2> QED BY <2>2 DEF p
<1> QED BY <1>1, <1>2

LEMMA ArrivedSend ==
  ASSUME NEW g \in Goals, NEW v, NEW q \in Seq(Msgs), NEW s \in Msgs, NEW t \in {s, "ERROR"},
         Arrived(v, q, s, g)
  PROVE  Arrived(v, q, t, g) /\ Arrived(v, Append(q, t), t, g)
<1>1. t \in Msgs /\ t \in Now(g) /\ (s = "ERROR" => t = "ERROR")
  BY DEF Arrived, Stays, Now, Msgs, States
<1>2. Arrived(v, q, t, g)
  BY <1>1 DEF Arrived, Stays, Now
<1>3. Stays(Append(q, t), t, g)
  BY <1>1 DEF Arrived, Stays, Now
<1>4. v = "ERROR" => \A i \in DOMAIN Append(q, t) : Append(q, t)[i] = "ERROR"
  BY <1>1 DEF Arrived
<1> QED BY <1>1, <1>2, <1>3, <1>4 DEF Arrived

LEMMA ArrivingSend ==
  ASSUME NEW g \in Goals, NEW v, NEW q \in Seq(Msgs), NEW s \in Msgs, NEW t \in {s, "ERROR"},
         Arriving(v, q, s, g)
  PROVE  Arriving(v, q, t, g) /\ Arriving(v, Append(q, t), t, g)
<1>1. t \in Msgs
  BY DEF Msgs, States
<1>2. v = g => Arrived(v, q, t, g) /\ Arrived(v, Append(q, t), t, g)
  BY ArrivedSend DEF Arriving
<1>3. ASSUME NEW i \in DOMAIN q, q[i] = g
      PROVE  /\ t \in Now(g) /\ (s = "ERROR" => t = "ERROR")
             /\ \A j \in DOMAIN q : j > i =>
                  /\ q[j] \in Now(g)
                  /\ q[j] = "ERROR" => s = "ERROR" /\ \A k \in DOMAIN q : k > j => q[k] = "ERROR"
  BY <1>3 DEF Arriving, Now
<1>4. Arriving(v, q, t, g)
  BY <1>2, <1>3 DEF Arriving
<1>5. \A i \in DOMAIN Append(q, t) : Append(q, t)[i] = g =>
        /\ t \in Now(g)
        /\ \A j \in DOMAIN Append(q, t) : j > i =>
             /\ Append(q, t)[j] \in Now(g)
             /\ Append(q, t)[j] = "ERROR" =>
                  t = "ERROR" /\ \A k \in DOMAIN Append(q, t) : k > j => Append(q, t)[k] = "ERROR"
  <2> SUFFICES ASSUME NEW i \in DOMAIN Append(q, t), Append(q, t)[i] = g
               PROVE  /\ t \in Now(g)
                      /\ \A j \in DOMAIN Append(q, t) : j > i =>
                           /\ Append(q, t)[j] \in Now(g)
                           /\ Append(q, t)[j] = "ERROR" =>
                                /\ t = "ERROR"
                                /\ \A k \in DOMAIN Append(q, t) : k > j => Append(q, t)[k] = "ERROR"
    OBVIOUS
  <2>1. CASE i \in DOMAIN q
    <3>1. q[i] = g
      BY <2>1, <1>1
    <3> QED BY <3>1, <2>1, <1>1, <1>3
  <2>2. CASE i = Len(q) + 1
    BY <2>2, <1>1 DEF Now
  <2>3. i \in DOMAIN q \/ i = Len(q) + 1
    BY <1>1
  <2> QED BY <2>1, <2>2, <2>3
<1> QED BY <1>2, <1>4, <1>5 DEF Arriving

LEMMA ArrivedReceive ==
  ASSUME NEW g \in Goals, NEW v, NEW q \in Seq(Msgs), NEW s, Arrived(v, q, s, g), q # <<>>
  PROVE  Arrived(Seeing(Head(q)), Tail(q), s, g)
<1>1. q[1] \in Now(g) /\ q[1] # "BYE" /\ Seeing(Head(q)) = q[1]
  BY TailOf DEF Arrived, Stays, Now, Goals, Seeing
<1>2. q[1] = "ERROR" => s = "ERROR" /\ \A i \in DOMAIN Tail(q) : Tail(q)[i] = "ERROR"
  BY TailOf DEF Arrived, Stays
<1>3. Stays(Tail(q), s, g)
  BY TailOf DEF Arrived, Stays
<1> QED BY <1>1, <1>2, <1>3 DEF Arrived

LEMMA ArrivingReceive ==
  ASSUME NEW g \in Goals, NEW v, NEW q \in Seq(Msgs), NEW s, Arriving(v, q, s, g), q # <<>>
  PROVE  Arriving(Seeing(Head(q)), Tail(q), s, g)
<1>1. \A i \in DOMAIN Tail(q) : Tail(q)[i] = g =>
        /\ s \in Now(g)
        /\ \A j \in DOMAIN Tail(q) : j > i =>
             /\ Tail(q)[j] \in Now(g)
             /\ Tail(q)[j] = "ERROR" =>
                  s = "ERROR" /\ \A k \in DOMAIN Tail(q) : k > j => Tail(q)[k] = "ERROR"
  BY TailOf DEF Arriving
<1>2. ASSUME Seeing(Head(q)) = g
      PROVE  Arrived(g, Tail(q), s, g)
  <2>1. q[1] = g /\ 1 \in DOMAIN q /\ g # "ERROR" /\ g \in Now(g)
    BY <1>2, TailOf DEF Seeing, Goals, Now
  <2>2. /\ s \in Now(g)
        /\ \A j \in DOMAIN q : j > 1 =>
             /\ q[j] \in Now(g)
             /\ q[j] = "ERROR" => s = "ERROR" /\ \A k \in DOMAIN q : k > j => q[k] = "ERROR"
    BY <2>1 DEF Arriving
  <2>3. Stays(Tail(q), s, g)
    BY <2>2, TailOf DEF Stays
  <2> QED BY <2>1, <2>3 DEF Arrived
<1> QED BY <1>1, <1>2 DEF Arriving

LEMMA ArrivedRecants ==
  ASSUME NEW g, NEW v, NEW q \in Seq(Msgs), q # <<>>, NEW s, NEW r,
         r = [q EXCEPT ![Len(q)] = "ERROR"]
  PROVE  /\ Arrived(v, q, s, g) => Arrived(v, r, "ERROR", g)
         /\ Arriving(v, q, s, g) => Arriving(v, r, "ERROR", g)
<1>1. /\ DOMAIN r = DOMAIN q /\ DOMAIN q = 1 .. Len(q) /\ Len(q) \in Nat
      /\ \A i \in DOMAIN q : r[i] = IF i = Len(q) THEN "ERROR" ELSE q[i]
  BY LastOverwritten DEF Msgs, States
<1>2. Arrived(v, q, s, g) => Arrived(v, r, "ERROR", g)
  BY <1>1 DEF Arrived, Stays, Now
<1>3. ASSUME Arriving(v, q, s, g)
      PROVE  Arriving(v, r, "ERROR", g)
  <2>1. CASE g = "ERROR"
    <3>1. \A j \in DOMAIN q : q[j] = g => \A k \in DOMAIN q : k > j => q[k] = "ERROR"
      BY <1>3, <2>1 DEF Arriving, Now
    <3> QED BY <1>1, <1>2, <1>3, <2>1, <3>1 DEF Arriving, Now
  <2>2. CASE g # "ERROR"
    BY <1>1, <1>2, <1>3, <2>2 DEF Arriving, Now
  <2> QED BY <2>1, <2>2
<1> QED BY <1>2, <1>3
-----------------------------------------------------------------------------
(* A step of a client: what it is to itself.                               *)

\* A status goes out with the turn, or none; INIT may send one before.
Says(c)  == statq'[c] = statq[c] \/ statq'[c] = Append(statq[c], st'[c])
Speaks(c) == Says(c) \/ statq'[c] = Append(Append(statq[c], st[c]), st'[c])

Takes(c) == /\ Reachable(c) /\ hpc[c] = "idle" /\ cmdq[c] # <<>>
            /\ cmdq'[c] = Tail(cmdq[c])

Polls(c) ==
  /\ Takes(c) /\ Head(cmdq[c]).op = "STATUS"
  /\ hpc'[c] \in {"idle", "dead"}
  /\ st'[c] \in {st[c], "ERROR"} /\ Says(c) /\ Told(c)

Obeys(c) ==
  /\ Takes(c) /\ Head(cmdq[c]).op # "STATUS"
  /\ Speaks(c)
  /\ hpc'[c] \in {"idle", "dead"} \/ (st'[c] = st[c] /\ statq'[c] = statq[c])
  /\ Head(cmdq[c]).op # "START" => hpc'[c] # "starting" /\ Told(c)

Finishes(c) ==
  /\ conn[c] = "up" /\ hpc[c] \notin {"idle", "dead"}
  /\ cmdq'[c] = cmdq[c] /\ hpc'[c] \in {"idle", "dead"}
  /\ Says(c)
  /\ hpc[c] # "starting" => Told(c)

\* The RunLoop returns, or throws, and the last status may have been ERROR after all.
Falters(c) == Loops(c) /\ (statq'[c] = statq[c] \/ Recants(c))

Moves(c) == Polls(c) \/ Obeys(c) \/ Finishes(c) \/ Falters(c)

LEMMA OwnMoves ==
  ASSUME TypeOK, NEW c \in Clients, ClientStep(c)
  PROVE  /\ SameControl
         /\ \/ conn[c] = "up" /\ conn'[c] = "gone"
            \/ conn'[c] = conn[c] /\ Moves(c)
<1> USE DEF SameControl, TypeOK
<1>1. CASE OnInitialise(c)
  <2>1. st'[c] = "UNCONF" /\ hpc'[c] = hpc[c] /\ SameControl /\ conn' = conn
    BY <1>1 DEF OnInitialise
  <2>2. \/ statq'[c] = Append(statq[c], "UNCONF")
        \/ statq'[c] = Append(Append(statq[c], st[c]), "UNCONF")
    BY <1>1 DEF OnInitialise
  <2>3. Takes(c) /\ Head(cmdq[c]).op = "INIT"
    BY <1>1, TakeOwn DEF OnInitialise, Takes
  <2>4. Speaks(c) /\ Told(c)
    BY <2>1, <2>2 DEF Speaks, Says, Told, R, States
  <2> QED BY <2>1, <2>3, <2>4 DEF Obeys, Moves, Takes
<1>2. CASE OnInitialiseFails(c)
  <2>1. Takes(c) /\ Head(cmdq[c]).op = "INIT"
    BY <1>2, TakeOwn DEF OnInitialiseFails, Takes
  <2>2. /\ hpc'[c] \in {"idle", "dead"} /\ Speaks(c) /\ Told(c)
    BY <1>2, ThrowOwn DEF OnInitialiseFails, Speaks, Says, Told, R, States
  <2> QED BY <1>2, <2>1, <2>2 DEF OnInitialiseFails, Obeys, Moves
<1>3. CASE OnInitialiseCrash(c) \/ OnTerminate(c) \/ Crash(c)
  BY <1>3 DEF OnInitialiseCrash, OnTerminate, Crash, Leave, Reachable
<1>4. CASE OnConfigure(c)
  <2>1. Takes(c) /\ Head(cmdq[c]).op = "CONFIG"
    BY <1>4, TakeOwn DEF OnConfigure, Takes
  <2>2. (Report(c, "CONF") /\ UNCHANGED hpc) \/ Throw(c, TRUE) \/ UserThrow(c)
    BY <1>4 DEF OnConfigure
  <2>3. /\ hpc'[c] \in {"idle", "dead"} /\ Speaks(c) /\ Told(c)
    BY <2>1, <2>2, ReportOrThrowOwn DEF Takes, Speaks, Says, Told, R, States
  <2> QED BY <1>4, <2>1, <2>3 DEF OnConfigure, Obeys, Moves
<1>5. CASE OnStartRun(c)
  <2>1. Takes(c) /\ Head(cmdq[c]).op = "START"
    BY <1>5, TakeOwn DEF OnStartRun, Takes
  <2>2. \/ hpc'[c] = "starting" /\ st'[c] = st[c] /\ statq'[c] = statq[c]
        \/ hpc'[c] \in {"idle", "dead"} /\ Speaks(c)
    BY <1>5, ThrowOwn DEF OnStartRun, Speaks, Says
  <2>3. Obeys(c)
    BY <2>1, <2>2 DEF Obeys, Speaks, Says
  <2> QED BY <1>5, <2>3 DEF OnStartRun, Moves
<1>6. CASE OnStartRunEnds(c)
  BY <1>6, ReportOwn DEF OnStartRunEnds, Idle, Finishes, Says, Moves
<1>7. CASE OnStopRun(c)
  <2>1. Takes(c) /\ Head(cmdq[c]).op = "STOP"
    BY <1>7, TakeOwn DEF OnStopRun, Takes
  <2>2. \/ hpc'[c] = "stopping" /\ st'[c] = st[c] /\ statq'[c] = statq[c]
        \/ hpc'[c] \in {"idle", "dead"} /\ Speaks(c) /\ Told(c)
    BY <1>7, UnwindOwn, ThrowOwn DEF OnStopRun, Speaks, Says, Told, R, States
  <2>3. Obeys(c)
    BY <2>1, <2>2 DEF Obeys, Speaks, Says, Told
  <2> QED BY <1>7, <2>3 DEF OnStopRun, Moves
<1>8. CASE OnReset(c)
  <2>1. Takes(c) /\ Head(cmdq[c]).op = "RESET"
    BY <1>8, TakeOwn DEF OnReset, Takes
  <2>2. \/ hpc'[c] = "resetting" /\ st'[c] = st[c] /\ statq'[c] = statq[c]
        \/ hpc'[c] \in {"idle", "dead"} /\ Speaks(c) /\ Told(c)
    BY <1>8, UnwindOwn, ThrowOwn DEF OnReset, Speaks, Says, Told, R, States
  <2>3. Obeys(c)
    BY <2>1, <2>2 DEF Obeys, Speaks, Says, Told
  <2> QED BY <1>8, <2>3 DEF OnReset, Moves
<1>9. CASE UnwindEnds(c)
  <2>1. Finishes(c)
    BY <1>9, ReportOwn DEF UnwindEnds, Idle, Finishes, Says, Told, R, States
  <2> QED BY <1>9, <2>1 DEF UnwindEnds, Moves
<1>10. CASE UnwindRethrows(c)
  <2>1. Finishes(c)
    BY <1>10, ThrowOwn DEF UnwindRethrows, Finishes, Says, Told, R, States
  <2> QED BY <1>10, <2>1 DEF UnwindRethrows, Moves
<1>11. CASE UnwindTimeout(c)
  <2>1. Finishes(c)
    BY <1>11, ThrowOwn DEF UnwindTimeout, Finishes, Says, Told, R, States
  <2> QED BY <1>11, <2>1 DEF UnwindTimeout, Moves
<1>12. CASE OnStatus(c)
  <2>1. Takes(c) /\ Head(cmdq[c]).op = "STATUS"
    BY <1>12, TakeOwn DEF OnStatus, Takes
  <2>2. (Report(c, st[c]) /\ UNCHANGED hpc) \/ Throw(c, TRUE) \/ UserThrow(c)
    BY <1>12 DEF OnStatus
  <2>3. /\ hpc'[c] \in {"idle", "dead"} /\ st'[c] \in {st[c], "ERROR"} /\ Says(c) /\ Told(c)
    BY <2>1, <2>2, ReportOrThrowOwn DEF Takes, Says, Told, R, States
  <2> QED BY <1>12, <2>1, <2>3 DEF OnStatus, Polls, Moves
<1>13. CASE LoopReturns(c)
  BY <1>13 DEF LoopReturns, netVars, Loops, Falters, Moves
<1>14. CASE LoopThrows(c)
  <2>1. Falters(c)
    BY <1>14 DEF LoopThrows, Loops, Falters, Recants
  <2> QED BY <1>14, <2>1 DEF LoopThrows, Moves
<1> QED BY <1>1, <1>2, <1>3, <1>4, <1>5, <1>6, <1>7, <1>8, <1>9, <1>10, <1>11, <1>12, <1>13,
           <1>14 DEF ClientStep, Handler
-----------------------------------------------------------------------------
(* What a step does to a replica.                                          *)

LEMMA GoalTyped == UITypeOK => goal \in Goals
BY DEF UITypeOK, Goals

LEMMA SameStage ==
  ASSUME SameControl, UNCHANGED uiVars
  PROVE  /\ Unsent' = Unsent /\ Here' = Here /\ goal' = goal /\ status' = status
         /\ user' = user /\ batch' = batch /\ rcpc' = rcpc
BY DEF SameControl, rcVars, uiVars, userVars, flagVars, cbVars, Unsent, Here

LEMMA TailOpen ==
  ASSUME NEW q \in Seq(Command), q # <<>>, OneOpen("idle", q)
  PROVE  /\ Head(q).op = "STATUS" => OneOpen("idle", Tail(q)) /\ OneOpen("dead", Tail(q))
         /\ Head(q).op # "STATUS" => OnlyStatus(Tail(q))
<1>1. CASE OnlyStatus(q)
  BY <1>1, TailCommand DEF OneOpen
<1>2. CASE ~OnlyStatus(q)
  <2>1. PICK k \in DOMAIN q : \A j \in DOMAIN q : j # k => q[j].op = "STATUS"
    BY <1>2 DEF OneOpen
  <2>2. CASE k = 1
    BY <2>1, <2>2, TailOf DEF OneOpen, OnlyStatus
  <2>3. CASE k # 1
    <3>1. Head(q).op = "STATUS" /\ k - 1 \in DOMAIN Tail(q)
      BY <2>1, <2>3, TailOf
    <3>2. \A j \in DOMAIN Tail(q) : j # k - 1 => Tail(q)[j].op = "STATUS"
      BY <2>1, TailOf
    <3> QED BY <3>1, <3>2 DEF OneOpen
  <2> QED BY <2>2, <2>3
<1> QED BY <1>1, <1>2

\* What has not reached the goal has not been where it is counted.
LEMMA NotReached ==
  ASSUME NEW c \in Clients, Tracked(c), ~Calm(hpc[c], cmdq[c])
  PROVE  /\ status[c] # goal /\ view[c] # goal /\ st[c] # goal
         /\ \A i \in DOMAIN statq[c] : statq[c][i] # goal
         /\ c \notin Here /\ c \notin Unsent
BY DEF Tracked, Reached

LEMMA PollsTracked ==
  ASSUME TypeOK, UITypeOK, NEW c \in Clients, Tracked(c), SameControl, UNCHANGED uiVars,
         Polls(c) \/ Falters(c)
  PROVE  Tracked(c)'
<1>0. /\ Unsent' = Unsent /\ Here' = Here /\ goal' = goal /\ status' = status /\ view' = view
      /\ goal \in Goals /\ statq[c] \in Seq(Msgs) /\ st[c] \in Msgs /\ cmdq[c] \in Seq(Command)
  BY SameStage, GoalTyped, Typed DEF SameControl
<1>1. /\ st'[c] \in {st[c], "ERROR"}
      /\ Says(c) \/ Recants(c)
  BY DEF Polls, Loops, Falters, Says
<1>2. ASSUME Recants(c)
       PROVE  /\ Reached(c)' => Reached(c)
              /\ Arrived(view[c], statq[c], st[c], goal)
                   => Arrived(view'[c], statq'[c], st'[c], goal')
              /\ Arriving(view[c], statq[c], st[c], goal)
                   => Arriving(view'[c], statq'[c], st'[c], goal')
  <2>1. /\ statq[c] # <<>> /\ statq'[c] = [statq[c] EXCEPT ![Len(statq[c])] = "ERROR"]
        /\ st'[c] = "ERROR"
    BY <1>2 DEF Recants
  <2> DEFINE q == statq[c]
             u == statq'[c]
  <2>2. q \in Seq(Msgs) /\ q # <<>> /\ u = [q EXCEPT ![Len(q)] = "ERROR"]
    BY <1>0, <2>1
  <2>3. /\ Arrived(view[c], q, st[c], goal) => Arrived(view[c], u, "ERROR", goal)
        /\ Arriving(view[c], q, st[c], goal) => Arriving(view[c], u, "ERROR", goal)
    <3> HIDE DEF q, u
    <3> QED BY <2>2, ArrivedRecants
  <2>4. \A i \in DOMAIN u : u[i] = "ERROR" \/ \E j \in DOMAIN q : u[i] = q[j]
    <3>1. DOMAIN u = DOMAIN q /\ \A i \in DOMAIN q : u[i] = IF i = Len(q) THEN "ERROR" ELSE q[i]
      <4> HIDE DEF q, u
      <4> QED BY <2>2, LastOverwritten DEF Msgs, States
    <3> HIDE DEF q, u
    <3> QED BY <3>1
  <2> HIDE DEF q, u
  <2>5. Reached(c)' => Reached(c)
    <3>1. statq'[c] = u /\ statq[c] = q /\ goal # "ERROR"
      BY <1>0 DEF q, u, Goals
    <3> QED BY <1>0, <2>1, <2>4, <3>1 DEF Reached
  <2>6. /\ Arrived(view[c], statq[c], st[c], goal) => Arrived(view'[c], statq'[c], st'[c], goal')
        /\ Arriving(view[c], statq[c], st[c], goal) => Arriving(view'[c], statq'[c], st'[c], goal')
    BY <1>0, <2>1, <2>3 DEF q, u
  <2> QED BY <2>5, <2>6
<1>3. ASSUME Says(c)
       PROVE  /\ Reached(c)' => Reached(c)
              /\ Arrived(view[c], statq[c], st[c], goal)
                   => Arrived(view'[c], statq'[c], st'[c], goal')
              /\ Arriving(view[c], statq[c], st[c], goal)
                   => Arriving(view'[c], statq'[c], st'[c], goal')
  <2>1. Arriving(view[c], statq[c], st[c], goal) => Arriving(view'[c], statq'[c], st'[c], goal')
    BY <1>0, <1>1, <1>3, ArrivingSend DEF Says
  <2>2. Arrived(view[c], statq[c], st[c], goal) => Arrived(view'[c], statq'[c], st'[c], goal')
    BY <1>0, <1>1, <1>3, ArrivedSend DEF Says
  <2>3. goal # "ERROR"
    BY <1>0 DEF Goals
  <2>4. st'[c] = goal => st[c] = goal
    BY <1>1, <2>3
  <2>5. ASSUME NEW i \in DOMAIN statq'[c], statq'[c][i] = goal
        PROVE  st'[c] = goal \/ \E j \in DOMAIN statq[c] : statq[c][j] = goal
    <3>1. CASE statq'[c] = statq[c]
      BY <2>5, <3>1
    <3>2. CASE statq'[c] = Append(statq[c], st'[c])
      <4>1. st'[c] \in Msgs
        BY <1>0, <1>1 DEF Msgs, States
      <4> QED BY <1>0, <2>5, <3>2, <4>1
    <3> QED BY <1>3, <3>1, <3>2 DEF Says
  <2>6. Reached(c)' => Reached(c)
    BY <1>0, <2>4, <2>5 DEF Reached
  <2> QED BY <2>1, <2>2, <2>6
<1>4. OneOpen(hpc'[c], cmdq'[c])
  <2>1. CASE Polls(c)
    BY <1>0, <2>1, TailOpen DEF Polls, Takes, Tracked
  <2>2. CASE Falters(c)
    BY <2>2 DEF Falters, Loops, Tracked
  <2> QED BY <2>1, <2>2
<1>5. Calm(hpc[c], cmdq[c]) => Calm(hpc'[c], cmdq'[c])
  BY <1>0, TailCommand DEF Polls, Takes, Falters, Loops, Calm
<1> QED BY <1>0, <1>1, <1>2, <1>3, <1>4, <1>5 DEF Tracked

LEMMA ActsTracked ==
  ASSUME TypeOK, UITypeOK, NEW c \in Clients, Tracked(c), SameControl, UNCHANGED uiVars,
         Obeys(c) \/ Finishes(c), st'[c] \in Msgs
  PROVE  Tracked(c)'
<1>0. /\ Unsent' = Unsent /\ Here' = Here /\ goal' = goal /\ status' = status /\ view' = view
      /\ goal \in Goals /\ statq[c] \in Seq(Msgs) /\ st[c] \in Msgs /\ cmdq[c] \in Seq(Command)
  BY SameStage, GoalTyped, Typed DEF SameControl
<1>1. ~Calm(hpc[c], cmdq[c])
  BY <1>0, TailCommand DEF Obeys, Finishes, Takes, Calm
<1>2. /\ status[c] # goal /\ view[c] # goal /\ st[c] # goal
      /\ \A i \in DOMAIN statq[c] : statq[c][i] # goal
      /\ c \notin Here /\ c \notin Unsent
  BY <1>1, NotReached
<1>3. Speaks(c)
  BY DEF Obeys, Finishes, Speaks
<1>4. Arriving(view[c], statq'[c], st'[c], goal)
  BY <1>0, <1>2, <1>3, FirstArrival DEF Speaks, Says
<1>5. OnlyStatus(cmdq'[c])
  BY <1>0, TailOpen DEF Obeys, Finishes, Takes, Tracked, OneOpen
<1>6. \/ hpc'[c] \in {"idle", "dead"}
      \/ st'[c] = st[c] /\ statq'[c] = statq[c]
  BY DEF Obeys, Finishes
<1>7. OneOpen(hpc'[c], cmdq'[c])
  BY <1>5 DEF OneOpen
<1>8. Reached(c)' => Calm(hpc'[c], cmdq'[c])
  BY <1>0, <1>2, <1>5, <1>6 DEF Reached, Calm
<1> QED BY <1>0, <1>2, <1>4, <1>7, <1>8 DEF Tracked

LEMMA OwnTracked ==
  ASSUME TypeOK, TypeOK', UITypeOK, NEW c \in Clients, ReplicaInv(c), ClientStep(c),
         UNCHANGED uiVars
  PROVE  ReplicaInv(c)'
<1>1. /\ SameControl
      /\ \/ conn[c] = "up" /\ conn'[c] = "gone"
         \/ conn'[c] = conn[c] /\ Moves(c)
  BY OwnMoves
<1>2. CASE conn'[c] = "gone"
  BY <1>2 DEF ReplicaInv
<1>3. CASE conn'[c] = "absent" /\ conn[c] = "absent" /\ Moves(c) /\ Fresh(c)
  <2>1. Loops(c) /\ statq'[c] = statq[c]
    BY <1>3 DEF Moves, Polls, Obeys, Finishes, Takes, Reachable, Falters, Recants, Fresh
  <2>2. view'[c] = view[c]
    BY <1>1 DEF SameControl
  <2> QED BY <1>1, <1>3, <2>1, <2>2, SameStage DEF Fresh, Loops, ReplicaInv
<1>4. CASE conn'[c] = "up" /\ Moves(c) /\ Tracked(c)
  <2>1. st'[c] \in Msgs
    BY Typed DEF TypeOK, Msgs
  <2> QED BY <1>1, <1>4, <2>1, PollsTracked, ActsTracked DEF Moves, ReplicaInv
<1> QED BY <1>1, <1>2, <1>3, <1>4 DEF ReplicaInv

\* A step of another thread that leaves a replica and what is said of it alone.
LEMMA ApartTracked ==
  ASSUME NEW c \in Clients, ReplicaInv(c), Apart(c), SameControl, UNCHANGED uiVars
  PROVE  ReplicaInv(c)'
<1>1. /\ Unsent' = Unsent /\ Here' = Here /\ goal' = goal /\ status' = status /\ batch' = batch
  BY SameStage
<1>2. Fresh(c) => Fresh(c)'
  BY <1>1 DEF Fresh, Apart
<1>3. Reached(c)' => Reached(c)
  BY <1>1 DEF Reached, Apart
<1>4. Tracked(c) => Tracked(c)'
  BY <1>1, <1>3 DEF Tracked, Apart
<1> QED BY <1>2, <1>4 DEF ReplicaInv, Apart

-----------------------------------------------------------------------------
(* What the threads of RunControl do to a replica.                         *)

LEMMA UnsentInBatch ==
  ASSUME TypeOK
  PROVE  Unsent \subseteq batch
BY DEF Unsent, TypeOK

LEMMA ConnectTracked ==
  ASSUME TypeOK, UITypeOK, NEW c \in Clients, ReplicaInv(c), AcceptConnection(c)
  PROVE  ReplicaInv(c)'
<1>0. /\ Unsent' = Unsent /\ Here' = Here /\ goal' = goal /\ status' = status /\ goal \in Goals
      /\ UNCHANGED <<netVars, hvars>>
  BY GoalTyped DEF AcceptConnection, Connect, rcVars, userVars, flagVars, Unsent, Here
<1>1. Fresh(c) /\ conn[c] = "absent"
  BY DEF AcceptConnection, Connect, ReplicaInv
<1>2. CASE ~listening
  BY <1>2, <1>1 DEF AcceptConnection, Connect, TypeOK, ReplicaInv
<1>3. CASE listening
  <2>1. /\ conn'[c] = "up" /\ view'[c] = "UNINIT" /\ statq'[c] = <<>> /\ cmdq'[c] = <<>>
        /\ st'[c] \in {"UNINIT", "ERROR"} /\ hpc'[c] = "idle"
        /\ status'[c] = "none" /\ c \notin Here' /\ c \notin Unsent'
    BY <1>0, <1>1, <1>3, UnsentInBatch
       DEF AcceptConnection, Connect, TypeOK, Fresh, netVars, hvars
  <2>2. Calm(hpc'[c], cmdq'[c]) /\ OneOpen(hpc'[c], cmdq'[c])
    BY <2>1 DEF Calm, OneOpen, OnlyStatus
  <2>3. Arriving(view'[c], statq'[c], st'[c], goal')
    BY <2>1 DEF Arriving, Arrived, Stays, Now
  <2>4. status'[c] # goal'
    BY <1>0, <2>1 DEF Goals
  <2>5. Tracked(c)'
    BY <2>1, <2>2, <2>3, <2>4 DEF Tracked
  <2> QED BY <2>1, <2>5 DEF ReplicaInv
<1> QED BY <1>2, <1>3

LEMMA ReceiveTracked ==
  ASSUME TypeOK, UITypeOK, NEW c \in Clients, ReplicaInv(c), Receive(c)
  PROVE  ReplicaInv(c)'
<1>0. /\ Unsent' = Unsent /\ Here' = Here /\ goal' = goal /\ status' = status /\ goal \in Goals
      /\ UNCHANGED <<conn, cmdq, hvars>> /\ statq[c] \in Seq(Msgs)
  BY GoalTyped, Typed DEF Receive, ReceiveStatus, rcVars, userVars, flagVars, Unsent, Here
<1>1. /\ statq[c] # <<>> /\ statq'[c] = Tail(statq[c]) /\ view'[c] = Seeing(Head(statq[c]))
      /\ st'[c] = st[c] /\ hpc'[c] = hpc[c]
  BY DEF Receive, ReceiveStatus, TypeOK, hvars, Seeing
<1>2. CASE conn[c] = "gone"
  BY <1>0, <1>2 DEF ReplicaInv
<1>3. CASE conn[c] = "up" /\ Tracked(c)
  <2>1. Arriving(view'[c], statq'[c], st'[c], goal)
    BY <1>0, <1>1, <1>3, ArrivingReceive DEF Tracked
  <2>2. Arrived(view[c], statq[c], st[c], goal) => Arrived(view'[c], statq'[c], st'[c], goal)
    BY <1>0, <1>1, ArrivedReceive
  <2>3. Reached(c)' => Reached(c)
    BY <1>0, <1>1, TailOf DEF Reached, Seeing, Goals
  <2>4. Tracked(c)'
    BY <1>0, <1>1, <1>3, <2>1, <2>2, <2>3 DEF Tracked
  <2> QED BY <1>0, <1>3, <2>4 DEF ReplicaInv
<1>4. ~(conn[c] = "absent" /\ Fresh(c))
  BY <1>1 DEF Fresh
<1> QED BY <1>2, <1>3, <1>4 DEF ReplicaInv

LEMMA CallbackTracked ==
  ASSUME TypeOK, UITypeOK, NEW c \in Clients, ReplicaInv(c), CallbackLocks
  PROVE  ReplicaInv(c)'
<1>0. /\ Unsent' = Unsent /\ Here' = Here /\ goal' = goal /\ UNCHANGED vars /\ goal \in Goals
  BY GoalTyped DEF CallbackLocks, vars, rcVars, userVars, flagVars, Unsent, Here
<1>1. /\ conn' = conn /\ view' = view /\ st' = st /\ statq' = statq /\ hpc' = hpc /\ cmdq' = cmdq
      /\ batch' = batch
  BY <1>0 DEF vars, rcVars, netVars, hvars
<1>2. status'[c] \in {status[c], view[c]}
  BY DEF CallbackLocks, UITypeOK
<1>3. Fresh(c) => Fresh(c)'
  BY <1>0, <1>1, <1>2 DEF Fresh
<1>4. ASSUME Tracked(c)
      PROVE  Tracked(c)'
  <2>1. status'[c] = goal => Arrived(view[c], statq[c], st[c], goal)
    BY <1>2, <1>4 DEF Tracked, Arriving
  <2>2. c \in Here => status'[c] \in Now(goal)
    BY <1>2, <1>4 DEF Tracked, Arrived
  <2>3. Reached(c)' => Reached(c)
    BY <1>0, <1>1, <1>2 DEF Reached
  <2> QED BY <1>0, <1>1, <1>4, <2>1, <2>2, <2>3 DEF Tracked
<1> QED BY <1>1, <1>3, <1>4 DEF ReplicaInv

\* A poll is one more that changes nothing.
LEMMA AppendOpen ==
  ASSUME NEW q \in Seq(Command), NEW m \in Command, NEW h
  PROVE  /\ m.op = "STATUS" /\ OneOpen(h, q) => OneOpen(h, Append(q, m))
         /\ m.op = "STATUS" /\ Calm(h, q) => Calm(h, Append(q, m))
         /\ Calm(h, q) => OneOpen(h, Append(q, m))
<1>1. ASSUME OnlyStatus(q), h \in {"idle", "dead"}
      PROVE  OneOpen(h, Append(q, m))
  <2>1. /\ Len(q) + 1 \in DOMAIN Append(q, m)
        /\ \A j \in DOMAIN Append(q, m) : j # Len(q) + 1 => Append(q, m)[j].op = "STATUS"
    BY <1>1 DEF OnlyStatus
  <2> QED BY <1>1, <2>1 DEF OneOpen
<1>2. ASSUME m.op = "STATUS", OneOpen(h, q)
      PROVE  OneOpen(h, Append(q, m))
  <2>1. CASE OnlyStatus(q)
    BY <1>2, <2>1, AppendCommand DEF OneOpen
  <2>2. CASE ~OnlyStatus(q)
    <3>1. /\ h \in {"idle", "dead"}
          /\ \E k \in DOMAIN q : \A j \in DOMAIN q : j # k => q[j].op = "STATUS"
      BY <1>2, <2>2 DEF OneOpen
    <3>2. PICK k \in DOMAIN q : \A j \in DOMAIN q : j # k => q[j].op = "STATUS"
      BY <3>1
    <3>3. /\ k \in DOMAIN Append(q, m)
          /\ \A j \in DOMAIN Append(q, m) : j # k => Append(q, m)[j].op = "STATUS"
      BY <1>2, <3>2
    <3> QED BY <3>1, <3>3 DEF OneOpen
  <2> QED BY <2>1, <2>2
<1>3. m.op = "STATUS" /\ Calm(h, q) => Calm(h, Append(q, m))
  BY AppendCommand DEF Calm
<1> QED BY <1>1, <1>2, <1>3 DEF Calm

LEMMA PollTracked ==
  ASSUME TypeOK, UITypeOK, NEW c \in Clients, ReplicaInv(c), PollStatus, UNCHANGED uiVars
  PROVE  ReplicaInv(c)'
<1>0. /\ Unsent' = Unsent /\ Here' = Here /\ goal' = goal /\ status' = status /\ batch' = batch
  BY SameStage DEF PollStatus, SameControl
<1>1. UNCHANGED <<view, conn, statq, st, hpc>> /\ cmdq[c] \in Seq(Command)
  BY Typed DEF PollStatus, hvars
<1>2. /\ Cmd("STATUS") \in Command /\ Cmd("STATUS").op = "STATUS"
  BY BoundsAssumption DEF Cmd, Command
<1>3. \/ cmdq'[c] = cmdq[c]
      \/ conn[c] = "up" /\ cmdq'[c] = Append(cmdq[c], Cmd("STATUS"))
  BY DEF PollStatus, SendCommand, Reachable
<1>4. /\ OneOpen(hpc[c], cmdq[c]) => OneOpen(hpc'[c], cmdq'[c])
      /\ Calm(hpc[c], cmdq[c]) => Calm(hpc'[c], cmdq'[c])
  BY <1>1, <1>2, <1>3, AppendOpen
<1>5. Reached(c)' = Reached(c)
  BY <1>0, <1>1 DEF Reached
<1>6. conn[c] = "absent" /\ Fresh(c) => Fresh(c)'
  BY <1>0, <1>1, <1>3 DEF Fresh
<1>7. Tracked(c) => Tracked(c)'
  BY <1>0, <1>1, <1>4, <1>5 DEF Tracked
<1> QED BY <1>1, <1>6, <1>7 DEF ReplicaInv

-----------------------------------------------------------------------------
(* What the user's thread does to a replica.                               *)

\* What a step inside a call sends, and to whom.
Sending ==
  /\ UNCHANGED <<view, conn, statq, hvars>>
  /\ batch' \subseteq batch /\ rcpc # "idle"
  /\ \E S \in SUBSET Clients, m \in Command :
       /\ (cmdq' = cmdq /\ S = {}) \/ SendCommand(S, m)
       /\ S \subseteq Unsent /\ Unsent' \subseteq Unsent \ S

\* It goes to some of those that the call has still to send one to.
LEMMA CallSends ==
  ASSUME TypeInv, PhaseInv, CallStep
  PROVE  Sending
<1> DEFINE Sends(S, m) == SendCommand(S, m) /\ S \subseteq Unsent /\ Unsent' \subseteq Unsent \ S
           Silent == UNCHANGED <<view, conn, statq, hvars>> /\ batch' \subseteq batch
<1>0. /\ Cmd("STOP") \in Command
      /\ rcpc \in {"startOthers", "startCollectors", "startProducers"} => Start(runN) \in Command
      /\ todo \subseteq batch /\ batch \subseteq Clients
  BY BoundsAssumption DEF Cmd, Start, Command, TypeInv, TypeOK
<1>1. ASSUME NEW S \in SUBSET Clients, NEW m \in Command, Sends(S, m), Silent, rcpc # "idle"
      PROVE  Sending
  BY <1>1 DEF Sending
<1>2. ASSUME cmdq' = cmdq, Unsent' \subseteq Unsent, Silent, rcpc # "idle"
      PROVE  Sending
  <2>1. cmdq' = cmdq /\ {} = {} /\ {} \subseteq Unsent /\ Unsent' \subseteq Unsent \ {}
    BY <1>2
  <2>2. {} \in SUBSET Clients /\ Cmd("STOP") \in Command
    BY <1>0
  <2> QED BY <1>2, <2>1, <2>2 DEF Sending
<1> USE ClientsAssumption DEF Clients, Servers
<1>3. CASE SeeRunning
  <2>1. Unsent' \subseteq Unsent /\ cmdq' = cmdq /\ Silent /\ rcpc # "idle"
    BY <1>3 DEF SeeRunning, netVars, Unsent, PhaseInv
  <2> QED BY <1>2, <2>1
<1>4. CASE \E c \in Clients : SeeLeftConf(c) \/ SeeStopped(c) \/ NullStatus(c) \/ SeeAddress(c)
  <2>1. Unsent' \subseteq Unsent /\ cmdq' = cmdq /\ Silent /\ rcpc # "idle"
    BY <1>4 DEF SeeLeftConf, SeeStopped, NullStatus, SeeAddress, netVars, Unsent
  <2> QED BY <1>2, <2>1
<1>5. CASE OthersStarted
  <2>1. Unsent' \subseteq Unsent /\ cmdq' = cmdq /\ Silent /\ rcpc # "idle"
    BY <1>5 DEF OthersStarted, netVars, Unsent
  <2> QED BY <1>2, <2>1
<1>6. CASE CollectorsStarted
  <2>1. Sends((batch \cap Producers) \ {LastStart}, Start(runN))
    BY <1>0, <1>6 DEF CollectorsStarted, Unsent
  <2>2. Silent /\ rcpc # "idle" /\ (batch \cap Producers) \ {LastStart} \in SUBSET Clients
    BY <1>0, <1>6 DEF CollectorsStarted
  <2> QED BY <1>0, <1>1, <1>6, <2>1, <2>2 DEF CollectorsStarted
<1>7. CASE StartLastProducer
  <2>1. Sends(batch \cap {LastStart}, Start(runN))
    BY <1>0, <1>7 DEF StartLastProducer, Unsent
  <2>2. Silent /\ rcpc # "idle" /\ batch \cap {LastStart} \in SUBSET Clients
    BY <1>0, <1>7 DEF StartLastProducer
  <2> QED BY <1>0, <1>1, <1>7, <2>1, <2>2 DEF StartLastProducer
<1>8. CASE StopProducers
  <2>1. Sends((batch \cap Producers) \ {FirstStop}, Cmd("STOP"))
    BY <1>0, <1>8 DEF StopProducers, Unsent
  <2>2. Silent /\ rcpc # "idle" /\ (batch \cap Producers) \ {FirstStop} \in SUBSET Clients
    BY <1>0, <1>8 DEF StopProducers
  <2> QED BY <1>0, <1>1, <2>1, <2>2
<1>9. CASE StopCollectors
  <2>1. Sends(batch \cap Collectors, Cmd("STOP"))
    BY <1>0, <1>9 DEF StopCollectors, Unsent
  <2>2. Silent /\ rcpc # "idle" /\ batch \cap Collectors \in SUBSET Clients
    BY <1>0, <1>9 DEF StopCollectors
  <2> QED BY <1>0, <1>1, <2>1, <2>2
<1>10. CASE StopOthers
  <2>1. Sends(batch \cap Others, Cmd("STOP"))
    BY <1>0, <1>10 DEF StopOthers, Unsent
  <2>2. Silent /\ rcpc # "idle" /\ batch \cap Others \in SUBSET Clients
    BY <1>0, <1>10 DEF StopOthers
  <2> QED BY <1>0, <1>1, <2>1, <2>2
<1>11. ASSUME NEW c \in Clients, StartServer(c)
       PROVE  Sends({c}, Start(runN)) /\ Silent /\ rcpc # "idle"
  <2>1. CASE rcpc = "startOthers"
    BY <1>0, <1>11, <2>1 DEF StartServer, Unsent, PhaseInv
  <2>2. CASE rcpc = "startCollectors"
    BY <1>0, <1>11, <2>2 DEF StartServer, Unsent, PhaseInv
  <2> QED BY <1>11, <2>1, <2>2 DEF StartServer
<1>12. ASSUME NEW c \in Clients, StartServer(c)
       PROVE  Sending
  <2>1. {c} \in SUBSET Clients /\ Start(runN) \in Command
    BY <1>0, <1>12 DEF StartServer
  <2> QED BY <1>1, <1>11, <1>12, <2>1
<1>13. CASE InitialiseEnds
  <2>1. Unsent' \subseteq Unsent /\ cmdq' = cmdq /\ Silent /\ rcpc # "idle"
    BY <1>13 DEF InitialiseEnds, netVars, Unsent
  <2> QED BY <1>2, <2>1
<1>14. CASE SendConfig
  <2> DEFINE m == [Cmd("CONFIG") EXCEPT !.addr = addrs]
  <2>1. m \in Command
    BY ConfigType DEF TypeInv, TypeOK
  <2>2. Sends(batch, m) /\ Silent /\ rcpc # "idle" /\ batch \in SUBSET Clients
    BY <1>0, <1>14 DEF SendConfig, Unsent
  <2> HIDE DEF m
  <2> QED BY <1>1, <2>1, <2>2
<1>15. ASSUME NEW c \in Clients, InitialiseSingleConnection(c)
       PROVE  Sending
  <2> DEFINE S == {c} \cap Seen({"UNINIT", "UNCONF"})
  <2>1. S \in SUBSET Clients /\ Cmd("INIT") \in Command
    BY CmdType
  <2>2. Sends(S, Cmd("INIT")) /\ Silent /\ rcpc # "idle"
    BY <1>0, <1>15 DEF InitialiseSingleConnection, Unsent
  <2> HIDE DEF S
  <2> QED BY <1>1, <2>1, <2>2
<1> QED BY <1>3, <1>4, <1>5, <1>6, <1>7, <1>8, <1>9, <1>10, <1>12, <1>13, <1>14, <1>15 DEF CallStep

LEMMA CallStepTracked ==
  ASSUME TypeInv, PhaseInv, UITypeOK, NEW c \in Clients, ReplicaInv(c), CallStep,
         UNCHANGED uiVars, c \notin Here
  PROVE  ReplicaInv(c)'
<1>0. TypeOK
  BY DEF TypeInv
<1>1. Here' = Here /\ goal' = goal /\ status' = status
  BY DEF uiVars, userVars, flagVars, cbVars, Here
<1>2. UNCHANGED <<view, conn, statq, st, hpc>> /\ batch' \subseteq batch
  BY CallSends DEF Sending, hvars
<1>3. PICK S \in SUBSET Clients, m \in Command :
        /\ (cmdq' = cmdq /\ S = {}) \/ SendCommand(S, m)
        /\ S \subseteq Unsent /\ Unsent' \subseteq Unsent \ S
  BY CallSends DEF Sending
<1>4. \/ cmdq'[c] = cmdq[c] /\ (c \in Unsent' => c \in Unsent)
      \/ /\ conn[c] = "up" /\ cmdq'[c] = Append(cmdq[c], m)
         /\ c \in Unsent /\ c \notin Unsent'
  <2>1. CASE cmdq' = cmdq /\ S = {}
    BY <1>3, <2>1
  <2>2. CASE SendCommand(S, m)
    BY <1>0, <1>3, <2>2, Sent DEF Reachable
  <2> QED BY <1>3, <2>1, <2>2
<1>5. Reached(c)' = Reached(c)
  BY <1>1, <1>2 DEF Reached
<1>6. conn[c] = "absent" /\ Fresh(c) => Fresh(c)'
  BY <1>1, <1>2, <1>4 DEF Fresh
<1>7. ASSUME Tracked(c)
      PROVE  Tracked(c)'
  <2>1. CASE cmdq'[c] = cmdq[c] /\ (c \in Unsent' => c \in Unsent)
    BY <1>1, <1>2, <1>5, <1>7, <2>1 DEF Tracked
  <2>2. CASE /\ cmdq'[c] = Append(cmdq[c], m)
             /\ c \in Unsent /\ c \notin Unsent'
    <3>1. Calm(hpc[c], cmdq[c]) /\ ~Reached(c)
      BY <1>7, <2>2 DEF Tracked
    <3>2. OneOpen(hpc'[c], cmdq'[c])
      BY <1>0, <1>2, <2>2, <3>1, AppendOpen, Typed
    <3> QED BY <1>1, <1>2, <1>5, <1>7, <2>2, <3>1, <3>2 DEF Tracked
  <2> QED BY <1>4, <2>1, <2>2
<1> QED BY <1>2, <1>6, <1>7 DEF ReplicaInv

\* Where the user's thread looks at a replica, or waits for it again, or for no one.
LEMMA LooksTracked ==
  ASSUME TypeOK, UITypeOK, NEW c \in Clients, ReplicaInv(c), UNCHANGED <<vars, status, goal>>,
         c \in Here' => c \in Here \/ (status[c] = goal /\ rcpc = "idle")
  PROVE  ReplicaInv(c)'
<1>0. /\ UNCHANGED <<view, conn, statq, cmdq, st, hpc, batch, rcpc, todo>>
      /\ status' = status /\ goal' = goal /\ goal \in Goals
  BY GoalTyped DEF vars, rcVars, netVars, hvars
<1>1. Unsent' = Unsent
  BY <1>0 DEF Unsent
<1>2. Fresh(c) => Fresh(c)'
  <2>1. status[c] = "none" => status[c] # goal
    BY <1>0 DEF Goals
  <2> QED BY <1>0, <2>1 DEF Fresh
<1>3. Reached(c)' = Reached(c)
  BY <1>0 DEF Reached
<1>4. ASSUME Tracked(c)
      PROVE  Tracked(c)'
  <2>1. status[c] = goal => Reached(c)
    BY DEF Reached
  <2>2. c \in Here' => /\ status[c] \in Now(goal)
                       /\ Arrived(view[c], statq[c], st[c], goal)
                       /\ Calm(hpc[c], cmdq[c])
    BY <1>4, <2>1 DEF Tracked, Now
  <2> QED BY <1>0, <1>1, <1>3, <1>4, <2>2 DEF Tracked
<1> QED BY <1>0, <1>2, <1>4 DEF ReplicaInv

\* When the next state is waited for, all replicas are still where they were.
LEMMA NextGoalTracked ==
  ASSUME TypeOK, UITypeOK, NEW c \in Clients, ReplicaInv(c), c \in Here,
         UNCHANGED <<view, conn, statq, hvars, status>>,
         goal' \in Goals, goal' # goal, c \notin Here',
         \/ cmdq'[c] = cmdq[c]
         \/ c \notin Unsent' /\ \E m \in Command : cmdq'[c] = Append(cmdq[c], m)
  PROVE  ReplicaInv(c)'
<1>1. conn[c] = "gone" \/ (conn[c] = "up" /\ Tracked(c))
  BY DEF ReplicaInv, Fresh
<1>2. ASSUME conn[c] = "up", Tracked(c)
      PROVE  Tracked(c)'
  <2>1. /\ status[c] \in Now(goal) /\ Arrived(view[c], statq[c], st[c], goal)
        /\ Calm(hpc[c], cmdq[c])
    BY <1>2 DEF Tracked
  <2>2. goal' \notin Now(goal)
    BY DEF Goals, Now
  <2>3. ~Reached(c)' /\ view'[c] # goal' /\ \A i \in DOMAIN statq'[c] : statq'[c][i] # goal'
    BY <2>1, <2>2 DEF Reached, Arrived, Stays, hvars
  <2>4. Arriving(view'[c], statq'[c], st'[c], goal') /\ status'[c] # goal'
    BY <2>1, <2>2, <2>3 DEF Arriving
  <2>5. hpc' = hpc /\ cmdq[c] \in Seq(Command)
    BY Typed DEF hvars
  <2>6. CASE cmdq'[c] = cmdq[c]
    BY <2>1, <2>3, <2>4, <2>5, <2>6 DEF Tracked, Calm, OneOpen
  <2>7. ASSUME NEW m \in Command, cmdq'[c] = Append(cmdq[c], m), c \notin Unsent'
        PROVE  Tracked(c)'
    <3>1. OneOpen(hpc'[c], cmdq'[c])
      BY <2>1, <2>5, <2>7, AppendOpen
    <3> QED BY <2>3, <2>4, <2>7, <3>1 DEF Tracked
  <2> QED BY <2>6, <2>7
<1> QED BY <1>1, <1>2 DEF ReplicaInv

LEMMA UserLogicInv ==
  ASSUME UITypeOK, UserInv, UserLogic
  PROVE  UserInv'
<1> USE DEF UserInv, Over, WaitFor, Returned, flagVars
<1>1. CASE ScanEnds \/ Check \/ \E r \in Replicas : Scan(r)
  BY <1>1 DEF ScanEnds, Check, Scan, vars, rcVars
<1>2. CASE CallInitialise \/ CallConfigure \/ CallStartRun \/ CallStopRun
  BY <1>2 DEF CallInitialise, CallConfigure, CallStartRun, CallStopRun
<1>3. CASE CallTerminate \/ Fail
  BY <1>3 DEF CallTerminate, Fail
<1>4. CASE RunBegins \/ RunChecks \/ RunEnds \/ ShownStopped \/ TerminateReturns
  BY <1>4 DEF RunBegins, RunChecks, RunEnds, ShownStopped, TerminateReturns, vars, rcVars, UITypeOK
<1> QED BY <1>1, <1>2, <1>3, <1>4 DEF UserLogic

\* When a call is made that leads to the next state, all replicas were found.
LEMMA CallMadeTracked ==
  ASSUME TypeOK, UITypeOK, UserInv, NEW c \in Replicas, ReplicaInv(c),
         CallInitialise \/ CallConfigure \/ CallStartRun \/ CallStopRun
  PROVE  ReplicaInv(c)'
<1>0. /\ c \in Clients /\ user \in {"call", "configure", "stop"} /\ c \in Here
      /\ user' = "scan" /\ left' = Replicas /\ c \notin Here' /\ status' = status
      /\ rcpc = "idle"
  BY ITS3RunControlAssumption DEF CallInitialise, CallConfigure, CallStartRun, CallStopRun, WaitFor,
     Here, cbVars, UserInv, Over
<1>1. goal' \in Goals /\ goal' # goal
  BY DEF CallInitialise, CallConfigure, CallStartRun, CallStopRun, WaitFor, Goals, UserInv
<1>2. ASSUME NEW S, NEW m \in Command, SendCommand(S, m),
             rcpc' = "idle" \/ (c \in S => c \notin Unsent')
      PROVE  \/ cmdq'[c] = cmdq[c]
             \/ c \notin Unsent' /\ \E n \in Command : cmdq'[c] = Append(cmdq[c], n)
  BY <1>0, <1>2, Sent DEF Unsent
<1>3. CASE Initialise /\ CallInitialise
  <2>1. UNCHANGED <<view, conn, statq, hvars, cmdq>>
    BY <1>3 DEF Initialise, netVars
  <2> QED BY <1>0, <1>1, <2>1, NextGoalTracked
<1>4. CASE UNCHANGED vars /\ CallInitialise
  <2>1. UNCHANGED <<view, conn, statq, hvars, cmdq>>
    BY <1>4 DEF vars, netVars
  <2> QED BY <1>0, <1>1, <2>1, NextGoalTracked
<1>5. CASE CallConfigure
  <2>1. UNCHANGED <<view, conn, statq, hvars, cmdq>>
    BY <1>5 DEF CallConfigure, ConfigureWith, netVars
  <2> QED BY <1>0, <1>1, <2>1, NextGoalTracked
<1>6. CASE CallStartRun
  <2>1. UNCHANGED <<view, conn, statq, hvars, cmdq>>
    BY <1>6 DEF CallStartRun, StartRun, netVars
  <2> QED BY <1>0, <1>1, <2>1, NextGoalTracked
<1>7. CASE CallStopRun
  <2>1. UNCHANGED <<view, conn, statq, hvars>> /\ rcpc' = "stopFirst" /\ batch' = Seen({"RUNNING"})
        /\ todo' = Seen({"RUNNING"}) \cap {FirstStop}
    BY <1>7 DEF CallStopRun, StopRun
  <2>2. SendCommand(Seen({"RUNNING"}) \cap {FirstStop}, Cmd("STOP")) /\ Cmd("STOP") \in Command
    BY <1>7, CmdType DEF CallStopRun, StopRun
  <2>3. c \in Seen({"RUNNING"}) \cap {FirstStop} => c \notin Unsent'
    BY <2>1 DEF Unsent
  <2> QED BY <1>0, <1>1, <1>2, <2>1, <2>2, <2>3, NextGoalTracked
<1> QED BY <1>3, <1>4, <1>5, <1>6, <1>7 DEF CallInitialise

LEMMA UserLogicTracked ==
  ASSUME TypeOK, UITypeOK, UserInv, NEW c \in Replicas, ReplicaInv(c), UserLogic, ~Over'
  PROVE  ReplicaInv(c)'
<1>0. c \in Clients
  BY ITS3RunControlAssumption
<1>1. CASE \E r \in Replicas : Scan(r)
  <2>1. PICK r \in Replicas : Scan(r)
    BY <1>1
  <2>2. UNCHANGED <<vars, status, goal>>
    BY <2>1 DEF Scan, cbVars
  <2>3. c \in Here' => c \in Here \/ (status[c] = goal /\ rcpc = "idle")
    BY <2>1 DEF Scan, Returned, Here, flagVars
  <2> QED BY <1>0, <2>2, <2>3, LooksTracked
<1>2. CASE ScanEnds \/ Check
  <2>1. UNCHANGED <<vars, status, goal>>
    BY <1>2 DEF ScanEnds, Check, cbVars, WaitFor
  <2>2. c \in Here' => c \in Here
    BY <1>2 DEF ScanEnds, Check, Here, flagVars, WaitFor, UserInv
  <2> QED BY <1>0, <2>1, <2>2, LooksTracked
<1>3. CASE RunBegins \/ RunChecks \/ RunEnds \/ ShownStopped
  <2>1. UNCHANGED <<vars, status, goal>>
    BY <1>3 DEF RunBegins, RunChecks, RunEnds, ShownStopped, cbVars
  <2>2. c \in Here' => c \in Here
    BY <1>3 DEF RunBegins, RunChecks, RunEnds, ShownStopped, Here
  <2> QED BY <1>0, <2>1, <2>2, LooksTracked
<1>4. CASE CallInitialise \/ CallConfigure \/ CallStartRun \/ CallStopRun
  BY <1>4, CallMadeTracked
<1>5. CASE CallTerminate \/ TerminateReturns \/ Fail
  BY <1>5 DEF CallTerminate, TerminateReturns, Fail, Over
<1> QED BY <1>1, <1>2, <1>3, <1>4, <1>5 DEF UserLogic

-----------------------------------------------------------------------------
(* The invariant.                                                          *)

LEMMA InitSettled == UIInit => SettledInv
<1> SUFFICES ASSUME UIInit PROVE SettledInv
  OBVIOUS
<1>1. UserInv
  BY DEF UIInit, Init, UserInv, Over
<1>2. ASSUME NEW c \in Replicas
      PROVE  conn[c] = "absent" /\ Fresh(c)
  BY ITS3RunControlAssumption DEF UIInit, Init, Fresh, Here
<1> QED BY <1>1, <1>2 DEF SettledInv, ReplicaInv

\* A step of the user's thread apart, what has to be kept is that of the replicas.
LEMMA SameUser ==
  ASSUME UserInv, UNCHANGED uiVars, rcpc' = rcpc \/ rcpc # "idle"
  PROVE  UserInv' /\ Over' = Over
BY DEF UserInv, Over, uiVars, userVars, flagVars

LEMMA InsideCallSettled ==
  ASSUME Inductive, UITypeOK, SettledInv, InsideCall
  PROVE  SettledInv'
<1>0. CallStep /\ UNCHANGED uiVars /\ TypeInv /\ PhaseInv
  BY DEF InsideCall, CallStep, Inductive
<1>1. rcpc # "idle"
  BY <1>0, CallSends DEF Sending
<1>2. UserInv' /\ Over' = Over
  BY <1>0, <1>1, SameUser DEF SettledInv
<1>3. ASSUME ~Over, NEW c \in Replicas
      PROVE  ReplicaInv(c)'
  <2>1. c \notin Here
    BY <1>1, <1>3 DEF SettledInv, UserInv, Here
  <2> QED BY <1>0, <1>3, <2>1, CallStepTracked, ITS3RunControlAssumption DEF SettledInv
<1> QED BY <1>2, <1>3 DEF SettledInv

LEMMA ClientSettled ==
  ASSUME TypeOK, TypeOK', UITypeOK, SettledInv, NEW d \in Clients, ClientStep(d), UNCHANGED uiVars
  PROVE  SettledInv'
<1>1. SameControl
  BY OwnMoves
<1>2. UserInv' /\ Over' = Over
  BY <1>1, SameUser DEF SettledInv, SameControl, rcVars
<1>3. ASSUME ~Over, NEW c \in Replicas
      PROVE  ReplicaInv(c)'
  <2>1. c \in Clients /\ ReplicaInv(c)
    BY <1>3, ITS3RunControlAssumption DEF SettledInv
  <2>2. CASE c = d
    BY <2>1, <2>2, OwnTracked
  <2>3. CASE c # d
    BY <1>1, <2>1, <2>3, OthersApart, ApartTracked
  <2> QED BY <2>2, <2>3
<1> QED BY <1>2, <1>3 DEF SettledInv

LEMMA CommandThreadSettled ==
  ASSUME TypeOK, UITypeOK, SettledInv,
         Callback \/ \E d \in Clients : AcceptConnection(d) \/ Receive(d)
  PROVE  SettledInv'
<1>0. UNCHANGED <<userVars, flagVars, rcVars>>
  BY DEF Callback, CallbackLocks, CallbackDraws, AcceptConnection, Receive, Connect, ReceiveStatus,
         vars
<1>1. UserInv' /\ Over' = Over
  BY <1>0 DEF SettledInv, UserInv, Over, userVars, flagVars, rcVars
<1>2. Unsent' = Unsent /\ Here' = Here /\ goal' = goal /\ batch' = batch
  BY <1>0 DEF Unsent, Here, rcVars, userVars, flagVars
<1>3. ASSUME ~Over, NEW c \in Replicas
      PROVE  ReplicaInv(c)'
  <2>1. c \in Clients /\ ReplicaInv(c)
    BY <1>3, ITS3RunControlAssumption DEF SettledInv
  <2>2. CASE CallbackLocks
    BY <2>1, <2>2, CallbackTracked
  <2>3. CASE CallbackDraws
    <3>1. UNCHANGED <<vars, status, goal>>
      BY <2>3 DEF CallbackDraws, userVars
    <3> QED BY <1>2, <2>1, <3>1, LooksTracked
  <2>4. ASSUME NEW d \in Clients, AcceptConnection(d) \/ Receive(d)
        PROVE  ReplicaInv(c)'
    <3>1. CASE d = c
      BY <2>1, <2>4, <3>1, ConnectTracked, ReceiveTracked
    <3>2. CASE d # c
      <4>1. Apart(c) /\ status' = status
        BY <2>1, <2>4, <3>2
           DEF AcceptConnection, Receive, Connect, ReceiveStatus, Apart, TypeOK, netVars, hvars
      <4>2. Fresh(c) => Fresh(c)'
        BY <1>2, <4>1 DEF Fresh, Apart
      <4>3. Reached(c)' = Reached(c)
        BY <1>2, <4>1 DEF Reached, Apart
      <4>4. Tracked(c) => Tracked(c)'
        BY <1>2, <4>1, <4>3 DEF Tracked, Apart
      <4> QED BY <2>1, <4>1, <4>2, <4>4 DEF ReplicaInv, Apart
    <3> QED BY <3>1, <3>2
  <2> QED BY <2>2, <2>3, <2>4 DEF Callback
<1> QED BY <1>1, <1>3 DEF SettledInv

LEMMA KeySettled ==
  ASSUME TypeOK, UITypeOK, SettledInv,
         EnoughEvents \/ HandleKey \/ Quit \/ \E k \in Keys : PressKey(k)
  PROVE  SettledInv'
<1>0. UNCHANGED <<vars, status, goal, user, left>> /\ (running' => running)
  BY DEF EnoughEvents, HandleKey, Quit, PressKey, userVars, flagVars, cbVars
<1>1. UserInv' /\ Over' = Over
  BY <1>0 DEF SettledInv, UserInv, Over, vars, rcVars
<1>2. Here' \subseteq Here
  BY <1>0 DEF Here
<1> QED BY <1>0, <1>1, <1>2, LooksTracked, ITS3RunControlAssumption DEF SettledInv

LEMMA StepSettled ==
  ASSUME Inductive, Inductive', UITypeOK, SettledInv, [UINext]_allVars
  PROVE  SettledInv'
<1>0. TypeOK /\ TypeOK' /\ Replicas \subseteq Clients
  BY ITS3RunControlAssumption DEF Inductive, TypeInv
<1>1. CASE UserLogic
  <2>1. UserInv'
    BY <1>1, UserLogicInv DEF SettledInv
  <2>2. Over => Over'
    BY <1>1 DEF Over, UserLogic, ScanEnds, Check, Scan, CallInitialise, CallConfigure, CallStartRun,
       CallStopRun, CallTerminate, RunBegins, RunChecks, RunEnds, ShownStopped, TerminateReturns,
       Fail
  <2> QED BY <1>0, <1>1, <2>1, <2>2, UserLogicTracked DEF SettledInv
<1>2. CASE InsideCall
  BY <1>2, InsideCallSettled
<1>3. CASE Callback \/ \E d \in Clients : AcceptConnection(d) \/ Receive(d)
  BY <1>0, <1>3, CommandThreadSettled
<1>4. CASE EnoughEvents \/ HandleKey \/ Quit \/ \E k \in Keys : PressKey(k)
  BY <1>0, <1>4, KeySettled
<1>5. CASE PollStatus /\ UNCHANGED uiVars
  <2>1. UserInv' /\ Over' = Over
    BY <1>5, SameUser DEF SettledInv, PollStatus, rcVars
  <2> QED BY <1>0, <1>5, <2>1, PollTracked DEF SettledInv
<1>6. ASSUME NEW d \in Clients, ClientStep(d), UNCHANGED uiVars
      PROVE  SettledInv'
  BY <1>0, <1>6, ClientSettled
<1>7. CASE UNCHANGED allVars
  <2>1. UNCHANGED <<vars, status, goal>> /\ UNCHANGED uiVars
    BY <1>7 DEF allVars, uiVars, userVars, cbVars
  <2>2. Here' = Here /\ UserInv' /\ Over' = Over
    BY <2>1, SameUser DEF SettledInv, Here, uiVars, userVars, flagVars, vars, rcVars
  <2> QED BY <1>0, <2>1, <2>2, LooksTracked DEF SettledInv
<1> QED BY <1>1, <1>2, <1>3, <1>4, <1>5, <1>6, <1>7 DEF UINext, Elsewhere, ClientStep

LEMMA SettledInvariant == UISpec => []SettledInv
<1>1. ASSUME Inductive, Inductive', UITypeOK, SettledInv, [UINext]_allVars
      PROVE  SettledInv'
  BY <1>1, StepSettled
<1>2. UISpec => []Inductive
  BY RunControlBelow, InductiveInvariant, PTL
<1> QED BY InitSettled, <1>1, <1>2, UITyping, PTL DEF UISpec

\* wait_replicas may be believed: when it has returned, every replica that has not left is
\* where it was waited for, or in ERROR, and will be told nothing but polls, for any
\* number of replicas and whatever else is connected (ITS3RunControl.py:310-330).
THEOREM WaitingSettles == UISpec => []Settled
<1>1. SettledInv => Settled
  <2> SUFFICES ASSUME SettledInv, user \in {"call", "run", "stop", "configure", "terminate"},
                      NEW r \in Replicas, conn[r] # "gone"
               PROVE  /\ st[r] \in {goal, "ERROR"}
                      /\ hpc[r] \in {"idle", "dead"}
                      /\ \A i \in DOMAIN cmdq[r] : cmdq[r][i].op = "STATUS"
    BY DEF Settled
  <2>1. r \in Here /\ ReplicaInv(r)
    BY DEF Here, SettledInv, Over
  <2>2. Tracked(r)
    BY <2>1 DEF ReplicaInv, Fresh
  <2> QED BY <2>1, <2>2 DEF Tracked, Arrived, Stays, Now, Calm, OnlyStatus
<1> QED BY <1>1, SettledInvariant, PTL

-----------------------------------------------------------------------------
(* The order of stopping.                                                  *)

LEMMA ArrivedFalls ==
  ASSUME NEW v, NEW q \in Seq(Msgs), NEW s, Arrived(v, q, s, "RUNNING")
  PROVE  Falls(v, q, s)
<1>1. v # "RUNNING" => v = "ERROR"
  BY DEF Arrived, Now
<1>2. v # "RUNNING" => Quiet(v, q, s)
  BY <1>1 DEF Arrived, Quiet, R
<1>3. \A i \in DOMAIN q :
        q[i] # "RUNNING" => s # "RUNNING" /\ \A j \in DOMAIN q : j > i => q[j] # "RUNNING"
  BY DEF Arrived, Stays, Now
<1> QED BY <1>2, <1>3 DEF Falls, R

\* What StopInv says of one producer.
Stopping(p) ==
  \/ conn[p] = "gone"
  \/ /\ conn[p] = "up"
     /\ NoStart(cmdq[p]) /\ hpc[p] # "starting"
     /\ FallsOf(p)
     /\ p \notin Unseen => view[p] # "RUNNING"

\* StopRun is called when every producer is known to be running, or to have failed.
LEMMA StopBegins ==
  ASSUME TypeOK, UITypeOK, SettledInv, NEW p \in Clients, p \in Replicas, StopRun,
         user = "stop" \/ (user = "error" /\ running)
  PROVE  Stopping(p)'
<1>1. goal = "RUNNING" /\ p \in Here /\ ReplicaInv(p)
  BY DEF SettledInv, UserInv, Over, Here
<1>2. /\ UNCHANGED <<view, conn, statq, hvars>> /\ rcpc' = "stopFirst"
      /\ batch' = Seen({"RUNNING"}) /\ todo' = Seen({"RUNNING"}) \cap {FirstStop}
      /\ SendCommand(Seen({"RUNNING"}) \cap {FirstStop}, Cmd("STOP"))
  BY DEF StopRun
<1>3. CASE conn[p] = "gone"
  BY <1>2, <1>3 DEF Stopping
<1>4. CASE conn[p] = "up" /\ Tracked(p)
  <2>1. Arrived(view[p], statq[p], st[p], "RUNNING") /\ Calm(hpc[p], cmdq[p])
    BY <1>1, <1>4 DEF Tracked
  <2>2. FallsOf(p)' /\ hpc'[p] # "starting" /\ conn'[p] = "up" /\ view'[p] = view[p]
    BY <1>2, <1>4, <2>1, ArrivedFalls, Typed DEF FallsOf, hvars, Calm
  <2>3. NoStart(cmdq'[p])
    <3>1. cmdq[p] \in Seq(Command) /\ Cmd("STOP") \in Command /\ Cmd("STOP").op # "START"
      BY Typed, CmdType DEF Cmd
    <3>2. NoStart(cmdq[p])
      BY <2>1 DEF Calm, OnlyStatus, NoStart
    <3>3. cmdq'[p] = cmdq[p] \/ cmdq'[p] = Append(cmdq[p], Cmd("STOP"))
      BY <1>2, Sent
    <3> QED BY <3>1, <3>2, <3>3, AppendCommand
  <2>4. view[p] = "RUNNING" => p \in Unseen'
    BY <1>2 DEF Unseen, Seen
  <2> QED BY <2>2, <2>3, <2>4 DEF Stopping
<1> QED BY <1>1, <1>3, <1>4 DEF ReplicaInv, Fresh

\* Inside the call, whoever is not waited for any more has been seen to stop.
LEMMA StopGoesOn ==
  ASSUME TypeInv, PhaseInv, NEW p \in Producers, Stopping(p), StopPhase, CallStep, StopPhase'
  PROVE  Stopping(p)'
<1>0. /\ TypeOK /\ p \in Clients /\ p \notin Servers
      /\ UNCHANGED <<view, conn, statq, st, hpc>>
      /\ Cmd("STOP") \in Command /\ Cmd("STOP").op # "START"
  BY CallSends, CmdType, ClientsAssumption DEF TypeInv, Clients, Sending, hvars, Cmd
<1>1. CASE \E c \in Clients : SeeStopped(c)
  <2>1. PICK c \in Clients : SeeStopped(c)
    BY <1>1
  <2>2. cmdq' = cmdq /\ view[c] # "RUNNING" /\ Unseen \subseteq Unseen' \cup {c}
    BY <2>1 DEF SeeStopped, netVars, Unseen
  <2> QED BY <1>0, <2>2 DEF Stopping, FallsOf
<1>2. CASE StopProducers
  <2>1. SendCommand((batch \cap Producers) \ {FirstStop}, Cmd("STOP"))
    BY <1>2 DEF StopProducers
  <2>2. p \in Unseen => p \in Unseen'
    BY <1>2 DEF StopProducers, Unseen, TypeInv, TypeOK
  <2>3. cmdq'[p] = cmdq[p] \/ cmdq'[p] = Append(cmdq[p], Cmd("STOP"))
    BY <1>0, <2>1, Sent
  <2>4. NoStart(cmdq[p]) => NoStart(cmdq'[p])
    BY <1>0, <2>3, AppendCommand, Typed
  <2> QED BY <1>0, <2>2, <2>4 DEF Stopping, FallsOf
<1>3. CASE StopCollectors
  <2>1. SendCommand(batch \cap Collectors, Cmd("STOP")) /\ Unseen = {}
    BY <1>3 DEF StopCollectors, Unseen
  <2>2. cmdq'[p] = cmdq[p]
    BY <1>0, <2>1, Sent DEF Servers
  <2> QED BY <1>0, <2>1, <2>2 DEF Stopping, FallsOf
<1>4. ~(\/ OthersStarted \/ CollectorsStarted \/ StartLastProducer \/ StopOthers \/ SeeRunning
        \/ InitialiseEnds \/ SendConfig
        \/ \E c \in Clients : \/ StartServer(c) \/ SeeLeftConf(c) \/ NullStatus(c)
                             \/ InitialiseSingleConnection(c) \/ SeeAddress(c))
  BY DEF InitialiseSingleConnection, InitialiseEnds, SeeAddress, SendConfig, OthersStarted, CollectorsStarted, StartLastProducer, StopOthers, SeeRunning, StartServer,
         SeeLeftConf, NullStatus, StopPhase, PhaseInv
<1> QED BY <1>1, <1>2, <1>3, <1>4 DEF CallStep

LEMMA StopMoves ==
  ASSUME TypeOK, NEW p \in Clients, Stopping(p), ClientStep(p)
  PROVE  Stopping(p)'
<1>1. SameControl /\ Unseen' = Unseen /\ view' = view
  BY OwnMoves DEF SameControl, rcVars, Unseen
<1>2. CASE conn'[p] = "gone"
  BY <1>2 DEF Stopping
<1>3. CASE conn[p] = "up" /\ conn'[p] = conn[p] /\ Moves(p)
  <2>1. cmdq[p] \in Seq(Command) /\ NoStart(cmdq[p]) /\ hpc[p] # "starting" /\ FallsOf(p)
    BY <1>3, Typed DEF Stopping
  <2>2. NoStart(cmdq'[p]) /\ hpc'[p] # "starting" /\ Told(p)
    BY <1>3, <2>1, TailCommand DEF Moves, Polls, Obeys, Finishes, Falters, Loops, Takes, Told
  <2>3. FallsOf(p)'
    BY <1>1, <2>1, <2>2, ToldKeeps
  <2> QED BY <1>1, <1>3, <2>2, <2>3 DEF Stopping
<1> QED BY <1>2, <1>3, OwnMoves DEF Stopping

LEMMA StopReceives ==
  ASSUME TypeOK, NEW p \in Clients, Stopping(p), ReceiveStatus(p)
  PROVE  Stopping(p)'
<1>1. /\ Unseen' = Unseen /\ UNCHANGED <<conn, cmdq, st, hpc>>
      /\ statq[p] # <<>> /\ statq'[p] = Tail(statq[p]) /\ view'[p] = Seeing(Head(statq[p]))
      /\ statq[p] \in Seq(Msgs)
  BY Typed DEF ReceiveStatus, rcVars, hvars, Unseen, Seeing, TypeOK
<1>2. FallsOf(p) => FallsOf(p)'
  BY <1>1, FallsReceive DEF FallsOf
<1>3. FallsOf(p) /\ view[p] # "RUNNING" => view'[p] # "RUNNING"
  BY <1>1, FallsQuiet, QuietReceive DEF FallsOf, Quiet, R
<1> QED BY <1>1, <1>2, <1>3 DEF Stopping

LEMMA StopPolled ==
  ASSUME TypeOK, NEW p \in Clients, Stopping(p), PollStatus
  PROVE  Stopping(p)'
<1>1. /\ Unseen' = Unseen /\ UNCHANGED <<view, conn, statq, st, hpc>>
      /\ cmdq[p] \in Seq(Command) /\ Cmd("STATUS") \in Command /\ Cmd("STATUS").op # "START"
  BY Typed, CmdType DEF PollStatus, rcVars, hvars, Unseen, Cmd
<1>2. cmdq'[p] = cmdq[p] \/ cmdq'[p] = Append(cmdq[p], Cmd("STATUS"))
  BY Sent DEF PollStatus
<1>3. NoStart(cmdq[p]) => NoStart(cmdq'[p])
  BY <1>1, <1>2, AppendCommand
<1> QED BY <1>1, <1>3 DEF Stopping, FallsOf

\* What is not about a producer leaves it where it is.
LEMMA StopApart ==
  ASSUME NEW p \in Clients, Stopping(p), Apart(p), Unseen' = Unseen
  PROVE  Stopping(p)'
BY DEF Stopping, Apart, FallsOf

LEMMA StepStops ==
  ASSUME Producers \subseteq Replicas, Inductive, UITypeOK, SettledInv, StopInv, [UINext]_allVars
  PROVE  StopInv'
<1> SUFFICES ASSUME StopPhase', NEW p \in Producers PROVE Stopping(p)'
  BY DEF StopInv, Stopping
<1>0. TypeOK /\ TypeInv /\ PhaseInv /\ p \in Clients /\ p \in Replicas
  BY DEF Inductive, TypeInv, Clients
<1>1. StopPhase => Stopping(p)
  BY DEF StopInv, Stopping
<1>2. CASE UNCHANGED vars
  <2>1. StopPhase /\ Apart(p) /\ Unseen' = Unseen
    BY <1>2 DEF vars, rcVars, netVars, hvars, StopPhase, Apart, Unseen
  <2> QED BY <1>0, <1>1, <2>1, StopApart
<1>3. CASE UserLogic
  <2>1. CASE StopRun /\ (user = "stop" \/ (user = "error" /\ running))
    BY <1>0, <2>1, StopBegins
  <2>2. CASE Initialise \/ ConfigureWith({}) \/ Terminate \/ StartRun
    BY <2>2 DEF Initialise, ConfigureWith, Terminate, StartRun, Call, StopPhase
  <2>3. \/ StopRun /\ (user = "stop" \/ (user = "error" /\ running))
        \/ Initialise \/ ConfigureWith({}) \/ Terminate \/ StartRun
        \/ UNCHANGED vars
    BY <1>3 DEF UserLogic, ScanEnds, Check, Scan, CallInitialise, CallConfigure, CallStartRun,
       CallStopRun, CallTerminate, RunBegins, RunChecks, RunEnds, ShownStopped, TerminateReturns,
       Fail
  <2> QED BY <1>2, <2>1, <2>2, <2>3
<1>4. CASE InsideCall
  <2>1. CallStep
    BY <1>4, InsideCallStep
  <2>2. StopPhase
    BY <2>1, <1>0 DEF CallStep, SeeRunning, OthersStarted, CollectorsStarted, StartLastProducer,
       StopProducers, StopCollectors, StopOthers, StartServer, SeeLeftConf, SeeStopped, NullStatus,
       InitialiseSingleConnection, InitialiseEnds, SeeAddress, SendConfig, StopPhase
  <2> QED BY <1>0, <1>1, <2>1, <2>2, StopGoesOn
<1>5. ASSUME NEW d \in Clients, Connect(d) \/ ReceiveStatus(d)
      PROVE  Stopping(p)'
  <2>1. StopPhase /\ Unseen' = Unseen /\ Stopping(p)
    BY <1>1, <1>5 DEF Connect, ReceiveStatus, rcVars, StopPhase, Unseen
  <2>2. CASE d = p /\ ReceiveStatus(p)
    BY <1>0, <2>1, <2>2, StopReceives
  <2>3. CASE d = p /\ Connect(p)
    BY <2>1, <2>3 DEF Connect, Stopping
  <2>4. CASE d # p
    <3>1. Apart(p)
      BY <1>0, <1>5, <2>4 DEF Connect, ReceiveStatus, Apart, TypeOK, netVars, hvars
    <3> QED BY <1>0, <2>1, <3>1, StopApart
  <2>5. CASE d = p
    BY <1>5, <2>2, <2>3, <2>5
  <2> QED BY <2>4, <2>5
<1>6. CASE PollStatus
  <2>1. StopPhase
    BY <1>6 DEF PollStatus, rcVars, StopPhase
  <2> QED BY <1>0, <1>1, <1>6, <2>1, StopPolled
<1>7. ASSUME NEW d \in Clients, ClientStep(d)
      PROVE  Stopping(p)'
  <2>1. SameControl
    BY <1>0, <1>7, OwnMoves
  <2>2. StopPhase /\ Unseen' = Unseen /\ Stopping(p)
    BY <1>1, <2>1 DEF SameControl, rcVars, StopPhase, Unseen
  <2>3. CASE d = p
    BY <1>0, <1>7, <2>2, <2>3, StopMoves
  <2>4. CASE d # p
    BY <1>0, <1>7, <2>2, <2>4, OthersApart, StopApart
  <2> QED BY <2>3, <2>4
<1>8. CASE Callback \/ \E d \in Clients : AcceptConnection(d) \/ Receive(d)
  BY <1>2, <1>5, <1>8, CommandThreadStep
<1>9. CASE EnoughEvents \/ HandleKey \/ Quit \/ \E k \in Keys : PressKey(k)
  BY <1>2, <1>9, KeyStep
<1> QED BY <1>2, <1>3, <1>4, <1>6, <1>7, <1>8, <1>9 DEF UINext, Elsewhere, ClientStep, allVars

\* If all producers are replicas, RunControl's manual is right about the ITS3 run control:
\* it stops a run only when all of them are known to run, and so no collector is told to
\* stop before the last producer has, whatever fails (RunControl.cc:291-334).
THEOREM ProducersStopFirst ==
  ASSUME Producers \subseteq Replicas
  PROVE  UISpec => []DocStopOrder
<1>1. UIInit => StopInv
  BY DEF UIInit, Init, StopInv, StopPhase
<1>2. ASSUME Inductive, UITypeOK, SettledInv, StopInv, [UINext]_allVars
      PROVE  StopInv'
  BY <1>2, StepStops
<1>3. StopInv => DocStopOrder
  <2> SUFFICES ASSUME StopInv, rcpc = "stopOthers", NEW p \in Producers, conn[p] = "up"
               PROVE  st[p] # "RUNNING" /\ ~StartPending(p)
    BY DEF DocStopOrder
  <2>1. NoStart(cmdq[p]) /\ hpc[p] # "starting" /\ FallsOf(p) /\ view[p] # "RUNNING"
    BY DEF StopInv, StopPhase, Unseen
  <2> QED BY <2>1 DEF FallsOf, Falls, Quiet, NoStart, StartPending, R
<1>4. UISpec => []Inductive
  BY RunControlBelow, InductiveInvariant, PTL
<1> QED BY <1>1, <1>2, <1>3, <1>4, UITyping, SettledInvariant, PTL DEF UISpec

-----------------------------------------------------------------------------
(* The cycle: a step of a client, as far as the stage goes.                *)

\* What may become of a replica that is up, and of its commands.
Walks(c) ==
  /\ cmdq'[c] = cmdq[c] \/ (cmdq[c] # <<>> /\ cmdq'[c] = Tail(cmdq[c]))
  /\ hpc'[c] \in {"idle", "dead", hpc[c]}
       \/ (hpc'[c] = "starting" /\ Stage = "RUNNING" /\ run'[c] = runN)
       \/ (hpc'[c] = "stopping" /\ Stage = "STOPPED")
  /\ st'[c] \in {st[c], "ERROR"} \/ (st'[c] = Stage /\ Stage # "UNINIT")
  /\ run'[c] = run[c] \/ (Stage = "RUNNING" /\ run'[c] = runN)
  /\ st'[c] = "RUNNING" => st[c] = "RUNNING" \/ (Stage = "RUNNING" /\ run'[c] = runN)

LEMMA WalkTakes ==
  ASSUME TypeOK, NEW c \in Clients, InCycle(c), NEW o, Take(c, o)
  PROVE  /\ conn[c] = "up" /\ cmdq[c] # <<>> /\ cmdq'[c] = Tail(cmdq[c])
         /\ Leads(Head(cmdq[c])) /\ Head(cmdq[c]).op = o
<1>1. conn[c] = "up" /\ cmdq[c] # <<>> /\ cmdq'[c] = Tail(cmdq[c]) /\ Head(cmdq[c]).op = o
  BY TakeOwn DEF Reachable
<1>2. Leads(cmdq[c][1])
  BY <1>1, Typed DEF InCycle
<1> QED BY <1>1, <1>2, Typed

\* A command other than a poll tells the stage.
LEMMA WalkLeads ==
  ASSUME NEW m, Leads(m)
  PROVE  /\ m.op = "INIT" => Stage = "UNCONF"
         /\ m.op = "CONFIG" => Stage = "CONF"
         /\ m.op = "START" => Stage = "RUNNING" /\ m.run = runN
         /\ m.op = "STOP" => Stage = "STOPPED"
         /\ m.op # "RESET"
BY DEF Leads

LEMMA OwnWalks ==
  ASSUME TypeOK, NEW c \in Clients, InCycle(c), ClientStep(c)
  PROVE  \/ conn[c] = "up" /\ conn'[c] = "gone"
         \/ conn[c] = "up" /\ conn'[c] = "up" /\ Walks(c)
         \/ conn[c] = "gone" /\ conn'[c] = "gone"
<1> USE DEF TypeOK
<1>0. /\ conn[c] = "absent" => ~LoopReturns(c) /\ ~LoopThrows(c)
      /\ Stage \in {"UNINIT", "UNCONF", "CONF", "RUNNING", "STOPPED"} \/ goal \notin Goals
  BY DEF InCycle, LoopReturns, LoopThrows, Stage, Goals
<1>1. CASE OnInitialise(c)
  <2>1. Stage = "UNCONF" /\ conn[c] = "up" /\ cmdq[c] # <<>> /\ cmdq'[c] = Tail(cmdq[c])
    BY <1>1, WalkTakes, WalkLeads DEF OnInitialise
  <2> QED BY <1>1, <2>1 DEF OnInitialise, Walks
<1>2. CASE OnInitialiseFails(c)
  <2>1. conn[c] = "up" /\ cmdq[c] # <<>> /\ cmdq'[c] = Tail(cmdq[c])
    BY <1>2, WalkTakes DEF OnInitialiseFails
  <2>2. \/ hpc'[c] = "idle" /\ st'[c] = "ERROR"
        \/ hpc'[c] = "dead" /\ st'[c] = st[c]
    BY <1>2, ThrowOwn DEF OnInitialiseFails
  <2> QED BY <1>2, <2>1, <2>2 DEF OnInitialiseFails, Walks
<1>3. CASE OnInitialiseCrash(c) \/ OnTerminate(c) \/ Crash(c)
  BY <1>3 DEF OnInitialiseCrash, OnTerminate, Crash, Leave, Reachable
<1>4. CASE OnConfigure(c)
  <2>1. Stage = "CONF" /\ conn[c] = "up" /\ cmdq[c] # <<>> /\ cmdq'[c] = Tail(cmdq[c])
    BY <1>4, WalkTakes, WalkLeads DEF OnConfigure
  <2>2. (Report(c, "CONF") /\ UNCHANGED hpc) \/ Throw(c, TRUE) \/ UserThrow(c)
    BY <1>4 DEF OnConfigure
  <2>3. \/ hpc'[c] = hpc[c] /\ st'[c] = "CONF"
        \/ hpc'[c] = "idle" /\ st'[c] = "ERROR"
        \/ hpc'[c] = "dead" /\ st'[c] = st[c]
    BY <2>2, ReportOrThrowOwn
  <2> QED BY <1>4, <2>1, <2>3 DEF OnConfigure, Walks
<1>5. CASE OnStartRun(c)
  <2>1. /\ conn[c] = "up" /\ cmdq[c] # <<>> /\ cmdq'[c] = Tail(cmdq[c])
        /\ Stage = "RUNNING" /\ Head(cmdq[c]).run = runN
    BY <1>5, WalkTakes, WalkLeads DEF OnStartRun
  <2>2. run'[c] = runN
    BY <1>5, <2>1 DEF OnStartRun
  <2>3. \/ hpc'[c] = "starting" /\ st'[c] = st[c]
        \/ hpc'[c] = "idle" /\ st'[c] = "ERROR"
        \/ hpc'[c] = "dead" /\ st'[c] = st[c]
    BY <1>5, ThrowOwn DEF OnStartRun
  <2> QED BY <1>5, <2>1, <2>2, <2>3 DEF OnStartRun, Walks
<1>6. CASE OnStartRunEnds(c)
  <2>1. conn[c] = "up" /\ Stage = "RUNNING" /\ run[c] = runN
    BY <1>6 DEF OnStartRunEnds, InCycle
  <2> QED BY <1>6, <2>1, ReportOwn DEF OnStartRunEnds, Idle, Walks
<1>7. CASE OnStopRun(c)
  <2>1. Stage = "STOPPED" /\ conn[c] = "up" /\ cmdq[c] # <<>> /\ cmdq'[c] = Tail(cmdq[c])
    BY <1>7, WalkTakes, WalkLeads DEF OnStopRun
  <2>2. \/ hpc'[c] = "idle" /\ st'[c] = "STOPPED"
        \/ hpc'[c] = "stopping" /\ st'[c] = st[c]
        \/ hpc'[c] = "idle" /\ st'[c] = "ERROR"
        \/ hpc'[c] = "dead" /\ st'[c] = st[c]
    BY <1>7, UnwindOwn, ThrowOwn DEF OnStopRun
  <2> QED BY <1>7, <2>1, <2>2 DEF OnStopRun, Walks
<1>8. CASE OnReset(c)
  BY <1>8, WalkTakes, WalkLeads DEF OnReset
<1>9. CASE UnwindEnds(c)
  <2>1. conn[c] = "up" /\ hpc[c] = "stopping" /\ Stage = "STOPPED"
    BY <1>9 DEF UnwindEnds, InCycle
  <2> QED BY <1>9, <2>1, ReportOwn DEF UnwindEnds, Idle, Walks
<1>10. CASE UnwindRethrows(c) \/ UnwindTimeout(c)
  <2>1. \/ hpc'[c] = "idle" /\ st'[c] = "ERROR"
        \/ hpc'[c] = "dead" /\ st'[c] = st[c]
    BY <1>10, ThrowOwn DEF UnwindRethrows, UnwindTimeout
  <2> QED BY <1>10, <2>1 DEF UnwindRethrows, UnwindTimeout, Walks
<1>11. CASE OnStatus(c)
  <2>1. conn[c] = "up" /\ cmdq[c] # <<>> /\ cmdq'[c] = Tail(cmdq[c])
    BY <1>11, WalkTakes DEF OnStatus
  <2>2. (Report(c, st[c]) /\ UNCHANGED hpc) \/ Throw(c, TRUE) \/ UserThrow(c)
    BY <1>11 DEF OnStatus
  <2>3. \/ hpc'[c] = hpc[c] /\ st'[c] = st[c]
        \/ hpc'[c] = "idle" /\ st'[c] = "ERROR"
        \/ hpc'[c] = "dead" /\ st'[c] = st[c]
    BY <2>2, ReportOrThrowOwn
  <2> QED BY <1>11, <2>1, <2>3 DEF OnStatus, Walks
<1>12. CASE LoopReturns(c) \/ LoopThrows(c)
  BY <1>0, <1>12 DEF LoopReturns, LoopThrows, netVars, Walks
<1> QED BY <1>1, <1>2, <1>3, <1>4, <1>5, <1>6, <1>7, <1>8, <1>9, <1>10, <1>11, <1>12
        DEF ClientStep, Handler

\* The RunLoop of another is no matter of a client's.
LEMMA OthersLoop ==
  ASSUME TypeOK, NEW d \in Clients, ClientStep(d), NEW c \in Clients, c # d
  PROVE  loop'[c] = loop[c]
<1> USE DEF TypeOK
<1>1. CASE OnInitialise(d) \/ OnInitialiseFails(d) \/ OnConfigure(d) \/ OnStatus(d)
  BY <1>1 DEF OnInitialise, OnInitialiseFails, OnConfigure, OnStatus
<1>2. CASE OnInitialiseCrash(d) \/ OnTerminate(d) \/ Crash(d)
  BY <1>2 DEF OnInitialiseCrash, OnTerminate, Crash, Leave
<1>3. CASE OnStartRun(d) \/ OnStartRunEnds(d)
  BY <1>3 DEF OnStartRun, OnStartRunEnds
<1>4. CASE OnStopRun(d) \/ OnReset(d)
  BY <1>4 DEF OnStopRun, OnReset, BeginUnwind
<1>5. CASE UnwindEnds(d) \/ UnwindRethrows(d) \/ UnwindTimeout(d) \/ LoopReturns(d) \/ LoopThrows(d)
  BY <1>5 DEF UnwindEnds, UnwindRethrows, UnwindTimeout, LoopReturns, LoopThrows
<1> QED BY <1>1, <1>2, <1>3, <1>4, <1>5 DEF ClientStep, Handler

\* What the cycle is to one replica.
Comes(c) ==
  \/ Place(c)' = Place(c) /\ (Place(c) = "RUNNING" => run'[c] = run[c])
  \/ Place(c)' = "ERROR" /\ Place(c) \in Cycle!Stages
  \/ Place(c)' = "gone" /\ Place(c) \in Cycle!Stages \cup {"ERROR"}
  \/ /\ Place(c)' = Stage
     /\ Cycle!Follows(Place(c), Stage) \/ (Place(c) = "ERROR" /\ Stage # "UNINIT")
     /\ Stage = "RUNNING" => run'[c] = runN

LEMMA StageTyped ==
  ASSUME UITypeOK
  PROVE  Stage \in Cycle!Stages /\ Stage \in Goals
BY GoalTyped DEF Stage, Goals, Cycle!Stages

LEMMA WalksCycle ==
  ASSUME TypeOK, UITypeOK, NEW c \in Clients, InCycle(c), conn[c] = "up", conn'[c] = "up", Walks(c),
         Stage' = Stage, runN' = runN
  PROVE  InCycle(c)' /\ Comes(c)
<1>0. cmdq[c] \in Seq(Command) /\ st[c] \in States /\ Stage \in Goals
  BY Typed, StageTyped
<1>1. (\A i \in DOMAIN cmdq[c] : Leads(cmdq[c][i]))'
  <2>1. ASSUME NEW m PROVE Leads(m)' = Leads(m)
    BY DEF Leads
  <2>2. \A i \in DOMAIN cmdq'[c] : \E j \in DOMAIN cmdq[c] : cmdq'[c][i] = cmdq[c][j]
    <3>1. CASE cmdq'[c] = cmdq[c]
      BY <3>1
    <3>2. CASE cmdq[c] # <<>> /\ cmdq'[c] = Tail(cmdq[c])
      BY <1>0, <3>2, TailOf
    <3> QED BY <3>1, <3>2 DEF Walks
  <2> QED BY <2>1, <2>2 DEF InCycle
<1>2. \/ hpc'[c] \in {"idle", "dead"}
      \/ hpc'[c] = "starting" /\ Stage' = "RUNNING" /\ run'[c] = runN'
      \/ hpc'[c] = "stopping" /\ Stage' = "STOPPED"
  BY DEF Walks, InCycle
<1>3. st'[c] \in Now(Stage') \/ Cycle!Follows(st'[c], Stage')
  BY DEF Walks, InCycle, Now, Cycle!Follows
<1>4. st'[c] = "RUNNING" => run'[c] = ThisRun'
  BY DEF Walks, InCycle, ThisRun
<1>5. InCycle(c)'
  BY <1>1, <1>2, <1>3, <1>4 DEF InCycle
<1>6. Place(c) = st[c] /\ Place(c)' = st'[c]
  BY DEF Place
<1>7. CASE st'[c] = st[c]
  BY <1>5, <1>6, <1>7 DEF Comes, Walks, InCycle, ThisRun, Place
<1>8. CASE st'[c] # st[c] /\ st'[c] = "ERROR"
  <2>1. st[c] \in Cycle!Stages
    BY <1>0, <1>8 DEF States, Cycle!Stages
  <2> QED BY <1>5, <1>6, <1>8, <2>1 DEF Comes, Place
<1>9. CASE st'[c] # st[c] /\ st'[c] = Stage /\ Stage # "UNINIT"
  <2>1. Cycle!Follows(st[c], Stage) \/ st[c] = "ERROR"
    BY <1>9 DEF InCycle, Now
  <2>2. Stage = "RUNNING" => run'[c] = runN
    BY <1>9 DEF Walks
  <2> QED BY <1>5, <1>6, <1>9, <2>1, <2>2 DEF Comes, Place
<1> QED BY <1>7, <1>8, <1>9 DEF Walks

\* A client that takes a step stays in the cycle and goes on in it.
LEMMA OwnCycle ==
  ASSUME TypeOK, UITypeOK, NEW c \in Clients, InCycle(c), ClientStep(c), UNCHANGED uiVars
  PROVE  InCycle(c)' /\ Comes(c)
<1>1. Stage' = Stage /\ runN' = runN
  BY OwnMoves DEF SameControl, rcVars, Stage, uiVars, userVars
<1>2. CASE conn[c] = "up" /\ conn'[c] = "up" /\ Walks(c)
  BY <1>1, <1>2, WalksCycle
<1>3. CASE conn[c] = "up" /\ conn'[c] = "gone"
  BY <1>3, Typed DEF InCycle, Comes, Place, States, Cycle!Stages
<1>4. CASE conn[c] = "gone" /\ conn'[c] = "gone"
  BY <1>4 DEF InCycle, Comes, Place
<1> QED BY <1>2, <1>3, <1>4, OwnWalks

\* What is not about a replica leaves it where it is.
LEMMA ApartCycle ==
  ASSUME NEW c \in Clients, InCycle(c), Stage' = Stage, runN' = runN, goal' = goal,
         UNCHANGED <<conn[c], cmdq[c], st[c], hpc[c], run[c], loop[c]>>
  PROVE  InCycle(c)'
<1>1. ASSUME NEW m PROVE Leads(m)' = Leads(m)
  BY DEF Leads
<1>2. ThisRun' = ThisRun
  BY DEF ThisRun
<1> QED BY <1>1, <1>2 DEF InCycle

\* One more command that leads to the stage.
LEMMA SendCycle ==
  ASSUME TypeOK, NEW c \in Clients, InCycle(c), Stage' = Stage, runN' = runN, goal' = goal,
         UNCHANGED <<conn, st, hpc, run, loop>>,
         NEW S, NEW m \in Command, SendCommand(S, m), Leads(m)
  PROVE  InCycle(c)'
<1>1. CASE cmdq'[c] = cmdq[c]
  BY <1>1, ApartCycle
<1>2. CASE conn[c] = "up" /\ cmdq'[c] = Append(cmdq[c], m)
  <2>1. ASSUME NEW n PROVE Leads(n)' = Leads(n)
    BY DEF Leads
  <2>2. \A i \in DOMAIN cmdq'[c] : Leads(cmdq'[c][i])
    <3>1. cmdq[c] \in Seq(Command) /\ \A i \in DOMAIN cmdq[c] : Leads(cmdq[c][i])
      BY <1>2, Typed DEF InCycle
    <3>2. \A i \in DOMAIN cmdq'[c] :
            cmdq'[c][i] = m \/ \E j \in DOMAIN cmdq[c] : cmdq'[c][i] = cmdq[c][j]
      BY <1>2, <3>1
    <3> QED BY <3>1, <3>2
  <2>3. ThisRun' = ThisRun
    BY DEF ThisRun
  <2> QED BY <1>2, <2>1, <2>2, <2>3 DEF InCycle
<1> QED BY <1>1, <1>2, Sent DEF Reachable

LEMMA CycleStill ==
  ASSUME UNCHANGED <<conn, st, run, goal, listening, runN>>, Over' = Over
  PROVE  UNCHANGED Cycle!vars
BY DEF Cycle!vars, Place, Stage

\* A step of one replica alone.
LEMMA CycleMoves ==
  ASSUME NEW d \in Replicas, Comes(d), Stage' = Stage, runN' = runN, Over' = Over,
         \A c \in Replicas \ {d} : Place(c)' = Place(c) /\ run'[c] = run[c]
  PROVE  [Cycle!Next]_Cycle!vars
<1> DEFINE where == [r \in Replicas |-> Place(r)]
           runs == [r \in Replicas |-> IF Place(r) = "RUNNING" THEN run[r] ELSE 0]
<1>1. CASE Place(d)' = Place(d) /\ (Place(d) = "RUNNING" => run'[d] = run[d])
  <2>1. where' = where /\ runs' = runs
    BY <1>1
  <2> QED BY <2>1 DEF Cycle!vars
<1>2. ASSUME NEW s, Place(d)' = s, s = "RUNNING" => run'[d] = runN
      PROVE  Cycle!Enter(d, s)
  <2>1. where' = [where EXCEPT ![d] = s]
    BY <1>2
  <2>2. runs' = [runs EXCEPT ![d] = IF s = "RUNNING" THEN runN ELSE 0]
    BY <1>2
  <2> QED BY <2>1, <2>2 DEF Cycle!Enter
<1>3. CASE Place(d)' = "ERROR" /\ Place(d) \in Cycle!Stages
  <2>1. Cycle!Fail(d)
    BY <1>2, <1>3 DEF Cycle!Fail
  <2> QED BY <2>1 DEF Cycle!Next
<1>4. CASE Place(d)' = "gone" /\ Place(d) \in Cycle!Stages \cup {"ERROR"}
  <2>1. Cycle!Leave(d)
    BY <1>2, <1>4 DEF Cycle!Leave
  <2> QED BY <2>1 DEF Cycle!Next
<1>5. CASE /\ Place(d)' = Stage
           /\ Cycle!Follows(Place(d), Stage) \/ (Place(d) = "ERROR" /\ Stage # "UNINIT")
           /\ Stage = "RUNNING" => run'[d] = runN
  <2>1. Cycle!Enter(d, Stage)
    <3>1. PICK s : s = Stage
      OBVIOUS
    <3> QED BY <1>2, <1>5, <3>1 DEF Cycle!Enter
  <2>2. Cycle!Arrive(d)
    BY <1>5, <2>1 DEF Cycle!Arrive
  <2> QED BY <2>2 DEF Cycle!Next
<1> QED BY <1>1, <1>3, <1>4, <1>5 DEF Comes

\* The next stage is called for.
LEMMA CycleAdvances ==
  ASSUME ~Over, Cycle!Follows(Stage, Stage'), Stage' \in Cycle!Stages,
         \A r \in Replicas : Place(r) \in {Stage, "ERROR", "gone"},
         UNCHANGED <<conn, st, run>>,
         runN' = IF Stage' = "STOPPED" THEN runN + 1 ELSE runN,
         Over' => Stage' = "STOPPED"
  PROVE  [Cycle!Next]_Cycle!vars
<1>1. PICK s \in Cycle!Stages : s = Stage'
  OBVIOUS
<1>2. \A r \in Replicas : [q \in Replicas |-> Place(q)][r] \in {Stage, "ERROR", "gone"}
  OBVIOUS
<1>3. Over' \in {FALSE, s = "STOPPED"}
  <2>1. CASE s = "STOPPED"
    <3>1. (s = "STOPPED") = TRUE /\ Over' \in BOOLEAN
      BY <2>1 DEF Over
    <3> QED BY <3>1
  <2>2. CASE s # "STOPPED"
    <3>1. Over' = FALSE
      BY <1>1, <2>2 DEF Over
    <3> QED BY <3>1
  <2> QED BY <2>1, <2>2
<1>4. /\ [r \in Replicas |-> Place(r)]' = [r \in Replicas |-> Place(r)]
      /\ [r \in Replicas |-> IF Place(r) = "RUNNING" THEN run[r] ELSE 0]'
           = [r \in Replicas |-> IF Place(r) = "RUNNING" THEN run[r] ELSE 0]
  BY DEF Place
<1>5. Cycle!Advance(s)
  BY <1>1, <1>2, <1>3, <1>4 DEF Cycle!Advance
<1> QED BY <1>5 DEF Cycle!Next

LEMMA CycleEnds ==
  ASSUME ~Over, Over', UNCHANGED <<conn, st, run, Stage, runN>>
  PROVE  [Cycle!Next]_Cycle!vars
<1>1. /\ [r \in Replicas |-> Place(r)]' = [r \in Replicas |-> Place(r)]
      /\ [r \in Replicas |-> IF Place(r) = "RUNNING" THEN run[r] ELSE 0]'
           = [r \in Replicas |-> IF Place(r) = "RUNNING" THEN run[r] ELSE 0]
  BY DEF Place
<1>2. Cycle!End
  BY <1>1 DEF Cycle!End, Over
<1> QED BY <1>2 DEF Cycle!Next

Startwards == rcpc \in {"startOthers", "startCollectors", "startProducers"}

\* What a call sends is what it is about.
LEMMA CallOrders ==
  ASSUME CallStep
  PROVE  /\ UNCHANGED <<conn, hvars, listening, runN>>
         /\ Startwards' => Startwards
         /\ StopPhase' => StopPhase
         /\ rcpc' \in {"initialise", "configure"} => rcpc' = rcpc
         /\ \/ cmdq' = cmdq
            \/ \E S : \/ rcpc = "initialise" /\ SendCommand(S, Cmd("INIT"))
                      \/ rcpc = "configure" /\ SendCommand(S, [Cmd("CONFIG") EXCEPT !.addr = addrs])
                      \/ Startwards /\ SendCommand(S, Start(runN))
                      \/ StopPhase /\ SendCommand(S, Cmd("STOP"))
<1> USE DEF Startwards, StopPhase
<1>1. CASE \/ SeeRunning \/ OthersStarted \/ InitialiseEnds
           \/ \E c \in Clients : SeeLeftConf(c) \/ SeeStopped(c) \/ NullStatus(c) \/ SeeAddress(c)
  BY <1>1 DEF SeeRunning, OthersStarted, InitialiseEnds, SeeLeftConf, SeeStopped, NullStatus,
              SeeAddress, netVars
<1>2. CASE CollectorsStarted \/ StartLastProducer \/ \E c \in Clients : StartServer(c)
  BY <1>2 DEF CollectorsStarted, StartLastProducer, StartServer
<1>3. CASE StopProducers \/ StopCollectors \/ StopOthers
  BY <1>3 DEF StopProducers, StopCollectors, StopOthers
<1>4. CASE SendConfig \/ \E c \in Clients : InitialiseSingleConnection(c)
  BY <1>4 DEF SendConfig, InitialiseSingleConnection
<1> QED BY <1>1, <1>2, <1>3, <1>4 DEF CallStep

\* Where the user's thread may go on, everybody is.
LEMMA EverybodyThere ==
  ASSUME SettledInv,
         user \in {"call", "run", "stop", "configure", "terminate"} \/ (user = "error" /\ running),
         NEW r \in Replicas
  PROVE  /\ conn[r] = "gone" \/ conn[r] = "up"
         /\ Place(r) \in {goal, "ERROR", "gone"}
         /\ conn[r] = "up" => Calm(hpc[r], cmdq[r])
<1>1. r \in Here /\ ReplicaInv(r)
  BY DEF Here, SettledInv, Over
<1>2. conn[r] = "gone" \/ (conn[r] = "up" /\ Tracked(r))
  BY <1>1 DEF ReplicaInv, Fresh
<1> QED BY <1>1, <1>2 DEF Tracked, Arrived, Stays, Now, Place

\* A call takes a replica from one stage to the next.
LEMMA AdvanceCycle ==
  ASSUME TypeOK, NEW c \in Clients, InCycle(c), UNCHANGED <<conn, st, hpc, run>>,
         conn[c] \in {"gone", "up"}, Place(c) \in {Stage, "ERROR", "gone"},
         conn[c] = "up" => Calm(hpc[c], cmdq[c]),
         Cycle!Follows(Stage, Stage'), runN' = IF Stage' = "STOPPED" THEN runN + 1 ELSE runN,
         \/ cmdq' = cmdq
         \/ \E S, m : m \in Command /\ SendCommand(S, m) /\ Leads(m)'
  PROVE  InCycle(c)'
<1> SUFFICES ASSUME conn[c] = "up" PROVE InCycle(c)'
  BY DEF InCycle
<1>1. cmdq[c] \in Seq(Command) /\ \A i \in DOMAIN cmdq[c] : cmdq[c][i].op = "STATUS"
  BY Typed DEF Calm, OnlyStatus
<1>2. cmdq'[c] = cmdq[c] \/ \E m : m \in Command /\ cmdq'[c] = Append(cmdq[c], m) /\ Leads(m)'
  BY Sent
<1>3. ASSUME NEW m, m.op = "STATUS" PROVE Leads(m)'
  BY <1>3 DEF Leads
<1>4. (\A i \in DOMAIN cmdq[c] : Leads(cmdq[c][i]))'
  <2>1. CASE cmdq'[c] = cmdq[c]
    BY <1>1, <1>3, <2>1
  <2>2. ASSUME NEW m, m \in Command, cmdq'[c] = Append(cmdq[c], m), Leads(m)'
        PROVE  (\A i \in DOMAIN cmdq[c] : Leads(cmdq[c][i]))'
    <3>1. \A i \in DOMAIN cmdq'[c] : cmdq'[c][i] = m \/ cmdq'[c][i].op = "STATUS"
      BY <1>1, <2>2
    <3> QED BY <1>3, <2>2, <3>1
  <2> QED BY <1>2, <2>1, <2>2
<1>5. st[c] \in {Stage, "ERROR"} /\ st[c] # "gone"
  BY Typed DEF Place, States
<1>6. st'[c] \in Now(Stage') \/ Cycle!Follows(st'[c], Stage')
  BY <1>5 DEF Now
<1>7. st'[c] = "RUNNING" => run'[c] = ThisRun'
  <2>1. ASSUME st[c] = "RUNNING"
        PROVE  run[c] = runN /\ Stage' = "STOPPED" /\ runN' = runN + 1
    BY <1>5, <2>1 DEF InCycle, ThisRun, Cycle!Follows
  <2>2. runN \in Int
    BY BoundsAssumption DEF TypeOK
  <2> QED BY <2>1, <2>2 DEF ThisRun
<1>8. hpc'[c] \in {"idle", "dead"}
  BY DEF Calm
<1> QED BY <1>4, <1>6, <1>7, <1>8 DEF InCycle

\* One of the four calls that lead to the next stage.
Called(s, o) ==
  /\ user' = "scan" \/ (user' = "failed" /\ s = "STOPPED")
  /\ Stage' = s /\ ~Over /\ rcpc = "idle"
  /\ Cycle!Follows(Stage, s) /\ s \in Cycle!Stages
  /\ user \in {"call", "stop", "configure"} \/ (user = "error" /\ running)
  /\ UNCHANGED <<conn, hvars, loop>>
  /\ runN' = IF s = "STOPPED" THEN runN + 1 ELSE runN
  /\ \/ cmdq' = cmdq
     \/ o # "START" /\ \E S, m : m \in Command /\ SendCommand(S, m) /\ m.op = o
  /\ rcpc' \in {"idle", IF s = "RUNNING" THEN "startOthers" ELSE IF s = "STOPPED" THEN "stopFirst"
                       ELSE IF s = "CONF" THEN "configure" ELSE "initialise"}
  /\ goal' # "UNINIT" /\ (goal' = "RUNNING" /\ user' # "failed" => ~listening')

LEMMA CallsAre ==
  ASSUME TypeOK, UITypeOK, UserInv, StageInv,
         CallInitialise \/ CallConfigure \/ CallStartRun \/ CallStopRun \/ (Fail /\ running)
  PROVE  \/ Called("UNCONF", "INIT") \/ Called("CONF", "CONFIG")
         \/ Called("RUNNING", "START") \/ Called("STOPPED", "STOP")
<1> USE DEF WaitFor, Cycle!Stages, Cycle!Follows, Stage, Call
<1>1. CASE CallInitialise
  <2>1. CASE Initialise
    BY <1>1, <2>1 DEF CallInitialise, Initialise, Called, netVars, hvars, Over
  <2>2. CASE UNCHANGED vars
    <3>1. rcpc = "idle"
      BY <1>1 DEF CallInitialise, UserInv, Over
    <3> QED BY <1>1, <2>2, <3>1 DEF CallInitialise, vars, rcVars, netVars, hvars, Called, Over
  <2> QED BY <1>1, <2>1, <2>2 DEF CallInitialise
<1>2. CASE CallConfigure
  <2>1. goal \in {"UNCONF", "STOPPED"}
    BY <1>2 DEF CallConfigure, UserInv
  <2> QED BY <1>2, <2>1 DEF CallConfigure, ConfigureWith, netVars, hvars, Called, Over
<1>3. CASE CallStartRun
  BY <1>3 DEF CallStartRun, StartRun, netVars, hvars, Called, Over
<1>4. CASE CallStopRun \/ (Fail /\ running)
  <2>1. StopRun /\ goal = "RUNNING" /\ ~Over
    BY <1>4 DEF CallStopRun, Fail, UserInv, Over
  <2>2. Cmd("STOP") \in Command /\ Cmd("STOP").op = "STOP"
    BY CmdType DEF Cmd
  <2>3. SendCommand(Seen({"RUNNING"}) \cap {FirstStop}, Cmd("STOP"))
    BY <2>1 DEF StopRun
  <2>4. ~listening /\ listening' /\ Stage = "RUNNING" /\ Stage' = "STOPPED"
    BY <1>4, <2>1 DEF StageInv, StopRun, CallStopRun, Fail
  <2>5. /\ user' = "scan" \/ user' = "failed"
        /\ user = "stop" \/ (user = "error" /\ running)
        /\ goal' # "UNINIT" /\ (goal' = "RUNNING" /\ user' # "failed" => ~listening')
    BY <1>4, <2>1 DEF CallStopRun, Fail
  <2> QED BY <2>1, <2>2, <2>3, <2>4, <2>5 DEF StopRun, hvars, Called
<1> QED BY <1>1, <1>2, <1>3, <1>4

\* A step that tells replicas nothing but what leads to the stage.
LEMMA SendsCycle ==
  ASSUME TypeOK, CycleInv, StageInv',
         UNCHANGED <<conn, hvars, listening, runN, goal>>, Over' = Over,
         \/ cmdq' = cmdq
         \/ \E S, m : m \in Command /\ SendCommand(S, m) /\ Leads(m)
  PROVE  CycleInv' /\ [Cycle!Next]_Cycle!vars
<1>1. Stage' = Stage /\ UNCHANGED <<st, hpc, run, loop>>
  BY DEF Stage, hvars
<1>2. ASSUME NEW c \in Replicas
      PROVE  InCycle(c)'
  <2>1. c \in Clients /\ InCycle(c)
    BY ITS3RunControlAssumption DEF CycleInv
  <2>2. CASE cmdq' = cmdq
    BY <1>1, <2>1, <2>2, ApartCycle
  <2>3. ASSUME NEW S, NEW m \in Command, SendCommand(S, m), Leads(m)
        PROVE  InCycle(c)'
    BY <1>1, <2>1, <2>3, SendCycle
  <2> QED BY <2>2, <2>3
<1>3. UNCHANGED Cycle!vars
  BY <1>1, CycleStill
<1> QED BY <1>2, <1>3 DEF CycleInv

\* A step of one client, a replica or not.
LEMMA OneCycle ==
  ASSUME CycleInv, NEW d \in Clients, d \in Replicas => InCycle(d)' /\ Comes(d),
         UNCHANGED <<rcpc, listening, runN, goal, user>>,
         \A c \in Clients \ {d} : UNCHANGED <<conn[c], cmdq[c], st[c], hpc[c], run[c], loop[c]>>
  PROVE  CycleInv' /\ [Cycle!Next]_Cycle!vars
<1>1. Stage' = Stage /\ Over' = Over /\ StageInv'
  BY DEF Stage, Over, CycleInv, StageInv
<1>2. ASSUME NEW c \in Replicas \ {d}
      PROVE  InCycle(c)' /\ Place(c)' = Place(c) /\ run'[c] = run[c]
  <2>1. c \in Clients \ {d} /\ InCycle(c)
    BY ITS3RunControlAssumption DEF CycleInv
  <2>2. Place(c)' = Place(c) /\ run'[c] = run[c]
    BY <2>1 DEF Place
  <2> QED BY <1>1, <2>1, <2>2, ApartCycle
<1>3. CASE d \in Replicas
  <2>1. [Cycle!Next]_Cycle!vars
    BY <1>1, <1>2, <1>3, CycleMoves
  <2> QED BY <1>1, <1>2, <1>3, <2>1 DEF CycleInv
<1>4. CASE d \notin Replicas
  <2>1. \A c \in Replicas : InCycle(c)' /\ Place(c)' = Place(c) /\ run'[c] = run[c]
    BY <1>2, <1>4
  <2>2. /\ [r \in Replicas |-> Place(r)]' = [r \in Replicas |-> Place(r)]
        /\ [r \in Replicas |-> IF Place(r) = "RUNNING" THEN run[r] ELSE 0]'
             = [r \in Replicas |-> IF Place(r) = "RUNNING" THEN run[r] ELSE 0]
    BY <2>1
  <2> QED BY <1>1, <2>1, <2>2 DEF CycleInv, Cycle!vars
<1> QED BY <1>3, <1>4

LEMMA CalledCycle ==
  ASSUME TypeOK, SettledInv, CycleInv, NEW s, NEW o, Called(s, o),
         <<s, o>> \in {<<"UNCONF", "INIT">>, <<"CONF", "CONFIG">>, <<"RUNNING", "START">>,
                       <<"STOPPED", "STOP">>}
  PROVE  CycleInv' /\ [Cycle!Next]_Cycle!vars
<1>1. /\ Stage' = s /\ Cycle!Follows(Stage, Stage') /\ Stage' \in Cycle!Stages
      /\ UNCHANGED <<conn, st, hpc, run>>
      /\ runN' = IF Stage' = "STOPPED" THEN runN + 1 ELSE runN
      /\ ~Over /\ (Over' => Stage' = "STOPPED")
      /\ user \in {"call", "run", "stop", "configure", "terminate"} \/ (user = "error" /\ running)
  BY DEF Called, hvars, Over
<1>2. ASSUME NEW m, m.op = o, o # "START"
      PROVE  Leads(m)'
  BY <1>1, <1>2 DEF Leads
<1>3. \/ cmdq' = cmdq
      \/ \E S, m : m \in Command /\ SendCommand(S, m) /\ Leads(m)'
  BY <1>2 DEF Called
<1>4. ASSUME NEW r \in Replicas
      PROVE  InCycle(r)' /\ Place(r) \in {Stage, "ERROR", "gone"}
  <2>1. r \in Clients /\ InCycle(r)
    BY ITS3RunControlAssumption DEF CycleInv
  <2>2. Stage = goal
    BY <1>1 DEF CycleInv, StageInv, Stage
  <2>3. /\ conn[r] \in {"gone", "up"} /\ Place(r) \in {Stage, "ERROR", "gone"}
        /\ conn[r] = "up" => Calm(hpc[r], cmdq[r])
    BY <1>1, <2>2, EverybodyThere
  <2> QED BY <1>1, <1>3, <2>1, <2>3, AdvanceCycle
<1>5. StageInv'
  BY <1>1 DEF StageInv, Called, Over
<1>6. [Cycle!Next]_Cycle!vars
  BY <1>1, <1>4, CycleAdvances
<1> QED BY <1>4, <1>5, <1>6 DEF CycleInv

LEMMA UserLogicCycle ==
  ASSUME TypeOK, UITypeOK, SettledInv, CycleInv, UserLogic
  PROVE  CycleInv' /\ [Cycle!Next]_Cycle!vars
<1>1. CASE CallInitialise \/ CallConfigure \/ CallStartRun \/ CallStopRun \/ (Fail /\ running)
  <2>1. \/ Called("UNCONF", "INIT") \/ Called("CONF", "CONFIG")
        \/ Called("RUNNING", "START") \/ Called("STOPPED", "STOP")
    BY <1>1, CallsAre DEF SettledInv, CycleInv
  <2> QED BY <2>1, CalledCycle
<1>2. CASE CallTerminate
  <2>1. /\ goal = "STOPPED" /\ goal' = goal /\ ~Over /\ Over' /\ rcpc' = "closed"
        /\ UNCHANGED <<conn, hvars, runN>>
        /\ SendCommand(Known, Cmd("TERMINATE"))
    BY <1>2 DEF CallTerminate, Terminate, SettledInv, UserInv, Over
  <2>2. Stage' = Stage /\ UNCHANGED <<st, hpc, run, loop>>
    BY <2>1 DEF Stage, hvars
  <2>3. Cmd("TERMINATE") \in Command /\ Leads(Cmd("TERMINATE"))
    BY CmdType DEF Leads, Cmd
  <2>4. ASSUME NEW c \in Replicas
        PROVE  InCycle(c)'
    <3>1. c \in Clients /\ InCycle(c)
      BY ITS3RunControlAssumption DEF CycleInv
    <3> QED BY <2>1, <2>2, <2>3, <3>1, SendCycle
  <2>5. StageInv'
    BY <2>1 DEF StageInv
  <2>6. [Cycle!Next]_Cycle!vars
    BY <2>1, <2>2, CycleEnds
  <2> QED BY <2>4, <2>5, <2>6 DEF CycleInv
<1>3. CASE Fail /\ ~running
  <2>1. /\ UNCHANGED <<goal, listening, rcpc, runN, conn, cmdq, st, hpc, run, loop>>
        /\ ~Over /\ Over'
    BY <1>3 DEF Fail, vars, rcVars, netVars, hvars, Over
  <2>2. Stage' = Stage
    BY <2>1 DEF Stage
  <2>3. ASSUME NEW c \in Replicas
        PROVE  InCycle(c)'
    <3>1. c \in Clients /\ InCycle(c)
      BY ITS3RunControlAssumption DEF CycleInv
    <3> QED BY <2>1, <2>2, <3>1, ApartCycle
  <2>4. StageInv'
    BY <2>1, <2>2 DEF CycleInv, StageInv
  <2>5. [Cycle!Next]_Cycle!vars
    BY <2>1, <2>2, CycleEnds
  <2> QED BY <2>3, <2>4, <2>5 DEF CycleInv
<1>4. CASE \/ ScanEnds \/ Check \/ (\E r \in Replicas : Scan(r))
           \/ RunBegins \/ RunChecks \/ RunEnds \/ ShownStopped \/ TerminateReturns
  <2>1. UNCHANGED <<vars, goal>> /\ Over' = Over
    BY <1>4 DEF ScanEnds, Check, Scan, RunBegins, RunChecks, RunEnds, ShownStopped,
       TerminateReturns, WaitFor, Over
  <2>2. UNCHANGED <<conn, hvars, listening, runN, goal, cmdq, rcpc>>
    BY <2>1 DEF vars, rcVars, netVars
  <2>3. StageInv'
    BY <2>1, <2>2 DEF CycleInv, StageInv, Stage
  <2> QED BY <2>1, <2>2, <2>3, SendsCycle
<1> QED BY <1>1, <1>2, <1>3, <1>4 DEF UserLogic

LEMMA InsideCallCycle ==
  ASSUME Inductive, CycleInv, InsideCall
  PROVE  CycleInv' /\ [Cycle!Next]_Cycle!vars
<1>1. CallStep /\ UNCHANGED uiVars /\ TypeInv /\ TypeOK
  BY DEF InsideCall, CallStep, Inductive, TypeInv
<1>2. /\ UNCHANGED <<conn, hvars, listening, runN, goal, user>>
      /\ Startwards' => Startwards
      /\ StopPhase' => StopPhase
      /\ rcpc' \in {"initialise", "configure"} => rcpc' = rcpc
  BY <1>1, CallOrders DEF uiVars, userVars
<1>3. /\ Startwards => Stage = "RUNNING" /\ Start(runN) \in Command
      /\ StopPhase => Stage = "STOPPED"
  <2>1. Startwards => runN \in 0 .. MaxRun
    BY <1>1, BoundsAssumption DEF TypeInv, TypeOK, Startwards
  <2> QED BY <2>1, StartType DEF CycleInv, StageInv, Startwards, StopPhase
<1>4. Over' = Over /\ Stage' = Stage
  BY <1>2 DEF Over, Stage
<1>5. StageInv'
  BY <1>2, <1>4 DEF CycleInv, StageInv, Startwards, StopPhase
<1>6. \/ cmdq' = cmdq
      \/ \E S, m : m \in Command /\ SendCommand(S, m) /\ Leads(m)
  <2>1. CASE cmdq' = cmdq
    BY <2>1
  <2>2. ASSUME NEW S, Startwards, SendCommand(S, Start(runN))
        PROVE  \E T, m : m \in Command /\ SendCommand(T, m) /\ Leads(m)
    <3>1. Leads(Start(runN))
      BY <1>3, <2>2 DEF Leads, Start, Cmd
    <3> QED BY <1>3, <2>2, <3>1
  <2>3. ASSUME NEW S, StopPhase, SendCommand(S, Cmd("STOP"))
        PROVE  \E T, m : m \in Command /\ SendCommand(T, m) /\ Leads(m)
    <3>1. Leads(Cmd("STOP")) /\ Cmd("STOP") \in Command
      BY <1>3, <2>3, CmdType DEF Leads, Cmd
    <3> QED BY <2>3, <3>1
  <2>4. ASSUME NEW S, rcpc = "initialise", SendCommand(S, Cmd("INIT"))
        PROVE  \E T, m : m \in Command /\ SendCommand(T, m) /\ Leads(m)
    <3>1. Leads(Cmd("INIT")) /\ Cmd("INIT") \in Command
      BY <2>4, CmdType DEF Leads, Cmd, CycleInv, StageInv
    <3> QED BY <2>4, <3>1
  <2>5. ASSUME NEW S, rcpc = "configure", SendCommand(S, [Cmd("CONFIG") EXCEPT !.addr = addrs])
        PROVE  \E T, m : m \in Command /\ SendCommand(T, m) /\ Leads(m)
    <3>1. PICK m : m = [Cmd("CONFIG") EXCEPT !.addr = addrs]
      OBVIOUS
    <3>2. m \in Command /\ m.op = "CONFIG"
      BY <1>1, <3>1, ConfigType DEF Cmd, TypeOK
    <3>3. Leads(m) /\ SendCommand(S, m)
      BY <2>5, <3>1, <3>2 DEF Leads, CycleInv, StageInv
    <3> QED BY <3>2, <3>3
  <2> QED BY <1>1, <2>1, <2>2, <2>3, <2>4, <2>5, CallOrders
<1> QED BY <1>1, <1>2, <1>4, <1>5, <1>6, SendsCycle

\* Nobody is late: who connects, connects to the first stage.
LEMMA AcceptCycle ==
  ASSUME TypeOK, CycleInv, NEW d \in Clients, AcceptConnection(d)
  PROVE  CycleInv' /\ [Cycle!Next]_Cycle!vars
<1>1. /\ UNCHANGED <<rcVars, userVars, netVars, hvars>> /\ conn[d] = "absent"
      /\ conn' = [conn EXCEPT ![d] = IF listening THEN "up" ELSE "gone"]
  BY DEF AcceptConnection, Connect
<1>2. UNCHANGED <<rcpc, listening, runN, goal, user, cmdq, st, hpc, run, loop>>
  BY <1>1 DEF rcVars, userVars, netVars, hvars
<1>3. \A c \in Clients \ {d} : UNCHANGED <<conn[c], cmdq[c], st[c], hpc[c], run[c], loop[c]>>
  BY <1>1, <1>2 DEF TypeOK
<1>4. ASSUME d \in Replicas
      PROVE  InCycle(d)' /\ Comes(d)
  <2>1. /\ goal = "UNINIT" /\ listening /\ st[d] = "UNINIT" /\ hpc[d] = "idle" /\ cmdq[d] = <<>>
    BY <1>1, <1>4 DEF CycleInv, StageInv, InCycle
  <2>2. conn'[d] = "up"
    BY <1>1, <2>1 DEF TypeOK
  <2>3. Stage = "UNINIT" /\ Stage' = "UNINIT" /\ Place(d) = "absent" /\ Place(d)' = "UNINIT"
    BY <1>1, <1>2, <2>1, <2>2 DEF Stage, Place
  <2>4. InCycle(d)'
    BY <1>2, <2>1, <2>2, <2>3 DEF InCycle, Now
  <2>5. Comes(d)
    BY <2>3 DEF Comes, Cycle!Follows
  <2> QED BY <2>4, <2>5
<1> QED BY <1>2, <1>3, <1>4, OneCycle

LEMMA ClientCycle ==
  ASSUME TypeOK, UITypeOK, CycleInv, NEW d \in Clients, ClientStep(d), UNCHANGED uiVars
  PROVE  CycleInv' /\ [Cycle!Next]_Cycle!vars
<1>1. SameControl
  BY OwnMoves
<1>2. UNCHANGED <<rcpc, listening, runN, goal, user>>
  BY <1>1 DEF SameControl, rcVars, uiVars, userVars
<1>3. \A c \in Clients \ {d} : UNCHANGED <<conn[c], cmdq[c], st[c], hpc[c], run[c], loop[c]>>
  BY OthersApart, OthersLoop DEF Apart
<1>4. d \in Replicas => InCycle(d)' /\ Comes(d)
  BY OwnCycle DEF CycleInv
<1> QED BY <1>2, <1>3, <1>4, OneCycle

LEMMA StepCycle ==
  ASSUME Inductive, UITypeOK, SettledInv, CycleInv, [UINext]_allVars
  PROVE  CycleInv' /\ [Cycle!Next]_Cycle!vars
<1>0. TypeOK
  BY DEF Inductive, TypeInv
<1>1. CASE UNCHANGED <<conn, hvars, listening, runN, goal, user, rcpc, cmdq>>
  <2>1. Over' = Over
    BY <1>1 DEF Over
  <2>2. StageInv'
    BY <1>1, <2>1 DEF CycleInv, StageInv, Stage
  <2> QED BY <1>0, <1>1, <2>1, <2>2, SendsCycle
<1>2. CASE Callback \/ \E d \in Clients : Receive(d)
  BY <1>1, <1>2 DEF Callback, CallbackLocks, CallbackDraws, Receive, ReceiveStatus, vars, rcVars,
     netVars, userVars
<1>3. CASE EnoughEvents \/ HandleKey \/ Quit \/ \E k \in Keys : PressKey(k)
  BY <1>1, <1>3 DEF EnoughEvents, HandleKey, Quit, PressKey, vars, rcVars, netVars, userVars
<1>4. CASE UNCHANGED allVars
  BY <1>1, <1>4 DEF allVars, vars, rcVars, netVars, uiVars, userVars
<1>5. CASE PollStatus /\ UNCHANGED uiVars
  <2>1. UNCHANGED <<conn, hvars, listening, runN, goal, user, rcpc>>
    BY <1>5 DEF PollStatus, rcVars, uiVars, userVars
  <2>2. Over' = Over
    BY <2>1 DEF Over
  <2>3. StageInv'
    BY <2>1, <2>2 DEF CycleInv, StageInv, Stage
  <2>4. Cmd("STATUS") \in Command /\ Leads(Cmd("STATUS"))
    BY CmdType DEF Leads, Cmd
  <2>5. \E S, m : m \in Command /\ SendCommand(S, m) /\ Leads(m)
    BY <1>5, <2>4 DEF PollStatus
  <2> QED BY <1>0, <2>1, <2>2, <2>3, <2>5, SendsCycle
<1>6. CASE \E d \in Clients : AcceptConnection(d)
  BY <1>0, <1>6, AcceptCycle
<1>7. ASSUME NEW d \in Clients, ClientStep(d), UNCHANGED uiVars
      PROVE  CycleInv' /\ [Cycle!Next]_Cycle!vars
  BY <1>0, <1>7, ClientCycle
<1>8. CASE UserLogic
  BY <1>0, <1>8, UserLogicCycle
<1>9. CASE InsideCall
  BY <1>9, InsideCallCycle
<1> QED BY <1>2, <1>3, <1>4, <1>5, <1>6, <1>7, <1>8, <1>9 DEF UINext, Elsewhere, ClientStep

LEMMA InitCycle == UIInit => CycleInv /\ Cycle!Init
<1> SUFFICES ASSUME UIInit PROVE CycleInv /\ Cycle!Init
  OBVIOUS
<1>1. ASSUME NEW c \in Replicas
      PROVE  /\ conn[c] = "absent" /\ st[c] = "UNINIT" /\ hpc[c] = "idle" /\ loop[c] = "none"
             /\ cmdq[c] = <<>>
  BY ITS3RunControlAssumption DEF UIInit, Init
<1>2. goal = "UNINIT" /\ listening /\ rcpc = "idle" /\ runN = 0 /\ ~Over
  BY DEF UIInit, Init, Over
<1>3. CycleInv
  BY <1>1, <1>2 DEF CycleInv, StageInv, InCycle
<1>4. \A c \in Replicas : Place(c) = "absent"
  BY <1>1 DEF Place
<1>5. Stage = "UNINIT" /\ Over = FALSE
  BY <1>2 DEF Stage, Over
<1>6. Cycle!Init
  BY <1>2, <1>4, <1>5 DEF Cycle!Init
<1> QED BY <1>3, <1>6

LEMMA CycleInvariant == UISpec => []CycleInv
<1>1. ASSUME Inductive, UITypeOK, SettledInv, CycleInv, [UINext]_allVars
      PROVE  CycleInv'
  BY <1>1, StepCycle
<1>2. UISpec => []Inductive
  BY RunControlBelow, InductiveInvariant, PTL
<1> QED BY <1>1, <1>2, InitCycle, UITyping, SettledInvariant, PTL DEF UISpec

\* The run control is a barrier of its replicas, run after run: the next state is called
\* for when all replicas that are still there have come to this one or failed, and each
\* comes along on its own (ITS3RunControl.py:310-395).
THEOREM RunControlIsCycle == UISpec => CycleSpec
<1>1. ASSUME Inductive, UITypeOK, SettledInv, CycleInv, [UINext]_allVars
      PROVE  [Cycle!Next]_Cycle!vars
  BY <1>1, StepCycle
<1>2. UISpec => []Inductive
  BY RunControlBelow, InductiveInvariant, PTL
<1> QED
  BY <1>1, <1>2, InitCycle, UITyping, SettledInvariant, CycleInvariant, PTL
     DEF UISpec, CycleSpec, Cycle!Spec

\* All replicas that are running are in one run (ITS3RunControl.py:383-392,
\* RunControl.cc:217-275).
THEOREM ReplicasShareTheRun == UISpec => []OneRun
<1>1. TypeOK /\ CycleInv => OneRun
  <2> SUFFICES ASSUME TypeOK, CycleInv, NEW r \in Replicas, NEW s \in Replicas,
                      Place(r) = "RUNNING", Place(s) = "RUNNING"
               PROVE  run[r] = run[s]
    BY DEF OneRun
  <2>1. ASSUME NEW c \in Replicas, Place(c) = "RUNNING"
        PROVE  run[c] = ThisRun
    <3>1. conn[c] = "up"
      BY <2>1, ITS3RunControlAssumption DEF Place, TypeOK
    <3> QED BY <2>1, <3>1 DEF Place, CycleInv, InCycle
  <2> QED BY <2>1
<1> QED BY <1>1, CycleInvariant, RunControlBelow, Typing, PTL
=============================================================================
