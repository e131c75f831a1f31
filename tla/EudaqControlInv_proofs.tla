----------------------- MODULE EudaqControlInv_proofs -----------------------
(***************************************************************************)
(* Proof that Inductive is an invariant of EudaqControl, and of the two    *)
(* safety properties that follow from it; and of OnRecord, from Parting.   *)
(*                                                                         *)
(* First come lemmas about statuses under way (v, q, s: last received, on  *)
(* the way, current) and about commands under way; then what a step does   *)
(* to the server it is about and that it leaves the other servers alone.   *)
(***************************************************************************)
EXTENDS EudaqControl_proofs

USE DEF R

Msgs == States \cup {"BYE"}

\* The status RunControl has after the next arrival.
Seeing(x) == IF x = "BYE" THEN "none" ELSE x

LEMMA TailOf ==
  ASSUME NEW T, NEW q \in Seq(T), q # <<>>
  PROVE  /\ Head(q) = q[1] /\ 1 \in DOMAIN q
         /\ \A i \in DOMAIN Tail(q) : /\ i \in Nat \ {0}
                                     /\ i + 1 \in DOMAIN q
                                     /\ Tail(q)[i] = q[i + 1]
OBVIOUS

-----------------------------------------------------------------------------
(* Statuses under way.                                                     *)

LEMMA QuietSend ==
  ASSUME NEW v, NEW q \in Seq(Msgs), NEW s, NEW x, NEW t, Quiet(v, q, s), x # R, t # R,
         x \in Msgs
  PROVE  Quiet(v, Append(q, x), t)
BY DEF Quiet

LEMMA QuietReceive ==
  ASSUME NEW v, NEW q \in Seq(Msgs), NEW s, Quiet(v, q, s), q # <<>>
  PROVE  Quiet(Seeing(Head(q)), Tail(q), s)
BY TailOf DEF Quiet, Seeing

LEMMA QuietPeaks ==
  ASSUME NEW v, NEW q \in Seq(Msgs), NEW s, Quiet(v, q, s)
  PROVE  Falls(v, q, s) /\ Peaks(v, q, s)
BY DEF Quiet, Falls, Peaks

LEMMA QuietRunning ==
  ASSUME NEW v, NEW q \in Seq(Msgs), NEW s, Quiet(v, q, s)
  PROVE  Peaks(v, Append(q, R), R)
BY DEF Quiet, Falls, Peaks, Msgs, States

LEMMA FallsSend ==
  ASSUME NEW v, NEW q \in Seq(Msgs), NEW s, NEW x \in Msgs, NEW t,
         Falls(v, q, s), t # R, x # R \/ x = s
  PROVE  Falls(v, Append(q, x), t)
BY DEF Quiet, Falls

LEMMA FallsRepeat ==
  ASSUME NEW v, NEW q \in Seq(Msgs), NEW s \in Msgs, Falls(v, q, s)
  PROVE  Falls(v, Append(q, s), s)
BY DEF Quiet, Falls

LEMMA FallsReceive ==
  ASSUME NEW v, NEW q \in Seq(Msgs), NEW s, Falls(v, q, s), q # <<>>
  PROVE  Falls(Seeing(Head(q)), Tail(q), s)
<1>1. \A i \in DOMAIN Tail(q) :
        Tail(q)[i] # R => s # R /\ \A j \in DOMAIN Tail(q) : j > i => Tail(q)[j] # R
  BY TailOf DEF Falls
<1>2. ASSUME Seeing(Head(q)) # R
      PROVE  Quiet(Seeing(Head(q)), Tail(q), s)
  <2>1. q[1] # R /\ 1 \in DOMAIN q
    BY <1>2, TailOf DEF Seeing
  <2>2. s # R /\ \A j \in DOMAIN q : j > 1 => q[j] # R
    BY <2>1 DEF Falls
  <2> QED BY <1>2, <2>2, TailOf DEF Quiet
<1> QED BY <1>1, <1>2 DEF Falls

LEMMA FallsQuiet ==
  ASSUME NEW v, NEW q \in Seq(Msgs), NEW s, Falls(v, q, s), v # R
  PROVE  Quiet(v, q, s)
BY DEF Falls

LEMMA PeaksSend ==
  ASSUME NEW v, NEW q \in Seq(Msgs), NEW s, NEW x \in Msgs, NEW t,
         Peaks(v, q, s), t # R, x # R
  PROVE  Peaks(v, Append(q, x), t)
BY DEF Quiet, Falls, Peaks

LEMMA PeaksRepeat ==
  ASSUME NEW v, NEW q \in Seq(Msgs), NEW s \in Msgs, Peaks(v, q, s)
  PROVE  Peaks(v, Append(q, s), s)
BY DEF Quiet, Falls, Peaks

LEMMA PeaksReceive ==
  ASSUME NEW v, NEW q \in Seq(Msgs), NEW s, Peaks(v, q, s), q # <<>>
  PROVE  Peaks(Seeing(Head(q)), Tail(q), s)
<1>1. \A h, i \in DOMAIN Tail(q) :
        Tail(q)[h] = R /\ h < i /\ Tail(q)[i] # R =>
          s # R /\ \A j \in DOMAIN Tail(q) : j > i => Tail(q)[j] # R
  BY TailOf DEF Peaks
<1>2. ASSUME Seeing(Head(q)) = R
      PROVE  Falls(Seeing(Head(q)), Tail(q), s)
  <2>1. q[1] = R /\ 1 \in DOMAIN q
    BY <1>2, TailOf DEF Seeing
  <2>2. \A i \in DOMAIN q : i > 1 /\ q[i] # R =>
          s # R /\ \A j \in DOMAIN q : j > i => q[j] # R
    BY <2>1 DEF Peaks
  <2>3. \A i \in DOMAIN Tail(q) :
          Tail(q)[i] # R => s # R /\ \A j \in DOMAIN Tail(q) : j > i => Tail(q)[j] # R
    BY <2>2, TailOf
  <2> QED BY <1>2, <2>3 DEF Falls
<1> QED BY <1>1, <1>2 DEF Peaks

LEMMA StateChange ==
  ASSUME NEW v, NEW q \in Seq(Msgs), NEW s, NEW t, t # R
  PROVE  /\ Quiet(v, q, s) => Quiet(v, q, t)
         /\ Falls(v, q, s) => Falls(v, q, t)
         /\ Peaks(v, q, s) => Peaks(v, q, t)
BY DEF Quiet, Falls, Peaks

\* A status that nobody has read yet becomes ERROR.
LEMMA Reworded ==
  ASSUME NEW v, NEW q \in Seq(Msgs), q # <<>>, NEW s, NEW r,
         r = [q EXCEPT ![Len(q)] = "ERROR"]
  PROVE  /\ Quiet(v, q, s) => Quiet(v, r, "ERROR")
         /\ Falls(v, q, s) => Falls(v, r, "ERROR")
         /\ Peaks(v, q, s) => Peaks(v, r, "ERROR")
<1>1. /\ DOMAIN r = DOMAIN q /\ DOMAIN q = 1 .. Len(q) /\ Len(q) \in Nat
      /\ \A i \in DOMAIN q : r[i] = IF i = Len(q) THEN "ERROR" ELSE q[i]
  BY LastOverwritten DEF Msgs, States
<1>2. Quiet(v, q, s) => Quiet(v, r, "ERROR")
  BY <1>1 DEF Quiet
<1>3. Falls(v, q, s) => Falls(v, r, "ERROR")
  BY <1>1, <1>2 DEF Falls
<1>4. Peaks(v, q, s) => Peaks(v, r, "ERROR")
  BY <1>1, <1>3 DEF Peaks
<1> QED BY <1>2, <1>3, <1>4

-----------------------------------------------------------------------------
(* Commands under way.                                                     *)

LEMMA AppendCommand ==
  ASSUME NEW q \in Seq(Command), NEW m \in Command
  PROVE  /\ NoStart(q) /\ m.op # "START" => NoStart(Append(q, m))
         /\ OnlyStatus(q) /\ m.op = "STATUS" => OnlyStatus(Append(q, m))
BY DEF NoStart, OnlyStatus

LEMMA AppendToStart ==
  ASSUME NEW q \in Seq(Command), NEW m \in Command, NEW r
  PROVE  /\ StartQueued(q, r) /\ m.op = "STATUS" => StartQueued(Append(q, m), r)
         /\ NoStart(q) /\ m = Start(r) => StartQueued(Append(q, m), r)
<1>1. ASSUME StartQueued(q, r), m.op = "STATUS"
      PROVE  StartQueued(Append(q, m), r)
  <2>1. PICK k \in DOMAIN q :
          /\ q[k] = Start(r)
          /\ \A j \in DOMAIN q : /\ j < k => q[j].op # "START"
                                 /\ j > k => q[j].op = "STATUS"
    BY <1>1 DEF StartQueued
  <2>2. k \in DOMAIN Append(q, m) /\ Append(q, m)[k] = Start(r)
    BY <2>1
  <2>3. \A j \in DOMAIN Append(q, m) : /\ j < k => Append(q, m)[j].op # "START"
                                       /\ j > k => Append(q, m)[j].op = "STATUS"
    BY <1>1, <2>1
  <2> QED BY <2>2, <2>3 DEF StartQueued
<1>2. ASSUME NoStart(q), m = Start(r)
      PROVE  StartQueued(Append(q, m), r)
  <2>1. Len(q) + 1 \in DOMAIN Append(q, m) /\ Append(q, m)[Len(q) + 1] = Start(r)
    BY <1>2
  <2>2. \A j \in DOMAIN Append(q, m) :
          /\ j < Len(q) + 1 => Append(q, m)[j].op # "START"
          /\ ~(j > Len(q) + 1)
    BY <1>2 DEF NoStart
  <2> QED BY <2>1, <2>2 DEF StartQueued
<1> QED BY <1>1, <1>2

LEMMA TailCommand ==
  ASSUME NEW q \in Seq(Command), q # <<>>
  PROVE  /\ NoStart(q) => NoStart(Tail(q)) /\ Head(q).op # "START"
         /\ OnlyStatus(q) => OnlyStatus(Tail(q)) /\ Head(q).op = "STATUS"
BY TailOf DEF NoStart, OnlyStatus

LEMMA TailStart ==
  ASSUME NEW q \in Seq(Command), NEW r, q # <<>>, StartQueued(q, r)
  PROVE  IF Head(q).op = "START" THEN Head(q) = Start(r) /\ OnlyStatus(Tail(q))
                                 ELSE StartQueued(Tail(q), r)
<1>1. PICK k \in DOMAIN q :
        /\ q[k] = Start(r)
        /\ \A j \in DOMAIN q : /\ j < k => q[j].op # "START"
                               /\ j > k => q[j].op = "STATUS"
  BY DEF StartQueued
<1>2. Start(r).op = "START"
  BY DEF Start, Cmd
<1>3. CASE k = 1
  BY <1>1, <1>2, <1>3, TailOf DEF OnlyStatus
<1>4. CASE k # 1
  <2>1. Head(q).op # "START"
    BY <1>1, <1>4, TailOf
  <2>2. k - 1 \in DOMAIN Tail(q) /\ Tail(q)[k - 1] = Start(r)
    BY <1>1, <1>4, TailOf
  <2>3. \A j \in DOMAIN Tail(q) : /\ j < k - 1 => Tail(q)[j].op # "START"
                                  /\ j > k - 1 => Tail(q)[j].op = "STATUS"
    BY <1>1, <1>4, TailOf
  <2> QED BY <2>1, <2>2, <2>3 DEF StartQueued
<1> QED BY <1>3, <1>4

-----------------------------------------------------------------------------
(* A step of one client.                                                   *)

\* The last status sent, unread so far, was ERROR after all.
Recants(c) ==
  /\ statq[c] # <<>> /\ statq'[c] = [statq[c] EXCEPT ![Len(statq[c])] = "ERROR"]
  /\ st'[c] = "ERROR"

\* What a handler other than START's does to the statuses of its client.
Told(c) ==
  \/ statq'[c] = statq[c] /\ st'[c] \in {st[c], "ERROR"}
  \/ \E x \in States : x # R /\ statq'[c] = Append(statq[c], x) /\ st'[c] = x
  \/ statq'[c] = Append(statq[c], st[c]) /\ st'[c] = st[c]
  \/ statq'[c] = Append(Append(statq[c], st[c]), "UNCONF") /\ st'[c] = "UNCONF"
  \/ Recants(c)

\* The handler of a command other than START is done, or waits for the RunLoop.
Answers(c) ==
  /\ Reachable(c) /\ hpc[c] = "idle"
  /\ cmdq[c] # <<>> /\ Head(cmdq[c]).op # "START"
  /\ cmdq'[c] = Tail(cmdq[c])
  /\ hpc'[c] \in {"idle", "dead", "stopping", "resetting"}
  /\ Head(cmdq[c]).op = "STATUS" => hpc'[c] \in {"idle", "dead"} /\ st'[c] \in {st[c], "ERROR"}

\* The wait for the RunLoop is over.
Unwinds(c) ==
  /\ conn[c] = "up" /\ hpc[c] \in {"stopping", "resetting"}
  /\ hpc'[c] \in {"idle", "dead"}
  /\ cmdq'[c] = cmdq[c]

\* The RunLoop returns or throws.
Loops(c) ==
  /\ cmdq'[c] = cmdq[c] /\ hpc'[c] = hpc[c]
  /\ statq'[c] = statq[c] \/ statq[c] # <<>>
  /\ st'[c] \in {st[c], "ERROR"}

SameControl == UNCHANGED <<rcVars, view>>

Local(c) == SameControl /\ Told(c) /\ run'[c] = run[c] /\ conn'[c] = conn[c]

LEMMA Typed ==
  ASSUME TypeOK, NEW c \in Clients
  PROVE  /\ statq[c] \in Seq(Msgs) /\ cmdq[c] \in Seq(Command)
         /\ st[c] \in States /\ st[c] \in Msgs
BY DEF TypeOK, Msgs

LEMMA ServersAreClients == Servers \subseteq Clients /\ NoClient \notin Servers
BY ClientsAssumption DEF Servers, Clients

LEMMA ToldKeeps ==
  ASSUME TypeOK, NEW c \in Clients, view'[c] = view[c], Told(c)
  PROVE  /\ QuietOf(c) => QuietOf(c)'
         /\ FallsOf(c) => FallsOf(c)'
         /\ PeaksOf(c) => PeaksOf(c)'
<1> USE Typed DEF QuietOf, FallsOf, PeaksOf
<1>1. CASE statq'[c] = statq[c] /\ st'[c] \in {st[c], "ERROR"}
  BY <1>1, StateChange
<1>2. CASE \E x \in States : x # R /\ statq'[c] = Append(statq[c], x) /\ st'[c] = x
  BY <1>2, QuietSend, FallsSend, PeaksSend DEF Msgs
<1>3. CASE statq'[c] = Append(statq[c], st[c]) /\ st'[c] = st[c]
  <2>1. QuietOf(c) => QuietOf(c)'
    BY <1>3, QuietSend DEF Quiet
  <2> QED BY <1>3, <2>1, FallsRepeat, PeaksRepeat
<1>4. CASE statq'[c] = Append(Append(statq[c], st[c]), "UNCONF") /\ st'[c] = "UNCONF"
  <2> DEFINE q == Append(statq[c], st[c])
  <2>1. q \in Seq(Msgs) /\ "UNCONF" \in Msgs
    BY DEF Msgs, States
  <2>2. /\ QuietOf(c) => Quiet(view[c], q, st[c])
        /\ FallsOf(c) => Falls(view[c], q, st[c])
        /\ PeaksOf(c) => Peaks(view[c], q, st[c])
    <3>1. QuietOf(c) => Quiet(view[c], q, st[c])
      BY QuietSend DEF Quiet
    <3> QED BY <3>1, FallsRepeat, PeaksRepeat
  <2>3. statq'[c] = Append(q, "UNCONF")
    BY <1>4
  <2> HIDE DEF q
  <2> QED BY <1>4, <2>1, <2>2, <2>3, QuietSend, FallsSend, PeaksSend
<1>5. CASE Recants(c)
  <2>1. /\ statq[c] \in Seq(Msgs) /\ statq[c] # <<>> /\ st'[c] = "ERROR"
        /\ statq'[c] = [statq[c] EXCEPT ![Len(statq[c])] = "ERROR"]
    BY <1>5, Typed DEF Recants
  <2> DEFINE q == statq[c]
             u == statq'[c]
  <2>2. /\ Quiet(view[c], q, st[c]) => Quiet(view[c], u, "ERROR")
        /\ Falls(view[c], q, st[c]) => Falls(view[c], u, "ERROR")
        /\ Peaks(view[c], q, st[c]) => Peaks(view[c], u, "ERROR")
    <3>1. q \in Seq(Msgs) /\ q # <<>> /\ u = [q EXCEPT ![Len(q)] = "ERROR"]
      BY <2>1
    <3> HIDE DEF q, u
    <3> QED BY <3>1, Reworded
  <2> QED BY <2>1, <2>2
<1> QED BY <1>1, <1>2, <1>3, <1>4, <1>5 DEF Told

LEMMA SameSets ==
  ASSUME SameControl
  PROVE  Waiting' = Waiting /\ Visited' = Visited /\ cur' = cur /\ runN' = runN /\ batch' = batch
BY DEF SameControl, rcVars, Waiting, Visited

LEMMA LocalStep ==
  ASSUME Inductive, NEW c \in Servers, Local(c), Answers(c) \/ Unwinds(c) \/ Loops(c)
  PROVE  ServerInv(c)'
<1>0. /\ c \in Clients /\ TypeOK /\ ServerInv(c)
      /\ view'[c] = view[c] /\ conn'[c] = conn[c] /\ run'[c] = run[c] /\ cmdq[c] \in Seq(Command)
  BY ServersAreClients, Typed DEF Inductive, TypeInv, Local, SameControl
<1>1. /\ QuietOf(c) => QuietOf(c)'
      /\ FallsOf(c) => FallsOf(c)'
      /\ PeaksOf(c) => PeaksOf(c)'
  BY <1>0, ToldKeeps DEF Local
<1>2. Waiting' = Waiting /\ Visited' = Visited /\ cur' = cur /\ runN' = runN /\ batch' = batch
  BY SameSets DEF Local
<1>3. /\ conn[c] = "absent" => view'[c] = "none" /\ statq'[c] = <<>>
      /\ conn[c] # "up" => cmdq'[c] = <<>> /\ hpc'[c] = "idle" /\ st'[c] # R
  BY <1>0 DEF ServerInv, Answers, Unwinds, Loops, Reachable
<1>4. c # cur => NoStart(cmdq'[c]) /\ hpc'[c] # "starting"
  BY <1>0, TailCommand DEF ServerInv, Answers, Unwinds, Loops
<1>5. Serving(c) => Serving(c)'
  BY <1>0, <1>2, TailCommand DEF Serving, Answers, Unwinds, Loops
<1>6. Asked(c) => Asked(c)'
  BY <1>0, <1>1, <1>2, TailStart DEF Asked, Answers, Unwinds, Loops
<1>7. Starting(c) => Starting(c)'
  BY <1>0, <1>1, <1>2 DEF Starting, Answers, Unwinds, Loops
<1>8. ~Reachable(c) => ~Reachable(c)'
  BY <1>0 DEF Reachable, Answers, Unwinds, Loops
<1>9. AwaitedInv(c) => AwaitedInv(c)'
  BY <1>0, <1>1, <1>5, <1>6, <1>7, <1>8 DEF AwaitedInv
<1> QED BY <1>0, <1>1, <1>2, <1>3, <1>4, <1>5, <1>9 DEF ServerInv

LEMMA AwaitedNotVisited ==
  ASSUME PhaseInv, cur \in Servers
  PROVE  cur \notin Visited
BY ServersAreClients DEF PhaseInv, Visited

\* A server that takes a START is the one StartRun waits for, and it is START's
\* only copy: nothing but polls can follow.
LEMMA StartStep ==
  ASSUME Inductive, NEW c \in Servers, OnStartRun(c)
  PROVE  ServerInv(c)'
<1>0. /\ c \in Clients /\ TypeOK /\ ServerInv(c) /\ PhaseInv
      /\ cmdq[c] \in Seq(Command) /\ statq[c] \in Seq(Msgs)
  BY ServersAreClients, Typed DEF Inductive, TypeInv
<1>1. /\ Reachable(c) /\ hpc[c] = "idle" /\ cmdq[c] # <<>> /\ Head(cmdq[c]).op = "START"
      /\ cmdq'[c] = Tail(cmdq[c]) /\ run'[c] = Head(cmdq[c]).run
      /\ view'[c] = view[c] /\ conn'[c] = conn[c]
  BY <1>0 DEF OnStartRun, Take, TypeOK
<1>2. /\ Waiting' = Waiting /\ Visited' = Visited /\ cur' = cur /\ runN' = runN /\ batch' = batch
  BY SameSets DEF OnStartRun, SameControl
<1>3. c = cur
  BY <1>0, <1>1, TailCommand DEF ServerInv
<1>4. Asked(c)
  <2>1. ~Serving(c) /\ conn[c] = "up" /\ hpc[c] # "starting"
    BY <1>0, <1>1, TailCommand DEF Serving, Reachable
  <2> QED BY <1>0, <1>1, <1>3, <2>1 DEF ServerInv, AwaitedInv, Starting
<1>5. OnlyStatus(cmdq'[c]) /\ run'[c] = runN
  <2>1. Head(cmdq[c]) = Start(runN) /\ OnlyStatus(Tail(cmdq[c]))
    BY <1>0, <1>1, <1>4, TailStart DEF Asked
  <2> QED BY <1>1, <2>1 DEF Start, Cmd
<1>6. \/ hpc'[c] = "starting" /\ st'[c] = st[c] /\ statq'[c] = statq[c]
      \/ hpc'[c] = "idle" /\ st'[c] = "ERROR" /\ statq'[c] = Append(statq[c], "ERROR")
      \/ hpc'[c] = "dead" /\ st'[c] = st[c] /\ statq'[c] = statq[c]
  BY <1>0 DEF OnStartRun, UserThrow, Throw, Report, Idle, TypeOK
<1>7. AwaitedInv(c)'
  <2>1. CASE hpc'[c] = "starting" /\ st'[c] = st[c] /\ statq'[c] = statq[c]
    BY <1>1, <1>2, <1>4, <1>5, <2>1 DEF AwaitedInv, Asked, Starting, QuietOf
  <2>2. CASE hpc'[c] = "idle" /\ st'[c] = "ERROR" /\ statq'[c] = Append(statq[c], "ERROR")
    <3>1. PeaksOf(c)'
      BY <1>0, <1>1, <1>4, <2>2, QuietPeaks, PeaksSend DEF Asked, QuietOf, PeaksOf, Msgs, States
    <3> QED BY <1>2, <1>5, <2>2, <3>1 DEF AwaitedInv, Serving
  <2>3. CASE hpc'[c] = "dead" /\ st'[c] = st[c] /\ statq'[c] = statq[c]
    BY <1>1, <1>4, <2>3 DEF AwaitedInv, Asked, Reachable, QuietOf
  <2> QED BY <1>6, <2>1, <2>2, <2>3
<1>8. c \notin Visited
  BY <1>0, <1>3, AwaitedNotVisited
<1>9. conn'[c] = "up"
  BY <1>1 DEF Reachable
<1> QED BY <1>0, <1>1, <1>2, <1>3, <1>7, <1>8, <1>9 DEF ServerInv

LEMMA StartEndsStep ==
  ASSUME Inductive, NEW c \in Servers, OnStartRunEnds(c)
  PROVE  ServerInv(c)'
<1>0. /\ c \in Clients /\ TypeOK /\ ServerInv(c) /\ PhaseInv
      /\ cmdq[c] \in Seq(Command) /\ statq[c] \in Seq(Msgs)
  BY ServersAreClients, Typed DEF Inductive, TypeInv
<1>1. /\ conn[c] = "up" /\ hpc[c] = "starting" /\ hpc'[c] = "idle" /\ st'[c] = R
      /\ statq'[c] = Append(statq[c], R) /\ cmdq'[c] = cmdq[c] /\ run'[c] = run[c]
      /\ view'[c] = view[c] /\ conn'[c] = conn[c]
  BY <1>0 DEF OnStartRunEnds, Report, Idle, TypeOK
<1>2. /\ Waiting' = Waiting /\ Visited' = Visited /\ cur' = cur /\ runN' = runN /\ batch' = batch
  BY SameSets DEF OnStartRunEnds, SameControl
<1>3. c = cur
  BY <1>0, <1>1 DEF ServerInv
<1>4. Starting(c)
  BY <1>0, <1>1, <1>3 DEF ServerInv, AwaitedInv, Asked, Serving, Reachable
<1>5. PeaksOf(c)'
  BY <1>0, <1>1, <1>4, QuietRunning DEF Starting, QuietOf, PeaksOf
<1>6. AwaitedInv(c)'
  BY <1>1, <1>2, <1>4, <1>5 DEF AwaitedInv, Starting, Serving
<1>7. c \notin Visited
  BY <1>0, <1>3, AwaitedNotVisited
<1> QED BY <1>0, <1>1, <1>2, <1>3, <1>6, <1>7 DEF ServerInv

LEMMA LeaveStep ==
  ASSUME Inductive, NEW c \in Servers, Leave(c, statq[c]) \/ Leave(c, Append(statq[c], "UNINIT")),
         SameControl, conn[c] = "up"
  PROVE  ServerInv(c)'
<1>0. /\ c \in Clients /\ TypeOK /\ ServerInv(c) /\ PhaseInv
      /\ cmdq[c] \in Seq(Command) /\ statq[c] \in Seq(Msgs)
  BY ServersAreClients, Typed DEF Inductive, TypeInv
<1>1. /\ conn'[c] = "gone" /\ cmdq'[c] = <<>> /\ st'[c] = "UNINIT" /\ hpc'[c] = "idle"
      /\ view'[c] = view[c]
  BY <1>0 DEF Leave, Idle, TypeOK, SameControl
<1>2. \/ statq'[c] = Append(statq[c], "BYE")
      \/ statq'[c] = Append(Append(statq[c], "UNINIT"), "BYE")
  BY <1>0 DEF Leave, TypeOK
<1>3. "UNINIT" \in Msgs /\ "BYE" \in Msgs /\ Append(statq[c], "UNINIT") \in Seq(Msgs)
  BY <1>0 DEF Msgs, States
<1>4. /\ FallsOf(c) => FallsOf(c)'
      /\ PeaksOf(c) => PeaksOf(c)'
  <2>1. CASE statq'[c] = Append(statq[c], "BYE")
    BY <1>0, <1>1, <1>3, <2>1, FallsSend, PeaksSend DEF FallsOf, PeaksOf
  <2>2. CASE statq'[c] = Append(Append(statq[c], "UNINIT"), "BYE")
    <3> DEFINE q == Append(statq[c], "UNINIT")
    <3>1. /\ FallsOf(c) => Falls(view[c], q, "UNINIT")
          /\ PeaksOf(c) => Peaks(view[c], q, "UNINIT")
      BY <1>0, <1>3, FallsSend, PeaksSend DEF FallsOf, PeaksOf
    <3> HIDE DEF q
    <3>2. q \in Seq(Msgs) /\ statq'[c] = Append(q, "BYE")
      BY <1>3, <2>2 DEF q
    <3> QED BY <1>1, <1>3, <3>1, <3>2, FallsSend, PeaksSend DEF FallsOf, PeaksOf
  <2> QED BY <1>2, <2>1, <2>2
<1>5. AwaitedInv(c) => PeaksOf(c)
  BY <1>0, QuietPeaks DEF AwaitedInv, Asked, Starting, QuietOf, PeaksOf
<1>6. AwaitedInv(c) => AwaitedInv(c)'
  BY <1>1, <1>4, <1>5 DEF AwaitedInv
<1>7. Waiting' = Waiting /\ Visited' = Visited /\ cur' = cur /\ batch' = batch
  BY SameSets
<1>8. NoStart(cmdq'[c])
  BY <1>1 DEF NoStart
<1> QED BY <1>0, <1>1, <1>4, <1>6, <1>7, <1>8 DEF ServerInv

\* A step of client d, and what it is to a server.
ClientStep(d) == Handler(d) \/ LoopReturns(d) \/ LoopThrows(d) \/ Crash(d)

LEMMA TakeOwn ==
  ASSUME TypeOK, NEW d \in Clients, NEW o, Take(d, o)
  PROVE  /\ Reachable(d) /\ hpc[d] = "idle" /\ cmdq[d] # <<>> /\ Head(cmdq[d]).op = o
         /\ cmdq'[d] = Tail(cmdq[d])
         /\ \A c \in Clients \ {d} : cmdq'[c] = cmdq[c]
BY DEF Take, TypeOK

LEMMA ReportOwn ==
  ASSUME TypeOK, NEW d \in Clients, NEW s, Report(d, s)
  PROVE  /\ st'[d] = s /\ statq'[d] = Append(statq[d], s)
         /\ \A c \in Clients \ {d} : st'[c] = st[c] /\ statq'[c] = statq[c]
BY DEF Report, TypeOK

LEMMA ThrowOwn ==
  ASSUME TypeOK, NEW d \in Clients, NEW b, Throw(d, b) \/ UserThrow(d)
  PROVE  /\ \/ hpc'[d] = "idle" /\ st'[d] = "ERROR" /\ statq'[d] = Append(statq[d], "ERROR")
            \/ hpc'[d] = "dead" /\ st'[d] = st[d] /\ statq'[d] = statq[d]
         /\ \A c \in Clients \ {d} : st'[c] = st[c] /\ statq'[c] = statq[c] /\ hpc'[c] = hpc[c]
<1>1. ASSUME NEW a, Throw(d, a)
      PROVE  /\ \/ hpc'[d] = "idle" /\ st'[d] = "ERROR" /\ statq'[d] = Append(statq[d], "ERROR")
                \/ hpc'[d] = "dead" /\ st'[d] = st[d] /\ statq'[d] = statq[d]
             /\ \A c \in Clients \ {d} : st'[c] = st[c] /\ statq'[c] = statq[c] /\ hpc'[c] = hpc[c]
  BY <1>1, ReportOwn DEF Throw, Idle, TypeOK
<1> QED BY <1>1 DEF UserThrow

LEMMA ReportOrThrowOwn ==
  ASSUME TypeOK, NEW d \in Clients, NEW s, NEW b,
         (Report(d, s) /\ UNCHANGED hpc) \/ Throw(d, b) \/ UserThrow(d)
  PROVE  /\ \/ hpc'[d] = hpc[d] /\ st'[d] = s /\ statq'[d] = Append(statq[d], s)
            \/ hpc'[d] = "idle" /\ st'[d] = "ERROR" /\ statq'[d] = Append(statq[d], "ERROR")
            \/ hpc'[d] = "dead" /\ st'[d] = st[d] /\ statq'[d] = statq[d]
         /\ \A c \in Clients \ {d} : st'[c] = st[c] /\ statq'[c] = statq[c] /\ hpc'[c] = hpc[c]
<1>1. CASE Report(d, s) /\ UNCHANGED hpc
  BY <1>1, ReportOwn
<1>2. CASE Throw(d, b) \/ UserThrow(d)
  BY <1>2, ThrowOwn
<1> QED BY <1>1, <1>2

LEMMA UnwindOwn ==
  ASSUME TypeOK, NEW d \in Clients, NEW how \in {"stopping", "resetting"}, NEW done,
         BeginUnwind(d, how, done)
  PROVE  /\ \/ hpc'[d] = "idle" /\ st'[d] = done /\ statq'[d] = Append(statq[d], done)
            \/ hpc'[d] = how /\ st'[d] = st[d] /\ statq'[d] = statq[d]
         /\ \A c \in Clients \ {d} : st'[c] = st[c] /\ statq'[c] = statq[c] /\ hpc'[c] = hpc[c]
BY ReportOwn DEF BeginUnwind, Idle, TypeOK

\* What one server's step is not about.
Apart(c) == UNCHANGED <<view[c], conn[c], cmdq[c], statq[c], st[c], hpc[c], run[c]>>

LEMMA ApartStep ==
  ASSUME Inductive, NEW c \in Servers, SameControl, Apart(c)
  PROVE  ServerInv(c)'
<1>1. Waiting' = Waiting /\ Visited' = Visited /\ cur' = cur /\ runN' = runN /\ batch' = batch
  BY SameSets
<1>2. AwaitedInv(c) => AwaitedInv(c)'
  BY <1>1 DEF Apart, AwaitedInv, Asked, Starting, Serving, Reachable, QuietOf, PeaksOf
<1>3. Serving(c) => Serving(c)'
  BY <1>1 DEF Apart, Serving
<1> QED BY <1>1, <1>2, <1>3 DEF Inductive, ServerInv, Apart, FallsOf

LEMMA OthersApart ==
  ASSUME TypeOK, NEW d \in Clients, ClientStep(d), NEW c \in Clients, c # d
  PROVE  Apart(c) /\ SameControl
<1> USE DEF Apart, SameControl, TypeOK
<1>1. CASE OnInitialise(d)
  BY <1>1, TakeOwn DEF OnInitialise
<1>2. CASE OnInitialiseFails(d)
  <2>1. st'[c] = st[c] /\ statq'[c] = statq[c] /\ hpc'[c] = hpc[c]
    BY <1>2, ThrowOwn DEF OnInitialiseFails
  <2>2. cmdq'[c] = cmdq[c]
    BY <1>2, TakeOwn DEF OnInitialiseFails
  <2> QED BY <1>2, <2>1, <2>2 DEF OnInitialiseFails
<1>3. CASE OnInitialiseCrash(d)
  BY <1>3 DEF OnInitialiseCrash, Leave, Idle
<1>4. CASE OnConfigure(d)
  <2>0. (Report(d, "CONF") /\ UNCHANGED hpc) \/ Throw(d, TRUE) \/ UserThrow(d)
    BY <1>4 DEF OnConfigure
  <2>1. st'[c] = st[c] /\ statq'[c] = statq[c] /\ hpc'[c] = hpc[c]
    BY <2>0, <1>4, ReportOrThrowOwn
  <2>2. cmdq'[c] = cmdq[c]
    BY <1>4, TakeOwn DEF OnConfigure
  <2> QED BY <1>4, <2>1, <2>2 DEF OnConfigure
<1>5. CASE OnStartRun(d)
  <2>1. st'[c] = st[c] /\ statq'[c] = statq[c] /\ hpc'[c] = hpc[c]
    BY <1>5, ThrowOwn DEF OnStartRun
  <2>2. cmdq'[c] = cmdq[c] /\ run'[c] = run[c] /\ UNCHANGED <<rcVars, view, conn>>
    BY <1>5, TakeOwn DEF OnStartRun
  <2> QED BY <2>1, <2>2
<1>6. CASE OnStartRunEnds(d)
  BY <1>6, ReportOwn DEF OnStartRunEnds, Idle
<1>7. CASE OnStopRun(d)
  <2>1. st'[c] = st[c] /\ statq'[c] = statq[c] /\ hpc'[c] = hpc[c]
    BY <1>7, UnwindOwn, ThrowOwn DEF OnStopRun
  <2>2. cmdq'[c] = cmdq[c]
    BY <1>7, TakeOwn DEF OnStopRun
  <2> QED BY <1>7, <2>1, <2>2 DEF OnStopRun
<1>8. CASE OnReset(d)
  <2>1. st'[c] = st[c] /\ statq'[c] = statq[c] /\ hpc'[c] = hpc[c]
    BY <1>8, UnwindOwn, ThrowOwn DEF OnReset
  <2>2. cmdq'[c] = cmdq[c]
    BY <1>8, TakeOwn DEF OnReset
  <2> QED BY <1>8, <2>1, <2>2 DEF OnReset
<1>9. CASE UnwindEnds(d)
  BY <1>9, ReportOwn DEF UnwindEnds, Idle
<1>10. CASE UnwindRethrows(d)
  BY <1>10, ThrowOwn DEF UnwindRethrows
<1>11. CASE UnwindTimeout(d)
  BY <1>11, ThrowOwn DEF UnwindTimeout
<1>12. CASE OnStatus(d)
  <2>0. (Report(d, st[d]) /\ UNCHANGED hpc) \/ Throw(d, TRUE) \/ UserThrow(d)
    BY <1>12 DEF OnStatus
  <2>1. st'[c] = st[c] /\ statq'[c] = statq[c] /\ hpc'[c] = hpc[c]
    BY <2>0, <1>12, ReportOrThrowOwn
  <2>2. cmdq'[c] = cmdq[c]
    BY <1>12, TakeOwn DEF OnStatus
  <2> QED BY <1>12, <2>1, <2>2 DEF OnStatus
<1>13. CASE OnTerminate(d)
  BY <1>13 DEF OnTerminate, Leave, Idle
<1>14. CASE LoopReturns(d)
  BY <1>14 DEF LoopReturns, netVars
<1>15. CASE LoopThrows(d)
  BY <1>15 DEF LoopThrows, netVars
<1>16. CASE Crash(d)
  BY <1>16 DEF Crash, Leave, Idle
<1> QED BY <1>1, <1>2, <1>3, <1>4, <1>5, <1>6, <1>7, <1>8, <1>9, <1>10, <1>11, <1>12, <1>13,
           <1>14, <1>15, <1>16 DEF ClientStep, Handler

\* The common form of the handlers that take a command other than START.
LEMMA Answering ==
  ASSUME Inductive, NEW c \in Servers, SameControl, run'[c] = run[c], conn'[c] = conn[c],
         Reachable(c), hpc[c] = "idle", cmdq[c] # <<>>, Head(cmdq[c]).op # "START",
         cmdq'[c] = Tail(cmdq[c]),
         \/ /\ hpc'[c] \in {"idle", "dead", "stopping", "resetting"}
            /\ Head(cmdq[c]).op = "STATUS" => hpc'[c] = "dead"
            /\ st'[c] = st[c] /\ statq'[c] = statq[c]
         \/ \E x \in States : /\ x # R \/ x = st[c]
                              /\ Head(cmdq[c]).op = "STATUS" => x \in {st[c], "ERROR"}
                              /\ hpc'[c] = "idle" /\ st'[c] = x
                              /\ statq'[c] = Append(statq[c], x)
  PROVE  ServerInv(c)'
<1>1. Local(c)
  BY DEF Local, Told
<1>2. Answers(c)
  BY DEF Answers
<1> QED BY <1>1, <1>2, LocalStep

LEMMA OwnStep ==
  ASSUME Inductive, NEW c \in Servers, ClientStep(c)
  PROVE  ServerInv(c)'
<1>0. TypeOK /\ c \in Clients
  BY ServersAreClients DEF Inductive, TypeInv
<1> USE <1>0 DEF SameControl, TypeOK, States
<1>1. CASE OnInitialise(c)
  <2>1. st'[c] = "UNCONF" /\ statq'[c] = Append(Append(statq[c], st[c]), "UNCONF")
    BY <1>1 DEF OnInitialise
  <2>2. /\ Reachable(c) /\ hpc[c] = "idle" /\ cmdq[c] # <<>> /\ Head(cmdq[c]).op = "INIT"
        /\ cmdq'[c] = Tail(cmdq[c])
    BY <1>1, TakeOwn DEF OnInitialise
  <2>3. SameControl /\ run'[c] = run[c] /\ conn'[c] = conn[c] /\ hpc'[c] = hpc[c]
    BY <1>1 DEF OnInitialise
  <2>4. Local(c) /\ Answers(c)
    BY <2>1, <2>2, <2>3 DEF Local, Told, Answers
  <2> QED BY <2>4, LocalStep
<1>2. CASE OnInitialiseFails(c)
  <2>1. \/ hpc'[c] \in {"dead"} /\ st'[c] = st[c] /\ statq'[c] = statq[c]
        \/ \E x \in States : /\ x # R \/ x = st[c]
                             /\ hpc'[c] = "idle" /\ st'[c] = x /\ statq'[c] = Append(statq[c], x)
    BY <1>2, ThrowOwn DEF OnInitialiseFails
  <2>2. /\ Reachable(c) /\ hpc[c] = "idle" /\ cmdq[c] # <<>> /\ Head(cmdq[c]).op = "INIT"
        /\ cmdq'[c] = Tail(cmdq[c])
    BY <1>2, TakeOwn DEF OnInitialiseFails
  <2>3. SameControl /\ run'[c] = run[c] /\ conn'[c] = conn[c]
    BY <1>2 DEF OnInitialiseFails
  <2> QED BY <2>1, <2>2, <2>3, Answering
<1>3. CASE OnInitialiseCrash(c)
  BY <1>3, LeaveStep DEF OnInitialiseCrash, Reachable
<1>4. CASE OnConfigure(c)
  <2>1. hpc[c] = "idle"
    BY <1>4 DEF OnConfigure, Take
  <2>2. (Report(c, "CONF") /\ UNCHANGED hpc) \/ Throw(c, TRUE) \/ UserThrow(c)
    BY <1>4 DEF OnConfigure
  <2>3. \/ hpc'[c] \in {"dead", "idle"} /\ st'[c] = st[c] /\ statq'[c] = statq[c]
        \/ \E x \in States : /\ x # R \/ x = st[c]
                             /\ hpc'[c] = "idle" /\ st'[c] = x /\ statq'[c] = Append(statq[c], x)
    BY <2>2, <2>1, ReportOrThrowOwn
  <2>4. /\ Reachable(c) /\ hpc[c] = "idle" /\ cmdq[c] # <<>> /\ Head(cmdq[c]).op = "CONFIG"
        /\ cmdq'[c] = Tail(cmdq[c])
    BY <1>4, TakeOwn DEF OnConfigure
  <2>5. SameControl /\ run'[c] = run[c] /\ conn'[c] = conn[c]
    BY <1>4 DEF OnConfigure
  <2> QED BY <2>3, <2>4, <2>5, Answering
<1>5. CASE OnStartRun(c)
  BY <1>5, StartStep
<1>6. CASE OnStartRunEnds(c)
  BY <1>6, StartEndsStep
<1>7. CASE OnStopRun(c)
  <2>1. \/ hpc'[c] \in {"dead", "stopping"} /\ st'[c] = st[c] /\ statq'[c] = statq[c]
        \/ \E x \in States : /\ x # R \/ x = st[c]
                             /\ hpc'[c] = "idle" /\ st'[c] = x /\ statq'[c] = Append(statq[c], x)
    BY <1>7, UnwindOwn, ThrowOwn DEF OnStopRun
  <2>2. /\ Reachable(c) /\ hpc[c] = "idle" /\ cmdq[c] # <<>> /\ Head(cmdq[c]).op = "STOP"
        /\ cmdq'[c] = Tail(cmdq[c])
    BY <1>7, TakeOwn DEF OnStopRun
  <2>3. SameControl /\ run'[c] = run[c] /\ conn'[c] = conn[c]
    BY <1>7 DEF OnStopRun
  <2> QED BY <2>1, <2>2, <2>3, Answering
<1>8. CASE OnReset(c)
  <2>1. \/ hpc'[c] \in {"dead", "resetting"} /\ st'[c] = st[c] /\ statq'[c] = statq[c]
        \/ \E x \in States : /\ x # R \/ x = st[c]
                             /\ hpc'[c] = "idle" /\ st'[c] = x /\ statq'[c] = Append(statq[c], x)
    BY <1>8, UnwindOwn, ThrowOwn DEF OnReset
  <2>2. /\ Reachable(c) /\ hpc[c] = "idle" /\ cmdq[c] # <<>> /\ Head(cmdq[c]).op = "RESET"
        /\ cmdq'[c] = Tail(cmdq[c])
    BY <1>8, TakeOwn DEF OnReset
  <2>3. SameControl /\ run'[c] = run[c] /\ conn'[c] = conn[c]
    BY <1>8 DEF OnReset
  <2> QED BY <2>1, <2>2, <2>3, Answering
<1>9. CASE UnwindEnds(c)
  <2>1. Local(c) /\ Unwinds(c)
    BY <1>9, ReportOwn DEF UnwindEnds, Idle, Unwinds, Local, Told
  <2> QED BY <2>1, LocalStep
<1>10. CASE UnwindRethrows(c)
  <2>1. Local(c) /\ Unwinds(c)
    BY <1>10, ThrowOwn DEF UnwindRethrows, Unwinds, Local, Told
  <2> QED BY <2>1, LocalStep
<1>11. CASE UnwindTimeout(c)
  <2>1. Local(c) /\ Unwinds(c)
    BY <1>11, ThrowOwn DEF UnwindTimeout, Unwinds, Local, Told
  <2> QED BY <2>1, LocalStep
<1>12. CASE OnStatus(c)
  <2>1. hpc[c] = "idle"
    BY <1>12 DEF OnStatus, Take
  <2>2. (Report(c, st[c]) /\ UNCHANGED hpc) \/ Throw(c, TRUE) \/ UserThrow(c)
    BY <1>12 DEF OnStatus
  <2>3. st[c] \in States /\ "ERROR" \in States /\ "ERROR" # R
    OBVIOUS
  <2>4. \/ hpc'[c] = "idle" /\ st'[c] = st[c] /\ statq'[c] = Append(statq[c], st[c])
        \/ hpc'[c] = "idle" /\ st'[c] = "ERROR" /\ statq'[c] = Append(statq[c], "ERROR")
        \/ hpc'[c] = "dead" /\ st'[c] = st[c] /\ statq'[c] = statq[c]
    BY <2>2, <2>1, ReportOrThrowOwn
  <2>5. \/ hpc'[c] \in {"dead"} /\ st'[c] = st[c] /\ statq'[c] = statq[c]
        \/ \E x \in States : /\ x # R \/ x = st[c]
                             /\ x \in {st[c], "ERROR"} /\ hpc'[c] = "idle" /\ st'[c] = x /\ statq'[c] = Append(statq[c], x)
    BY <2>3, <2>4
  <2>6. /\ Reachable(c) /\ hpc[c] = "idle" /\ cmdq[c] # <<>> /\ Head(cmdq[c]).op = "STATUS"
        /\ cmdq'[c] = Tail(cmdq[c])
    BY <1>12, TakeOwn DEF OnStatus
  <2>7. SameControl /\ run'[c] = run[c] /\ conn'[c] = conn[c]
    BY <1>12 DEF OnStatus
  <2> QED BY <2>5, <2>6, <2>7, Answering
<1>13. CASE OnTerminate(c)
  BY <1>13, LeaveStep DEF OnTerminate, Reachable
<1>14. CASE LoopReturns(c)
  BY <1>14, LocalStep DEF LoopReturns, netVars, Loops, Local, Told
<1>15. CASE LoopThrows(c)
  <2>1. Loops(c) /\ SameControl /\ run'[c] = run[c] /\ conn'[c] = conn[c] /\ st'[c] = "ERROR"
    BY <1>15 DEF LoopThrows, Loops
  <2>2. statq'[c] = statq[c] \/ Recants(c)
    BY <1>15, <2>1 DEF LoopThrows, Recants
  <2> QED BY <2>1, <2>2, LocalStep DEF Local, Told
<1>16. CASE Crash(c)
  BY <1>16, LeaveStep DEF Crash
<1> QED BY <1>1, <1>2, <1>3, <1>4, <1>5, <1>6, <1>7, <1>8, <1>9, <1>10, <1>11, <1>12, <1>13,
           <1>14, <1>15, <1>16 DEF ClientStep, Handler

LEMMA AwaitedNotWaiting ==
  ASSUME PhaseInv, cur \in Servers
  PROVE  cur \notin Waiting
BY ServersAreClients DEF PhaseInv, Waiting

-----------------------------------------------------------------------------
(* A step of RunControl.                                                   *)

LEMMA Sent ==
  ASSUME TypeOK, NEW S, NEW m, SendCommand(S, m), NEW c \in Clients
  PROVE  IF c \in S /\ Reachable(c) THEN cmdq'[c] = Append(cmdq[c], m) ELSE cmdq'[c] = cmdq[c]
BY DEF SendCommand, TypeOK

\* A step that sends nothing but polls to the server awaited and the servers in
\* the run, and no START to any: RunControl's variables may change as far as
\* they ask no more of the server than before.
LEMMA ControlStep ==
  ASSUME Inductive, NEW c \in Servers, UNCHANGED <<view, conn, statq, hvars>>,
         \/ cmdq'[c] = cmdq[c]
         \/ /\ Reachable(c)
            /\ \E m \in Command : /\ m.op # "START"
                                  /\ c = cur \/ c \in Visited => m.op = "STATUS"
                                  /\ cmdq'[c] = Append(cmdq[c], m),
         cur' = cur, c \in Visited' => c \in Visited,
         c \in Waiting' => view[c] # R,
         runN' = runN \/ (c # cur /\ c \notin Visited'),
         c \in batch' => conn[c] # "absent"
  PROVE  ServerInv(c)'
<1>0. /\ c \in Clients /\ TypeOK /\ ServerInv(c) /\ cmdq[c] \in Seq(Command)
      /\ view'[c] = view[c] /\ conn'[c] = conn[c] /\ run'[c] = run[c]
      /\ statq'[c] = statq[c] /\ st'[c] = st[c] /\ hpc'[c] = hpc[c]
  BY ServersAreClients, Typed DEF Inductive, TypeInv, hvars
<1>1. NoStart(cmdq[c]) => NoStart(cmdq'[c])
  BY <1>0, AppendCommand
<1>2. c \in Visited' => (Serving(c) => Serving(c)')
  BY <1>0, AppendCommand DEF Serving
<1>3. c = cur => (AwaitedInv(c) => AwaitedInv(c)')
  <2> SUFFICES ASSUME c = cur, AwaitedInv(c) PROVE AwaitedInv(c)'
    OBVIOUS
  <2>1. runN' = runN
    OBVIOUS
  <2>2. OnlyStatus(cmdq[c]) => OnlyStatus(cmdq'[c])
    BY <1>0, AppendCommand
  <2>3. StartQueued(cmdq[c], runN) => StartQueued(cmdq'[c], runN)
    BY <1>0, AppendToStart
  <2> QED BY <1>0, <2>1, <2>2, <2>3 DEF AwaitedInv, Asked, Starting, Serving, Reachable, QuietOf, PeaksOf
<1>4. conn[c] # "up" => cmdq'[c] = cmdq[c]
  BY DEF Reachable
<1> QED BY <1>0, <1>1, <1>2, <1>3, <1>4 DEF ServerInv, FallsOf

\* No call is in progress: nobody is waited for.
LEMMA IdleSets ==
  ASSUME PhaseInv, rcpc \notin {"startOthers", "startCollectors"}
  PROVE  cur = NoClient /\ Waiting = {}
BY DEF PhaseInv, Waiting

\* Outside of StartRun any command but START may be sent.
LEMMA OutsideStart ==
  ASSUME Inductive, NEW S, NEW m \in Command, SendCommand(S, m), m.op # "START",
         UNCHANGED <<view, conn, statq, hvars>>, cur' = cur,
         rcpc \notin {"startOthers", "startCollectors", "startProducers"},
         rcpc' \notin {"startOthers", "startCollectors", "startProducers"},
         \A c \in batch' : c \in batch \/ view[c] # "none"
  PROVE  PhaseInv' /\ \A c \in Servers : ServerInv(c)'
<1>1. cur = NoClient /\ Visited = {} /\ Waiting' = {} /\ Visited' = {}
  BY IdleSets DEF Inductive, Visited, Waiting
<1>2. PhaseInv'
  BY <1>1 DEF PhaseInv
<1>3. ASSUME NEW c \in Servers
      PROVE  ServerInv(c)'
  <2>1. c # cur /\ ServerInv(c) /\ TypeOK /\ c \in Clients
    BY <1>1, ServersAreClients DEF Inductive, TypeInv
  <2>2. cmdq'[c] = cmdq[c] \/ (Reachable(c) /\ cmdq'[c] = Append(cmdq[c], m))
    BY <2>1, Sent
  <2>3. c \in batch' => conn[c] # "absent"
    BY <2>1 DEF ServerInv
  <2> QED BY <1>1, <2>1, <2>2, <2>3, ControlStep
<1> QED BY <1>2, <1>3

\* Outside of StartRun nothing at all may be sent.
LEMMA OutsideStartSilent ==
  ASSUME Inductive, UNCHANGED <<view, conn, cmdq, statq, hvars>>, cur' = cur,
         rcpc \notin {"startOthers", "startCollectors", "startProducers"},
         rcpc' \notin {"startOthers", "startCollectors", "startProducers"},
         \A c \in batch' : c \in batch \/ view[c] # "none"
  PROVE  PhaseInv' /\ \A c \in Servers : ServerInv(c)'
<1>1. SendCommand({}, Cmd("STATUS"))
  BY DEF SendCommand, Inductive, TypeInv, TypeOK
<1> QED BY <1>1, OutsideStart, CmdType DEF Cmd

LEMMA UserCallStep ==
  ASSUME Inductive, UserCall
  PROVE  PhaseInv' /\ \A c \in Servers : ServerInv(c)'
<1>0. cur = NoClient /\ Waiting = {} /\ rcpc = "idle"
  BY IdleSets DEF Inductive, UserCall, Initialise, Configure, ConfigureWith, Reset, Terminate, StartRun, StopRun, Call
<1>1. CASE Initialise
  BY <1>0, <1>1, OutsideStartSilent DEF Initialise, Seen, netVars
<1>2. CASE Configure
  BY <1>0, <1>2, OutsideStartSilent DEF Configure, ConfigureWith, Seen, netVars
<1>3. CASE Reset
  BY <1>0, <1>3, OutsideStart, CmdType DEF Reset, Cmd
<1>4. CASE Terminate
  BY <1>0, <1>4, OutsideStart, CmdType DEF Terminate, Cmd
<1>5. CASE StartRun
  <2>1. /\ UNCHANGED <<view, conn, statq, hvars, cmdq, cur, runN>>
        /\ rcpc' = "startOthers" /\ batch' = Seen({"CONF", "STOPPED"})
        /\ todo' = batch' \cap Others
    BY <1>5 DEF StartRun, netVars
  <2>2. PhaseInv'
    BY <1>0, <2>1, ServersAreClients DEF PhaseInv, Servers
  <2>3. Visited' = {}
    BY <1>0, <2>1, ServersAreClients DEF Visited
  <2>4. ASSUME NEW c \in Servers
        PROVE  ServerInv(c)'
    <3>1. c # cur /\ ServerInv(c)
      BY <1>0, ServersAreClients DEF Inductive
    <3>2. c \in batch' => view[c] # "none" /\ view[c] # R
      BY <2>1 DEF Seen
    <3>3. c \in Waiting' => c \in batch'
      BY <2>1 DEF Waiting
    <3> QED BY <2>1, <2>3, <3>1, <3>2, <3>3, ControlStep DEF ServerInv
  <2> QED BY <2>2, <2>4
<1>6. CASE StopRun
  BY <1>0, <1>6, OutsideStart, CmdType DEF StopRun, Cmd, Seen
<1> QED BY <1>1, <1>2, <1>3, <1>4, <1>5, <1>6 DEF UserCall

LEMMA StartServerStep ==
  ASSUME Inductive, NEW c \in Clients, StartServer(c)
  PROVE  PhaseInv' /\ \A d \in Servers : ServerInv(d)'
<1>0. /\ rcpc \in {"startOthers", "startCollectors"} /\ cur = NoClient /\ c \in todo
      /\ SendCommand({c}, Start(runN)) /\ cur' = c /\ todo' = todo \ {c}
      /\ UNCHANGED <<rcpc, batch, runN, view, conn, statq, hvars>>
      /\ TypeOK /\ PhaseInv /\ runN <= MaxRun
  BY DEF StartServer, Inductive, TypeInv
<1>1. c \in Servers \cap batch /\ NoClient \notin Servers
  BY <1>0, ServersAreClients DEF PhaseInv, Servers
<1>2. PhaseInv'
  BY <1>0, <1>1, ClientsAssumption DEF PhaseInv, Servers
<1>3. Visited' = Visited /\ c \notin Visited
  <2>1. todo \cup {cur} = todo' \cup {cur'} \cup {NoClient}
    BY <1>0
  <2>2. \A d \in Servers : d \in todo \cup {cur} <=> d \in todo' \cup {cur'}
    BY <1>1, <2>1
  <2>3. Others \subseteq Servers
    BY DEF Servers
  <2>4. CASE rcpc = "startOthers"
    BY <1>0, <2>2, <2>3, <2>4 DEF Visited
  <2>5. CASE rcpc = "startCollectors"
    BY <1>0, <2>2, <2>5 DEF Visited
  <2> QED BY <1>0, <2>4, <2>5
<1>4. Waiting' \subseteq Waiting /\ c \in Waiting
  BY <1>0 DEF Waiting
<1>5. ServerInv(c)'
  <2>1. ServerInv(c) /\ c # cur /\ cmdq[c] \in Seq(Command) /\ statq[c] \in Seq(Msgs) /\ Start(runN) \in Command
    BY <1>0, <1>1, Typed, StartType, BoundsAssumption DEF Inductive, TypeOK
  <2>2. QuietOf(c) /\ NoStart(cmdq[c]) /\ hpc[c] # "starting"
    BY <1>4, <2>1, FallsQuiet DEF ServerInv, FallsOf, QuietOf
  <2>3. /\ QuietOf(c)' /\ hpc'[c] = hpc[c] /\ runN' = runN /\ st'[c] = st[c]
        /\ view'[c] = view[c] /\ conn'[c] = conn[c] /\ statq'[c] = statq[c]
    BY <1>0, <2>2 DEF QuietOf, hvars
  <2>4. CASE Reachable(c)
    <3>1. cmdq'[c] = Append(cmdq[c], Start(runN))
      BY <1>0, <2>4, Sent
    <3>2. Asked(c)'
      BY <2>1, <2>2, <2>3, <3>1, AppendToStart DEF Asked
    <3> QED BY <1>0, <1>1, <1>3, <1>4, <2>1, <2>3, <2>4, <3>2 DEF ServerInv, AwaitedInv, Reachable
  <2>5. CASE ~Reachable(c)
    <3>1. cmdq'[c] = cmdq[c]
      BY <1>0, <2>5, Sent
    <3>2. ~Reachable(c)'
      BY <2>3, <2>5 DEF Reachable
    <3> QED BY <1>0, <1>1, <1>3, <1>4, <2>1, <2>3, <3>1, <3>2 DEF ServerInv, AwaitedInv
  <2> QED BY <2>4, <2>5
<1>6. ASSUME NEW d \in Servers, d # c
      PROVE  ServerInv(d)'
  <2>1. ServerInv(d) /\ d # cur /\ d # cur' /\ d \in Clients
    BY <1>0, <1>6, <1>1, ServersAreClients DEF Inductive
  <2>2. cmdq'[d] = cmdq[d]
    BY <1>0, <1>6, <2>1, Sent
  <2>3. /\ hpc'[d] = hpc[d] /\ st'[d] = st[d] /\ run'[d] = run[d] /\ view'[d] = view[d]
        /\ conn'[d] = conn[d] /\ statq'[d] = statq[d] /\ runN' = runN /\ batch' = batch
    BY <1>0 DEF hvars
  <2> QED BY <1>3, <1>4, <2>1, <2>2, <2>3 DEF ServerInv, Serving, FallsOf
<1> QED BY <1>2, <1>5, <1>6

LEMMA SeeRunningStep ==
  ASSUME Inductive, SeeRunning
  PROVE  PhaseInv' /\ \A c \in Servers : ServerInv(c)'
<1>0. /\ cur \in Servers /\ view[cur] = R /\ cur' = NoClient
      /\ rcpc \in {"startOthers", "startCollectors"} /\ cur \in batch
      /\ UNCHANGED <<rcpc, batch, todo, runN, view, conn, cmdq, statq, hvars>>
      /\ TypeOK /\ PhaseInv
  BY DEF SeeRunning, Inductive, TypeInv, PhaseInv, netVars
<1>1. PhaseInv'
  BY <1>0, ClientsAssumption DEF PhaseInv, Servers, Clients
<1>2. Visited' \subseteq Visited \cup {cur} /\ Waiting' = Waiting
  BY <1>0 DEF Visited, Waiting
<1>3. (Serving(cur) \/ conn[cur] = "gone") /\ PeaksOf(cur)
  BY <1>0 DEF Inductive, ServerInv, AwaitedInv, Asked, Starting, QuietOf, Quiet
<1>4. FallsOf(cur)
  BY <1>0, <1>3 DEF PeaksOf, FallsOf, Peaks
<1>5. NoStart(cmdq[cur]) /\ hpc[cur] # "starting"
  <2>1. CASE Serving(cur)
    BY <2>1 DEF Serving, OnlyStatus, NoStart
  <2>2. CASE conn[cur] = "gone"
    BY <1>0, <2>2 DEF Inductive, ServerInv, NoStart
  <2> QED BY <1>3, <2>1, <2>2
<1>6. ASSUME NEW c \in Servers
      PROVE  ServerInv(c)'
  <2>1. /\ hpc'[c] = hpc[c] /\ st'[c] = st[c] /\ run'[c] = run[c] /\ view'[c] = view[c]
        /\ conn'[c] = conn[c] /\ statq'[c] = statq[c] /\ cmdq'[c] = cmdq[c] /\ runN' = runN
        /\ batch' = batch /\ c # cur'
    BY <1>0, ServersAreClients DEF hvars
  <2>2. ServerInv(c)
    BY DEF Inductive
  <2>3. NoStart(cmdq[c]) /\ hpc[c] # "starting" /\ FallsOf(c)
    BY <1>4, <1>5, <2>2 DEF ServerInv
  <2>4. c \in Visited' => conn[c] = "gone" \/ Serving(c)
    BY <1>2, <1>3, <2>2 DEF ServerInv
  <2> QED BY <1>2, <2>1, <2>2, <2>3, <2>4 DEF ServerInv, Serving, FallsOf
<1> QED BY <1>1, <1>6

LEMMA OtherCallStep ==
  ASSUME Inductive,
         \/ OthersStarted \/ CollectorsStarted \/ StartLastProducer
         \/ StopProducers \/ StopCollectors \/ StopOthers
         \/ InitialiseEnds \/ SendConfig
         \/ \E c \in Clients : \/ SeeLeftConf(c) \/ SeeStopped(c) \/ NullStatus(c)
                              \/ InitialiseSingleConnection(c) \/ SeeAddress(c)
  PROVE  PhaseInv' /\ \A c \in Servers : ServerInv(c)'
<1>0. TypeOK /\ PhaseInv /\ ClientsAssumption
  BY ClientsAssumption DEF Inductive, TypeInv
<1>1. CASE OthersStarted
  <2>1. /\ rcpc = "startOthers" /\ cur = NoClient /\ todo = {} /\ rcpc' = "startCollectors"
        /\ todo' = batch \cap Collectors
        /\ UNCHANGED <<batch, cur, runN, view, conn, cmdq, statq, hvars>>
    BY <1>1 DEF OthersStarted, netVars
  <2>2. PhaseInv'
    BY <1>0, <2>1, ServersAreClients DEF PhaseInv, Servers
  <2>3. Waiting' \subseteq Waiting /\ Visited' \subseteq Visited
    BY <2>1, ServersAreClients DEF Waiting, Visited, Servers
  <2> QED BY <2>1, <2>2, <2>3, ControlStep DEF Inductive, ServerInv
<1>2. CASE CollectorsStarted
  <2>1. /\ rcpc = "startCollectors" /\ cur = NoClient /\ todo = {} /\ rcpc' = "startProducers"
        /\ SendCommand((batch \cap Producers) \ {LastStart}, Start(runN))
        /\ UNCHANGED <<batch, cur, runN, view, conn, statq, hvars>>
    BY <1>2 DEF CollectorsStarted
  <2>2. PhaseInv'
    BY <1>0, <2>1 DEF PhaseInv
  <2>3. Waiting' \subseteq Waiting /\ Visited' \subseteq Visited
    BY <2>1, ServersAreClients DEF Waiting, Visited
  <2>4. \A c \in Servers : cmdq'[c] = cmdq[c]
    BY <1>0, <2>1, Sent, ServersAreClients DEF ClientsAssumption
  <2> QED BY <2>1, <2>2, <2>3, <2>4, ControlStep DEF Inductive, ServerInv
<1>3. CASE StartLastProducer
  <2>1. /\ rcpc = "startProducers" /\ rcpc' = "idle" /\ batch' = {}
        /\ SendCommand(batch \cap {LastStart}, Start(runN))
        /\ UNCHANGED <<todo, cur, runN, view, conn, statq, hvars>>
    BY <1>3 DEF StartLastProducer
  <2>2. PhaseInv'
    BY <1>0, <2>1 DEF PhaseInv
  <2>3. Waiting' = {} /\ Visited' = {}
    BY <2>1 DEF Waiting, Visited
  <2>4. \A c \in Servers : cmdq'[c] = cmdq[c]
    BY <1>0, <2>1, Sent, ServersAreClients DEF ClientsAssumption
  <2> QED BY <2>1, <2>2, <2>3, <2>4, ControlStep DEF Inductive, ServerInv
<1>4. CASE StopProducers
  BY <1>4, OutsideStart, CmdType DEF StopProducers, Cmd
<1>5. CASE StopCollectors
  BY <1>5, OutsideStart, CmdType DEF StopCollectors, Cmd
<1>6. CASE StopOthers
  BY <1>6, OutsideStart, CmdType DEF StopOthers, Cmd
<1>7. ASSUME NEW d \in Clients, SeeLeftConf(d) \/ SeeStopped(d) \/ NullStatus(d)
      PROVE  PhaseInv' /\ \A c \in Servers : ServerInv(c)'
  <2>1. /\ rcpc \in {"initialise", "configure", "startProducers", "stopFirst", "stopProducers"}
        /\ rcpc' \in {rcpc, "segv"}
        /\ UNCHANGED <<batch, cur, runN, view, conn, cmdq, statq, hvars>>
    BY <1>7 DEF SeeLeftConf, SeeStopped, NullStatus, netVars
  <2>2. PhaseInv'
    BY <1>0, <2>1 DEF PhaseInv
  <2>3. Waiting' = {} /\ Visited' \subseteq Visited
    BY <2>1 DEF Waiting, Visited
  <2> QED BY <2>1, <2>2, <2>3, ControlStep DEF Inductive, ServerInv
<1>8. ASSUME NEW d \in Clients, InitialiseSingleConnection(d)
      PROVE  PhaseInv' /\ \A c \in Servers : ServerInv(c)'
  BY <1>8, OutsideStart, CmdType DEF InitialiseSingleConnection, Cmd
<1>9. CASE InitialiseEnds
  BY <1>9, OutsideStartSilent DEF InitialiseEnds, netVars
<1>10. ASSUME NEW d \in Clients, SeeAddress(d)
       PROVE  PhaseInv' /\ \A c \in Servers : ServerInv(c)'
  BY <1>10, OutsideStartSilent DEF SeeAddress, netVars
<1>11. CASE SendConfig
  <2> DEFINE m == [Cmd("CONFIG") EXCEPT !.addr = addrs]
  <2>1. m \in Command /\ m.op # "START"
    BY <1>0, ConfigType DEF Cmd, TypeOK
  <2>2. /\ SendCommand(batch, m) /\ cur' = cur /\ batch' = {}
        /\ rcpc = "configure" /\ rcpc' = "idle"
        /\ UNCHANGED <<view, conn, statq, hvars>>
    BY <1>11 DEF SendConfig
  <2> HIDE DEF m
  <2> QED BY <2>1, <2>2, OutsideStart
<1> QED BY <1>1, <1>2, <1>3, <1>4, <1>5, <1>6, <1>7, <1>8, <1>9, <1>10, <1>11

LEMMA NetworkStep ==
  ASSUME Inductive, PollStatus \/ \E d \in Clients : Connect(d) \/ ReceiveStatus(d)
  PROVE  PhaseInv' /\ \A c \in Servers : ServerInv(c)'
<1>0. TypeOK /\ PhaseInv
  BY DEF Inductive, TypeInv
<1>1. CASE PollStatus
  <2>1. /\ UNCHANGED <<rcVars, view, conn, statq, hvars>> /\ \E S : SendCommand(S, Cmd("STATUS"))
    BY <1>1 DEF PollStatus
  <2>2. PhaseInv'
    BY <1>0, <2>1 DEF PhaseInv, rcVars
  <2>3. Waiting' = Waiting /\ Visited' = Visited /\ cur' = cur /\ runN' = runN /\ batch' = batch
    BY <2>1, SameSets DEF SameControl
  <2>4. Cmd("STATUS") \in Command /\ Cmd("STATUS").op = "STATUS"
    BY CmdType DEF Cmd
  <2>5. \A c \in Servers : \/ cmdq'[c] = cmdq[c]
                           \/ Reachable(c) /\ cmdq'[c] = Append(cmdq[c], Cmd("STATUS"))
    BY <1>0, <2>1, Sent, ServersAreClients
  <2> QED BY <2>1, <2>2, <2>3, <2>4, <2>5, ControlStep DEF Inductive, ServerInv
<1>2. ASSUME NEW d \in Clients, Connect(d)
      PROVE  PhaseInv' /\ \A c \in Servers : ServerInv(c)'
  <2>1. /\ UNCHANGED <<rcVars, cmdq, statq, hvars>> /\ conn[d] = "absent"
        /\ conn'[d] \in {"up", "gone"} /\ view'[d] \in {"UNINIT", "none"}
        /\ \A c \in Clients \ {d} : conn'[c] = conn[c] /\ view'[c] = view[c]
    BY <1>0, <1>2 DEF Connect, netVars, TypeOK
  <2>2. PhaseInv'
    BY <1>0, <2>1 DEF PhaseInv, rcVars
  <2>3. Waiting' = Waiting /\ Visited' = Visited /\ cur' = cur /\ runN' = runN /\ batch' = batch
    BY <2>1 DEF rcVars, Waiting, Visited
  <2>4. ASSUME NEW c \in Servers
        PROVE  ServerInv(c)'
    <3>1. /\ hpc'[c] = hpc[c] /\ st'[c] = st[c] /\ run'[c] = run[c]
          /\ statq'[c] = statq[c] /\ cmdq'[c] = cmdq[c] /\ c \in Clients /\ ServerInv(c)
      BY <2>1, ServersAreClients DEF hvars, Inductive
    <3>2. CASE c # d
      <4>1. conn'[c] = conn[c] /\ view'[c] = view[c]
        BY <2>1, <3>1, <3>2
      <4>2. AwaitedInv(c) => AwaitedInv(c)'
        BY <2>3, <3>1, <4>1 DEF AwaitedInv, Asked, Starting, Serving, Reachable, QuietOf, PeaksOf
      <4> QED BY <2>3, <3>1, <4>1, <4>2 DEF ServerInv, Serving, FallsOf
    <3>3. CASE c = d
      <4>1. /\ statq[c] = <<>> /\ cmdq[c] = <<>> /\ hpc[c] = "idle" /\ st[c] # R
            /\ c \notin batch /\ c # cur
        BY <1>0, <2>1, <3>1, <3>3, ServersAreClients DEF ServerInv, PhaseInv
      <4>2. c \notin Visited
        BY <4>1 DEF Visited
      <4>3. FallsOf(c)'
        BY <2>1, <3>1, <3>3, <4>1 DEF FallsOf, Falls, Quiet
      <4>4. NoStart(cmdq'[c])
        BY <3>1, <4>1 DEF NoStart
      <4> QED BY <2>1, <2>3, <3>1, <3>3, <4>1, <4>2, <4>3, <4>4 DEF ServerInv
    <3> QED BY <3>2, <3>3
  <2> QED BY <2>2, <2>4
<1>3. ASSUME NEW d \in Clients, ReceiveStatus(d)
      PROVE  PhaseInv' /\ \A c \in Servers : ServerInv(c)'
  <2>1. /\ UNCHANGED <<rcVars, conn, cmdq, hvars>> /\ statq[d] # <<>>
        /\ view'[d] = Seeing(Head(statq[d])) /\ statq'[d] = Tail(statq[d])
        /\ \A c \in Clients \ {d} : statq'[c] = statq[c] /\ view'[c] = view[c]
    BY <1>0, <1>3 DEF ReceiveStatus, TypeOK, Seeing
  <2>2. PhaseInv'
    BY <1>0, <2>1 DEF PhaseInv, rcVars
  <2>3. Waiting' = Waiting /\ Visited' = Visited /\ cur' = cur /\ runN' = runN /\ batch' = batch
    BY <2>1 DEF rcVars, Waiting, Visited
  <2>4. ASSUME NEW c \in Servers
        PROVE  ServerInv(c)'
    <3>1. /\ hpc'[c] = hpc[c] /\ st'[c] = st[c] /\ run'[c] = run[c]
          /\ conn'[c] = conn[c] /\ cmdq'[c] = cmdq[c] /\ c \in Clients /\ ServerInv(c)
      BY <2>1, ServersAreClients DEF hvars, Inductive
    <3>2. CASE c # d
      <4>1. statq'[c] = statq[c] /\ view'[c] = view[c]
        BY <2>1, <3>1, <3>2
      <4>2. AwaitedInv(c) => AwaitedInv(c)'
        BY <2>3, <3>1, <4>1 DEF AwaitedInv, Asked, Starting, Serving, Reachable, QuietOf, PeaksOf
      <4> QED BY <2>3, <3>1, <4>1, <4>2 DEF ServerInv, Serving, FallsOf
    <3>3. CASE c = d
      <4>1. /\ QuietOf(c) => QuietOf(c)'
            /\ FallsOf(c) => FallsOf(c)'
            /\ PeaksOf(c) => PeaksOf(c)'
        BY <1>0, <2>1, <3>1, <3>3, Typed, QuietReceive, FallsReceive, PeaksReceive
           DEF QuietOf, FallsOf, PeaksOf
      <4>2. AwaitedInv(c) => AwaitedInv(c)'
        BY <2>3, <3>1, <4>1 DEF AwaitedInv, Asked, Starting, Serving, Reachable
      <4>3. conn[c] # "absent"
        BY <2>1, <3>1, <3>3 DEF ServerInv
      <4>4. c \in Waiting => view'[c] # R
        <5> SUFFICES ASSUME c \in Waiting PROVE view'[c] # R
          OBVIOUS
        <5>1. c # cur /\ view[c] # R
          BY <1>0, <3>1, ServersAreClients, AwaitedNotWaiting DEF ServerInv
        <5>2. QuietOf(c)
          BY <1>0, <3>1, <5>1, FallsQuiet, Typed DEF ServerInv, QuietOf, FallsOf
        <5> QED BY <4>1, <5>2 DEF QuietOf, Quiet
      <4> QED BY <2>3, <3>1, <4>1, <4>2, <4>3, <4>4 DEF ServerInv, Serving
    <3> QED BY <3>2, <3>3
  <2> QED BY <2>2, <2>4
<1> QED BY <1>1, <1>2, <1>3

-----------------------------------------------------------------------------
LEMMA InitInductive == Init => Inductive
<1> SUFFICES ASSUME Init PROVE Inductive
  OBVIOUS
<1>1. TypeInv
  BY InitType
<1>2. PhaseInv
  BY DEF Init, PhaseInv
<1>3. Waiting = {} /\ Visited = {}
  BY DEF Init, Waiting, Visited
<1>4. ASSUME NEW c \in Servers
      PROVE  ServerInv(c)
  <2>1. FallsOf(c) /\ NoStart(cmdq[c])
    BY ServersAreClients DEF Init, FallsOf, Falls, Quiet, NoStart
  <2> QED BY <1>3, <2>1, ServersAreClients DEF Init, ServerInv
<1> QED BY <1>1, <1>2, <1>4 DEF Inductive

LEMMA StepInductive == Inductive /\ [Next]_vars => Inductive'
<1> SUFFICES ASSUME Inductive, [Next]_vars PROVE Inductive'
  OBVIOUS
<1>1. TypeInv' /\ TypeOK /\ PhaseInv
  BY StepType DEF Inductive, TypeInv
<1>2. CASE UserCall
  BY <1>1, <1>2, UserCallStep DEF Inductive
<1>3. CASE CallStep
  <2>1. PhaseInv' /\ \A c \in Servers : ServerInv(c)'
    BY <1>3, StartServerStep, SeeRunningStep, OtherCallStep DEF CallStep
  <2> QED BY <1>1, <2>1 DEF Inductive
<1>4. CASE PollStatus \/ \E d \in Clients : Connect(d) \/ ReceiveStatus(d)
  BY <1>1, <1>4, NetworkStep DEF Inductive
<1>5. ASSUME NEW d \in Clients, ClientStep(d)
      PROVE  Inductive'
  <2>1. SameControl
    <3>1. CASE Handler(d)
      BY <3>1 DEF Handler, SameControl, OnInitialise, OnInitialiseFails, OnInitialiseCrash,
                  OnConfigure, OnStartRun, OnStartRunEnds, OnStopRun, OnReset, UnwindEnds,
                  UnwindRethrows, UnwindTimeout, OnStatus, OnTerminate
    <3>2. CASE LoopReturns(d) \/ LoopThrows(d) \/ Crash(d)
      BY <3>2 DEF LoopReturns, LoopThrows, Crash, SameControl
    <3> QED BY <1>5, <3>1, <3>2 DEF ClientStep
  <2>2. PhaseInv'
    BY <1>1, <2>1 DEF SameControl, rcVars, PhaseInv
  <2>3. ASSUME NEW c \in Servers
        PROVE  ServerInv(c)'
    BY <1>1, <1>5, OwnStep, OthersApart, ApartStep, ServersAreClients
  <2> QED BY <1>1, <2>2, <2>3 DEF Inductive
<1>6. CASE UNCHANGED vars
  <2>1. SameControl /\ \A c \in Servers : Apart(c)
    BY <1>6 DEF vars, netVars, hvars, SameControl, Apart
  <2>2. PhaseInv'
    BY <1>1, <2>1 DEF SameControl, rcVars, PhaseInv
  <2> QED BY <1>1, <2>1, <2>2, ApartStep DEF Inductive
<1> QED BY <1>2, <1>3, <1>4, <1>5, <1>6 DEF Next, Internal, ClientStep

\* The invariant behind the next two theorems holds in every behaviour.
THEOREM InductiveInvariant == Spec => []Inductive
BY InitInductive, StepInductive, PTL DEF Spec

\* StartRun turns to the producers only when every monitor and collector it chose
\* is in this run or has left, for any number of clients and any fault
\* (RunControl.cc:217-252).
THEOREM ServersAreUpFirst == Spec => []ServersUpFirst
<1>1. Inductive => ServersUpFirst
  <2> SUFFICES ASSUME Inductive, rcpc = "startProducers", NEW s \in batch \cap Servers, conn[s] # "gone"
               PROVE  run[s] = runN /\ st[s] \in {"RUNNING", "ERROR"} /\ ~StartPending(s)
    BY DEF ServersUpFirst
  <2>1. Serving(s)
    BY DEF Inductive, ServerInv, Visited
  <2> QED BY <2>1 DEF Serving, StartPending, OnlyStatus
<1> QED BY <1>1, InductiveInvariant, PTL

\* StopRun's choice never overlooks a server that runs or is about to, for any
\* number of clients and any fault (RunControl.cc:310-320).
THEOREM NoServerIsOverlooked == Spec => []NoServerOverlooked
<1>1. Inductive => NoServerOverlooked
  <2> SUFFICES ASSUME Inductive, NEW s \in Servers, s # cur, view[s] # "RUNNING"
               PROVE  st[s] # "RUNNING" /\ ~StartPending(s)
    BY DEF NoServerOverlooked
  <2>1. FallsOf(s) /\ NoStart(cmdq[s]) /\ hpc[s] # "starting"
    BY DEF Inductive, ServerInv
  <2> QED BY <2>1 DEF FallsOf, Falls, Quiet, NoStart, StartPending
<1> QED BY <1>1, InductiveInvariant, PTL
-----------------------------------------------------------------------------
(* Departures.                                                             *)

\* What a step other than a departure does to the statuses of c: none is sent, or
\* states are, by a client that is connected.
Talks(c) ==
  \/ statq'[c] = statq[c]
  \/ conn[c] = "up" /\ \E x \in States : statq'[c] = Append(statq[c], x)
  \/ conn[c] = "up" /\ \E x, y \in States : statq'[c] = Append(Append(statq[c], x), y)
  \/ Recants(c)

\* The last word: the goodbye, after another status or none.
Parts(c) ==
  /\ conn[c] = "up" /\ conn'[c] = "gone"
  /\ \/ statq'[c] = Append(statq[c], "BYE")
     \/ \E x \in States : statq'[c] = Append(Append(statq[c], x), "BYE")

LEMMA AppendPart ==
  ASSUME NEW q \in Seq(Msgs), \A i \in DOMAIN q : q[i] # "BYE", NEW x \in Msgs
  PROVE  /\ Append(q, x) \in Seq(Msgs)
         /\ x # "BYE" => \A i \in DOMAIN Append(q, x) : Append(q, x)[i] # "BYE"
         /\ \A i \in DOMAIN Append(q, x) :
              Append(q, x)[i] = "BYE" => i = Len(Append(q, x))
         /\ Append(q, x) # <<>>
OBVIOUS

LEMMA SpeaksPart ==
  ASSUME Parting, NEW c \in Clients, conn'[c] = conn[c], view'[c] = view[c],
         c \in batch' => c \in batch \/ view[c] # "none", Talks(c)
  PROVE  PartingInv(c)'
<1>0. PartingInv(c) /\ statq[c] \in Seq(Msgs) /\ States \subseteq Msgs
  BY Typed DEF Parting, TypeInv, Msgs
<1>1. conn'[c] = "absent" => statq'[c] = <<>> /\ view'[c] = "none" /\ c \notin batch'
  BY <1>0 DEF PartingInv, Talks, Recants
<1>2. conn'[c] = "up" => view'[c] # "none"
  BY <1>0 DEF PartingInv
<1>3. CASE statq'[c] = statq[c]
  BY <1>0, <1>1, <1>2, <1>3 DEF PartingInv
<1>4. CASE Recants(c)
  <2>1. /\ DOMAIN statq'[c] = DOMAIN statq[c] /\ "ERROR" # "BYE"
        /\ \A i \in DOMAIN statq[c] :
             statq'[c][i] = IF i = Len(statq[c]) THEN "ERROR" ELSE statq[c][i]
    BY <1>0, <1>4, LastOverwritten DEF Recants, States
  <2>2. \A i \in DOMAIN statq'[c] : statq'[c][i] # "BYE"
    BY <1>0, <2>1 DEF PartingInv
  <2>3. view'[c] # "none" /\ conn'[c] # "absent"
    BY <1>0, <1>4 DEF PartingInv, Recants
  <2> QED BY <1>0, <2>2, <2>3 DEF PartingInv
<1>5. CASE conn[c] = "up" /\ ~Recants(c)
  <2>1. \A i \in DOMAIN statq[c] : statq[c][i] # "BYE"
    BY <1>0, <1>5 DEF PartingInv
  <2>2. "BYE" \notin States
    BY DEF States
  <2>3. \A i \in DOMAIN statq'[c] : statq'[c][i] # "BYE"
    <3>1. CASE statq'[c] = statq[c]
      BY <2>1, <3>1
    <3>2. ASSUME NEW x \in States, statq'[c] = Append(statq[c], x)
          PROVE  \A i \in DOMAIN statq'[c] : statq'[c][i] # "BYE"
      BY <1>0, <2>1, <2>2, <3>2, AppendPart
    <3>3. ASSUME NEW x \in States, NEW y \in States,
                 statq'[c] = Append(Append(statq[c], x), y)
          PROVE  \A i \in DOMAIN statq'[c] : statq'[c][i] # "BYE"
      <4>1. /\ Append(statq[c], x) \in Seq(Msgs)
            /\ \A i \in DOMAIN Append(statq[c], x) : Append(statq[c], x)[i] # "BYE"
        BY <1>0, <2>1, <2>2, AppendPart
      <4> QED BY <1>0, <2>2, <3>3, <4>1, AppendPart
    <3> QED BY <1>5, <3>1, <3>2, <3>3 DEF Talks
  <2> QED BY <1>1, <1>2, <1>5, <2>3 DEF PartingInv
<1> QED BY <1>3, <1>4, <1>5 DEF Talks

LEMMA PartsPart ==
  ASSUME Parting, NEW c \in Clients, view'[c] = view[c], Parts(c)
  PROVE  PartingInv(c)'
<1>0. PartingInv(c) /\ statq[c] \in Seq(Msgs) /\ States \subseteq Msgs /\ "BYE" \in Msgs
  BY Typed DEF Parting, TypeInv, Msgs
<1>1. conn[c] = "up" /\ conn'[c] = "gone" /\ view'[c] # "none"
  BY <1>0 DEF PartingInv, Parts
<1>2. \A i \in DOMAIN statq[c] : statq[c][i] # "BYE"
  BY <1>0, <1>1 DEF PartingInv
<1>3. "BYE" \notin States
  BY DEF States
<1>4. \A i \in DOMAIN statq'[c] : statq'[c][i] = "BYE" => i = Len(statq'[c])
  <2>1. CASE statq'[c] = Append(statq[c], "BYE")
    BY <1>0, <1>2, <2>1, AppendPart
  <2>2. ASSUME NEW x \in States, statq'[c] = Append(Append(statq[c], x), "BYE")
        PROVE  \A i \in DOMAIN statq'[c] : statq'[c][i] = "BYE" => i = Len(statq'[c])
    <3>1. /\ Append(statq[c], x) \in Seq(Msgs)
          /\ \A i \in DOMAIN Append(statq[c], x) : Append(statq[c], x)[i] # "BYE"
      BY <1>0, <1>2, <1>3, AppendPart
    <3> QED BY <1>0, <2>2, <3>1, AppendPart
  <2> QED BY <2>1, <2>2 DEF Parts
<1> QED BY <1>1, <1>4 DEF PartingInv

\* RunControl takes a status, or a goodbye.
LEMMA ReceivePart ==
  ASSUME Parting, NEW d \in Clients, ReceiveStatus(d), NEW c \in Clients
  PROVE  PartingInv(c)'
<1>0. TypeOK /\ PartingInv(c) /\ statq[c] \in Seq(Msgs)
  BY Typed DEF Parting, TypeInv
<1>1. conn' = conn /\ batch' = batch /\ statq[d] # <<>>
  BY DEF ReceiveStatus, rcVars
<1>2. CASE c # d
  BY <1>0, <1>1, <1>2, SpeaksPart DEF ReceiveStatus, TypeOK, Talks
<1>3. CASE c = d
  <2>1. /\ view'[c] = IF Head(statq[c]) = "BYE" THEN "none" ELSE Head(statq[c])
        /\ statq'[c] = Tail(statq[c])
    BY <1>0, <1>3 DEF ReceiveStatus, TypeOK
  <2>2. /\ Head(statq[c]) = statq[c][1] /\ 1 \in DOMAIN statq[c]
        /\ Head(statq[c]) \in Msgs /\ "none" \notin Msgs
    BY <1>0, <1>1, <1>3 DEF Msgs, States
  <2>3. \A i \in DOMAIN statq'[c] :
          statq'[c][i] = "BYE" => i = Len(statq'[c]) /\ conn'[c] = "gone"
    BY <1>0, <1>1, <1>3, <2>1, TailOf DEF PartingInv
  <2>4. conn'[c] # "absent"
    BY <1>0, <1>1, <1>3 DEF PartingInv
  <2>5. CASE Head(statq[c]) = "BYE"
    <3>1. Len(statq[c]) = 1 /\ conn[c] = "gone"
      BY <1>0, <2>2, <2>5 DEF PartingInv
    <3>2. Tail(statq[c]) \in Seq(Msgs) /\ Len(Tail(statq[c])) = 0
      BY <1>0, <1>1, <1>3, <3>1
    <3>3. statq'[c] = <<>>
      BY <2>1, <3>2, TailOf
    <3> QED BY <1>1, <2>3, <2>4, <3>1, <3>3 DEF PartingInv
  <2>6. CASE Head(statq[c]) # "BYE"
    BY <2>1, <2>2, <2>3, <2>4, <2>6 DEF PartingInv
  <2> QED BY <2>5, <2>6
<1> QED BY <1>2, <1>3

LEMMA ConnectPart ==
  ASSUME Parting, NEW d \in Clients, Connect(d), NEW c \in Clients
  PROVE  PartingInv(c)'
<1>0. TypeOK /\ PartingInv(c)
  BY DEF Parting, TypeInv
<1>1. CASE c # d
  BY <1>0, <1>1, SpeaksPart DEF Connect, TypeOK, Talks, rcVars, netVars
<1>2. CASE c = d
  BY <1>0, <1>2 DEF Connect, TypeOK, PartingInv, rcVars, netVars
<1> QED BY <1>1, <1>2

\* A call of the user's thread sends no status, and chooses among those on record.
LEMMA ControlPart ==
  ASSUME Parting, UserCall \/ CallStep \/ PollStatus, NEW c \in Clients
  PROVE  PartingInv(c)'
<1>1. UNCHANGED <<view, conn, statq>>
  <2>1. CASE UserCall
    BY <2>1 DEF UserCall, Initialise, Configure, ConfigureWith, Reset, Terminate, StartRun,
                StopRun, netVars
  <2>2. CASE CallStep
    BY <2>2 DEF CallStep, SeeRunning, OthersStarted, CollectorsStarted, StartLastProducer,
                StopProducers, StopCollectors, StopOthers, StartServer, SeeLeftConf,
                SeeStopped, NullStatus, InitialiseSingleConnection, InitialiseEnds,
                SeeAddress, SendConfig, netVars
  <2>3. CASE PollStatus
    BY <2>3 DEF PollStatus
  <2> QED BY <2>1, <2>2, <2>3
<1>2. c \in batch' => c \in batch \/ view[c] # "none"
  <2>1. CASE UserCall
    BY <2>1 DEF UserCall, Initialise, Configure, ConfigureWith, Reset, Terminate, StartRun,
                StopRun, Seen
  <2>2. CASE CallStep
    BY <2>2 DEF CallStep, SeeRunning, OthersStarted, CollectorsStarted, StartLastProducer,
                StopProducers, StopCollectors, StopOthers, StartServer, SeeLeftConf,
                SeeStopped, NullStatus, InitialiseSingleConnection, InitialiseEnds,
                SeeAddress, SendConfig
  <2>3. CASE PollStatus
    BY <2>3 DEF PollStatus, rcVars
  <2> QED BY <2>1, <2>2, <2>3
<1> QED BY <1>1, <1>2, SpeaksPart DEF Talks

LEMMA LeavePart ==
  ASSUME TypeOK, NEW d \in Clients, conn[d] = "up", NEW q, Leave(d, q),
         q = statq[d] \/ \E x \in States : q = Append(statq[d], x)
  PROVE  /\ Parts(d)
         /\ \A c \in Clients \ {d} : statq'[c] = statq[c] /\ conn'[c] = conn[c]
<1>1. statq'[d] = Append(q, "BYE") /\ conn'[d] = "gone"
  BY DEF Leave, TypeOK
<1> QED BY <1>1 DEF Leave, TypeOK, Parts

\* A client speaks while it is connected, and for itself alone.
LEMMA ClientPart ==
  ASSUME Parting, NEW d \in Clients, ClientStep(d)
  PROVE  /\ Parts(d) \/ (Talks(d) /\ conn'[d] = conn[d])
         /\ \A c \in Clients \ {d} : statq'[c] = statq[c] /\ conn'[c] = conn[c]
<1>0. TypeOK
  BY DEF Parting, TypeInv
<1>t. st[d] \in States /\ {"ERROR", "UNINIT", "UNCONF", "CONF", "STOPPED", "RUNNING"} \subseteq States
  BY <1>0 DEF TypeOK, States
<1> USE <1>0 DEF Talks
<1>1. CASE OnInitialise(d)
  BY <1>1, <1>t, TakeOwn DEF OnInitialise, Reachable, TypeOK
<1>2. CASE OnInitialiseFails(d)
  BY <1>2, <1>t, TakeOwn, ThrowOwn DEF OnInitialiseFails, Reachable
<1>3. CASE OnInitialiseCrash(d)
  BY <1>3, LeavePart DEF OnInitialiseCrash, Reachable
<1>4. CASE OnConfigure(d)
  <2>1. conn[d] = "up" /\ conn' = conn
    BY <1>4, TakeOwn DEF OnConfigure, Reachable
  <2>2. (Report(d, "CONF") /\ UNCHANGED hpc) \/ Throw(d, TRUE) \/ UserThrow(d)
    BY <1>4 DEF OnConfigure
  <2> QED BY <1>t, <2>1, <2>2, ReportOrThrowOwn
<1>5. CASE OnStartRun(d)
  BY <1>5, <1>t, TakeOwn, ThrowOwn DEF OnStartRun, Reachable
<1>6. CASE OnStartRunEnds(d)
  BY <1>6, <1>t, ReportOwn DEF OnStartRunEnds
<1>7. CASE OnStopRun(d)
  <2>1. conn[d] = "up" /\ conn' = conn
    BY <1>7, TakeOwn DEF OnStopRun, Reachable
  <2>2. BeginUnwind(d, "stopping", "STOPPED") \/ Throw(d, TRUE) \/ UserThrow(d)
    BY <1>7 DEF OnStopRun
  <2>3. CASE BeginUnwind(d, "stopping", "STOPPED")
    BY <1>t, <2>1, <2>3, UnwindOwn
  <2>4. CASE Throw(d, TRUE) \/ UserThrow(d)
    BY <1>t, <2>1, <2>4, ThrowOwn
  <2> QED BY <2>2, <2>3, <2>4
<1>8. CASE OnReset(d)
  BY <1>8, <1>t, TakeOwn, ThrowOwn, UnwindOwn DEF OnReset, Reachable
<1>9. CASE UnwindEnds(d)
  BY <1>9, <1>t, ReportOwn DEF UnwindEnds
<1>10. CASE UnwindRethrows(d)
  BY <1>10, <1>t, ThrowOwn DEF UnwindRethrows
<1>11. CASE UnwindTimeout(d)
  BY <1>11, <1>t, ThrowOwn DEF UnwindTimeout
<1>12. CASE OnStatus(d)
  <2>1. conn[d] = "up" /\ conn' = conn
    BY <1>12, TakeOwn DEF OnStatus, Reachable
  <2>2. (Report(d, st[d]) /\ UNCHANGED hpc) \/ UserThrow(d)
    BY <1>12 DEF OnStatus
  <2> QED BY <1>t, <2>1, <2>2, ReportOrThrowOwn
<1>13. CASE OnTerminate(d)
  BY <1>13, <1>t, LeavePart DEF OnTerminate, Reachable
<1>14. CASE LoopReturns(d) \/ LoopThrows(d)
  <2>1. CASE LoopReturns(d)
    BY <2>1 DEF LoopReturns, netVars
  <2>2. CASE LoopThrows(d)
    BY <2>2 DEF LoopThrows, Recants, TypeOK
  <2> QED BY <1>14, <2>1, <2>2
<1>15. CASE Crash(d)
  BY <1>15, LeavePart DEF Crash
<1> QED BY <1>1, <1>2, <1>3, <1>4, <1>5, <1>6, <1>7, <1>8, <1>9, <1>10, <1>11, <1>12, <1>13,
           <1>14, <1>15 DEF ClientStep, Handler

LEMMA InitParting == Init => Parting
BY InitType DEF Init, Parting, PartingInv

LEMMA StepParting == Parting /\ [Next]_vars => Parting'
<1> SUFFICES ASSUME Parting, [Next]_vars, NEW c \in Clients PROVE PartingInv(c)'
  BY StepType DEF Parting
<1>1. CASE UserCall \/ CallStep \/ PollStatus
  BY <1>1, ControlPart
<1>2. ASSUME NEW d \in Clients, Connect(d) \/ ReceiveStatus(d)
      PROVE  PartingInv(c)'
  BY <1>2, ConnectPart, ReceivePart
<1>3. ASSUME NEW d \in Clients, ClientStep(d)
      PROVE  PartingInv(c)'
  <2>1. view' = view /\ batch' = batch
    <3>1. CASE Handler(d)
      BY <3>1 DEF Handler, rcVars, OnInitialise, OnInitialiseFails, OnInitialiseCrash,
                  OnConfigure, OnStartRun, OnStartRunEnds, OnStopRun, OnReset, UnwindEnds,
                  UnwindRethrows, UnwindTimeout, OnStatus, OnTerminate
    <3>2. CASE LoopReturns(d) \/ LoopThrows(d) \/ Crash(d)
      BY <3>2 DEF LoopReturns, LoopThrows, Crash, rcVars
    <3> QED BY <1>3, <3>1, <3>2 DEF ClientStep
  <2>2. CASE c = d /\ Parts(d)
    BY <2>1, <2>2, PartsPart
  <2>3. CASE c # d \/ (Talks(d) /\ conn'[d] = conn[d])
    <3>1. Talks(c) /\ conn'[c] = conn[c]
      BY <1>3, <2>3, ClientPart DEF Talks
    <3> QED BY <2>1, <3>1, SpeaksPart
  <2> QED BY <1>3, <2>2, <2>3, ClientPart
<1>4. CASE UNCHANGED vars
  BY <1>4, SpeaksPart DEF vars, rcVars, netVars, Talks
<1> QED BY <1>1, <1>2, <1>3, <1>4 DEF Next, Internal, ClientStep

\* No status finds its connection off the record, and only a client that has left
\* leaves a null status to a call of StartRun or StopRun, for any number of clients
\* and any fault (RunControl.cc:270, 496).
THEOREM StatusesAreOnRecord == Spec => []OnRecord
<1>1. Parting => OnRecord
  BY DEF Parting, PartingInv, OnRecord, TypeInv, TypeOK
<1> QED BY <1>1, InitParting, StepParting, PTL DEF Spec
=============================================================================
