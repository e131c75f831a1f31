----------------------- MODULE ALPIDETelescope_proofs -----------------------
(***************************************************************************)
(* For any planes, depth of the boards and numbers of runs and triggers:   *)
(* a plane that may be started has a busy board with nothing in it, and    *)
(* what the planes send implements TriggeredRuns.                          *)
(***************************************************************************)
EXTENDS ALPIDETelescopeInv, SequenceTheorems, TLAPS

-----------------------------------------------------------------------------
(***************************************************************************)
(* Types, in parts that change together.                                   *)
(***************************************************************************)

TypeControl ==
  /\ rc \in {"idle", "start", "stop", "stopall"}
  /\ listening \in BOOLEAN
  /\ chosen \subseteq Planes

TypeThreads ==
  /\ st \in [Planes -> {"gone", "uninit", "unconf", "conf", "running", "stopped", "error"}]
  /\ known \in [Planes -> BOOLEAN]
  /\ cmd \in [Planes -> {"none", "INIT", "CONFIG", "START", "STOP", "RESET"}]
  /\ hpc \in [Planes -> {"none", "config", "armed", "launched", "stop", "reset",
                         "stopping", "resetting"}]

TypeLoops ==
  /\ loop \in [Planes -> {"none", "look", "read", "flush", "drain", "eore", "done", "failed"}]
  /\ running \in [Planes -> BOOLEAN]

TypeBoards ==
  /\ forced \in [Planes -> BOOLEAN]
  /\ fifo \in [Planes -> Seq(Nat)] /\ \A p \in Planes : Len(fifo[p]) <= Depth
  /\ trg \in 0 .. Unrecorded

TypeRuns ==
  /\ given \in Seq(Seq(Nat))
  /\ joined \in [Planes -> Nat]
  /\ out \in [Planes -> Seq(Nat)]
  /\ ended \in [Planes -> BOOLEAN]

\* What a board holds after the first event was read, or everything was purged.
LEMMA Shorter ==
  ASSUME NEW s \in Seq(Nat), s # <<>>
  PROVE  /\ Head(s) \in Nat /\ Tail(s) \in Seq(Nat) /\ Len(Tail(s)) = Len(s) - 1
         /\ Len(s) \in Nat
OBVIOUS

LEMMA Empty == <<>> \in Seq(Nat) /\ Len(<<>>) = 0
OBVIOUS

LEMMA DepthIsPositive == Depth \in Nat /\ 0 <= Depth /\ 1 <= Depth
BY TelescopeAssumption

LEMMA TypeInit ==
  Init => TypeOK
<1> SUFFICES ASSUME Init PROVE TypeOK
  OBVIOUS
<1>1. <<0>> \in Seq(Nat) /\ Len(<<0>>) = 1
  OBVIOUS
<1>2. <<>> \in Seq(Seq(Nat))
  OBVIOUS
<1>3. ASSUME NEW p \in Planes PROVE Len(fifo[p]) <= Depth
  <2>1. Len(fifo[p]) = 0 \/ Len(fifo[p]) = 1
    BY <1>1, Empty DEF Init
  <2> QED BY <2>1, DepthIsPositive
<1>4. fifo \in [Planes -> Seq(Nat)]
  BY <1>1, Empty DEF Init
<1>5. trg \in 0 .. Unrecorded
  BY TelescopeAssumption DEF Init, Unrecorded
<1> QED BY <1>2, <1>3, <1>4, <1>5, Empty DEF Init, TypeOK

LEMMA TypeCalls ==
  ASSUME TypeOK, Calls \/ Waits
  PROVE  TypeOK'
<1> USE DEF TypeOK, SendCommand, rcVars, cmdVars, boardVars, runVars
<1>1. CASE Initialise
  BY <1>1 DEF Initialise
<1>2. CASE Configure
  BY <1>2 DEF Configure
<1>3. CASE Reset
  BY <1>3 DEF Reset
<1>4. CASE StartRun
  <2>1. given' \in Seq(Seq(Nat))
    BY <1>4, Empty DEF StartRun
  <2> QED BY <1>4, <2>1 DEF StartRun
<1>5. CASE StopRun
  BY <1>5 DEF StopRun, In
<1>6. CASE StartPrimary
  BY <1>6 DEF StartPrimary
<1>7. CASE StopReplicas
  BY <1>7 DEF StopReplicas
<1>8. CASE StopRunReturns
  BY <1>8 DEF StopRunReturns
<1> QED BY <1>1, <1>2, <1>3, <1>4, <1>5, <1>6, <1>7, <1>8 DEF Calls, Waits

\* The given triggers after another one.
LEMMA Given ==
  ASSUME TypeOK, given # <<>>
  PROVE  /\ Len(given) \in Nat /\ Len(given) > 0 /\ given[Len(given)] \in Seq(Nat)
         /\ \A t \in Nat :
              LET g == [given EXCEPT ![Len(given)] = Append(@, t)]
              IN  /\ g \in Seq(Seq(Nat)) /\ Len(g) = Len(given)
                  /\ g[Len(given)] = Append(given[Len(given)], t)
                  /\ \A n \in 1 .. Len(given) - 1 : g[n] = given[n]
<1> given \in Seq(Seq(Nat))
  BY DEF TypeOK
<1>1. Len(given) \in Nat /\ Len(given) > 0
  OBVIOUS
<1>2. given[Len(given)] \in Seq(Nat)
  BY <1>1, ElementOfSeq
<1>3. ASSUME NEW t \in Nat
      PROVE  Append(given[Len(given)], t) \in Seq(Nat)
  BY <1>2
<1> HIDE <1>2
<1>4. ASSUME NEW x \in Seq(Nat)
      PROVE  LET g == [given EXCEPT ![Len(given)] = x]
             IN  /\ g \in Seq(Seq(Nat)) /\ Len(g) = Len(given)
                 /\ g[Len(given)] = x
                 /\ \A n \in 1 .. Len(given) - 1 : g[n] = given[n]
  BY <1>1
<1> QED BY <1>1, <1>2, <1>3, <1>4

LEMMA TypeTrigger ==
  ASSUME TypeOK, Trigger
  PROVE  TypeOK'
<1> USE DEF Trigger
<1>1. trg' \in Nat /\ trg' \in 0 .. Unrecorded
  BY TelescopeAssumption DEF TypeOK, Recorded, Unrecorded
<1>2. ASSUME NEW p \in Planes
      PROVE  Append(fifo[p], trg') \in Seq(Nat) /\ Len(Append(fifo[p], trg')) <= Depth
  <2>1. fifo[p] \in Seq(Nat) /\ ~(Len(fifo[p]) >= Depth)
    BY DEF TypeOK, Busy
  <2> QED BY <1>1, <2>1, TelescopeAssumption
<1>3. given' \in Seq(Seq(Nat))
  BY <1>1, Given DEF TypeOK
<1>4. TypeBoards'
  <2>1. forced' \in [Planes -> BOOLEAN]
    BY DEF TypeOK
  <2> QED BY <1>1, <1>2, <2>1 DEF TypeBoards
<1>5. TypeRuns'
  BY <1>3 DEF TypeOK, TypeRuns
<1>6. TypeControl' /\ TypeThreads' /\ TypeLoops'
  BY DEF TypeOK, TypeControl, TypeThreads, TypeLoops, rcVars, cmdVars
<1> QED
  BY <1>4, <1>5, <1>6
  DEF TypeOK, TypeControl, TypeThreads, TypeLoops, TypeBoards, TypeRuns

LEMMA TypeCommandThread ==
  ASSUME TypeOK, NEW p \in Planes, CommandThread(p)
  PROVE  TypeOK'
<1> USE DEF TypeOK, Take, SetStatus, GoTo, armtrigger, stoptrigger, rcVars, cmdVars,
            boardVars, runVars
<1>1. CASE DoInitialise(p)
  BY <1>1 DEF DoInitialise
<1>2. CASE DoInitialiseFails(p)
  BY <1>2 DEF DoInitialiseFails
<1>3. CASE DoConfigure(p)
  BY <1>3 DEF DoConfigure
<1>4. CASE purge_events(p)
  BY <1>4, Empty, TelescopeAssumption DEF purge_events
<1>5. CASE DoConfigureFails(p)
  <2>1. PICK f \in {fifo[p], <<>>} : fifo' = [fifo EXCEPT ![p] = f]
    BY <1>5 DEF DoConfigureFails
  <2>2. f \in Seq(Nat) /\ Len(f) <= Depth
    <3>1. CASE f = fifo[p]
      BY <3>1
    <3>2. CASE f = <<>>
      BY <3>2, Empty, DepthIsPositive
    <3> QED BY <3>1, <3>2
  <2> QED BY <1>5, <2>1, <2>2 DEF DoConfigureFails
<1>6. CASE DoStartRun(p)
  BY <1>6, Empty DEF DoStartRun, Bore
<1>7. CASE DoStartRunFails(p)
  <2>1. CASE UNCHANGED <<runVars, forced>>
    BY <1>7, <2>1 DEF DoStartRunFails
  <2>2. CASE Bore(p) /\ armtrigger(p)
    BY <1>7, <2>2, Empty DEF DoStartRunFails, Bore
  <2>3. CASE Bore(p) /\ UNCHANGED forced
    BY <1>7, <2>3, Empty DEF DoStartRunFails, Bore
  <2> QED BY <1>7, <2>1, <2>2, <2>3 DEF DoStartRunFails
<1>8. CASE OnStartRun(p)
  BY <1>8 DEF OnStartRun
<1>9. CASE Started(p)
  BY <1>9 DEF Started
<1>10. CASE DoStopRun(p)
  BY <1>10 DEF DoStopRun
<1>11. CASE DoStopRunFails(p)
  BY <1>11 DEF DoStopRunFails
<1>12. CASE DoReset(p)
  BY <1>12 DEF DoReset
<1>13. CASE DoResetFails(p)
  BY <1>13 DEF DoResetFails
<1>14. CASE StopsRunning(p)
  BY <1>14 DEF StopsRunning
<1>15. CASE Joins(p)
  BY <1>15 DEF Joins
<1>16. CASE StopTimesOut(p)
  BY <1>16 DEF StopTimesOut
<1> QED BY <1>1, <1>2, <1>3, <1>4, <1>5, <1>6, <1>7, <1>8, <1>9, <1>10, <1>11, <1>12,
           <1>13, <1>14, <1>15, <1>16, Zenon DEF CommandThread

LEMMA TypeRunLoop ==
  ASSUME TypeOK, NEW p \in Planes, RunLoop(p) \/ Crash(p) \/ Connect(p)
  PROVE  TypeOK'
<1> USE DEF TypeOK, Loop, SetStatus, GoTo, rcVars, cmdVars, boardVars, runVars
<1>1. CASE LoopLooks(p)
  BY <1>1 DEF LoopLooks
<1>2. CASE read_and_send_event(p)
  <2>1. fifo[p] \in Seq(Nat) /\ fifo[p] # <<>> /\ Len(fifo[p]) <= Depth
    BY <1>2 DEF read_and_send_event
  <2>2. /\ Tail(fifo[p]) \in Seq(Nat) /\ Len(Tail(fifo[p])) <= Depth
        /\ Append(out[p], Head(fifo[p])) \in Seq(Nat)
    <3>1. out[p] \in Seq(Nat)
      OBVIOUS
    <3> QED BY ONLY <2>1, <3>1, Shorter, TelescopeAssumption, SMT
  <2> QED BY <1>2, <2>2 DEF read_and_send_event
<1>3. CASE read_timeout(p)
  BY <1>3 DEF read_timeout
<1>4. CASE Flush(p)
  BY <1>4 DEF Flush
<1>5. CASE Eore(p)
  BY <1>5 DEF Eore
<1>6. CASE RunLoopFails(p)
  <2>1. CASE UNCHANGED fifo
    BY <1>6, <2>1 DEF RunLoopFails
  <2>2. CASE fifo[p] # <<>> /\ fifo' = [fifo EXCEPT ![p] = Tail(@)]
    <3>1. Tail(fifo[p]) \in Seq(Nat) /\ Len(Tail(fifo[p])) <= Depth
      BY <2>2, Shorter, TelescopeAssumption
    <3> QED BY <1>6, <2>2, <3>1 DEF RunLoopFails
  <2> QED BY <1>6, <2>1, <2>2 DEF RunLoopFails
<1>7. CASE Crash(p)
  BY <1>7 DEF Crash
<1>8. CASE Connect(p)
  BY <1>8 DEF Connect
<1> QED BY <1>1, <1>2, <1>3, <1>4, <1>5, <1>6, <1>7, <1>8 DEF RunLoop

LEMMA TypeStep ==
  TypeOK /\ [Next]_vars => TypeOK'
<1>1. TypeOK /\ UNCHANGED vars => TypeOK'
  BY DEF TypeOK, vars, rcVars, cmdVars, boardVars, runVars
<1> QED BY <1>1, TypeCalls, TypeTrigger, TypeCommandThread, TypeRunLoop DEF Next

\* Every variable keeps its type.
THEOREM TelescopeTyping ==
  Spec => []TypeOK
BY TypeInit, TypeStep, PTL DEF Spec

-----------------------------------------------------------------------------
(***************************************************************************)
(* The inductive invariant.                                                *)
(***************************************************************************)

Good(p) == ThreadShape(p) /\ ForcedShape(p) /\ RunShape(p) /\ FreshShape(p)

\* What the invariant says of a plane is of no other plane.
LEMMA OtherPlane ==
  ASSUME NEW q \in Planes, Good(q), UNCHANGED <<rc, given, trg>>,
         UNCHANGED <<st[q], known[q], cmd[q], hpc[q], loop[q], running[q]>>,
         UNCHANGED <<forced[q], fifo[q], joined[q], out[q], ended[q]>>
  PROVE  Good(q)'
<1>1. ThreadShape(q)'
  BY DEF Good, ThreadShape
<1>2. ForcedShape(q)'
  BY DEF Good, ForcedShape, Waiting
<1>3. RunShape(q)'
  BY DEF Good, RunShape, Record, Recorded
<1>4. FreshShape(q)'
  BY DEF Good, FreshShape, Waiting
<1> QED BY <1>1, <1>2, <1>3, <1>4 DEF Good

LEMMA InvInit ==
  Init => TelescopeInv
<1> SUFFICES ASSUME Init, NEW p \in Planes PROVE Good(p)
  BY DEF TelescopeInv, Good
<1>1. given = <<>> /\ Len(given) = 0 /\ joined[p] = 0
  BY DEF Init
<1> QED
  BY <1>1 DEF Init, Good, ThreadShape, ForcedShape, RunShape, FreshShape, Waiting, Record, Recorded

LEMMA NewRunProperties ==
  ASSUME NEW g \in Seq(Seq(Nat)), NEW h, h = Append(g, <<>>)
  PROVE  /\ h # <<>> /\ Len(h) = Len(g) + 1 /\ h[Len(h)] = <<>>
         /\ \A n \in 1 .. Len(g) : h[n] = g[n]
<1>1. <<>> \in Seq(Nat) /\ Len(g) \in Nat
  OBVIOUS
<1>2. Len(h) = Len(g) + 1 /\ h[Len(g) + 1] = <<>> /\ \A n \in 1 .. Len(g) : h[n] = g[n]
  BY <1>1, AppendProperties
<1> QED BY <1>1, <1>2

LEMMA InvCalls ==
  ASSUME TypeOK, TelescopeInv, Calls \/ Waits
  PROVE  TelescopeInv'
<1> SUFFICES ASSUME NEW q \in Planes PROVE Good(q)'
  BY DEF TelescopeInv, Good
<1>g. Good(q)
  BY DEF TelescopeInv, Good
<1> USE <1>g DEF SendCommand, Quiet, In, rcVars, cmdVars, boardVars, runVars,
            Good, ThreadShape, ForcedShape, RunShape, FreshShape, Waiting, TypeOK,
            Record, Recorded
<1>1. CASE Initialise
  BY <1>1 DEF Initialise
<1>2. CASE Configure
  BY <1>2 DEF Configure
<1>3. CASE Reset
  BY <1>3 DEF Reset
<1>4. CASE StartRun
  <2>1. /\ given' # <<>> /\ Len(given') = Len(given) + 1 /\ given'[Len(given')] = <<>>
        /\ \A n \in 1 .. Len(given) : given'[n] = given[n]
    <3>1. given \in Seq(Seq(Nat)) /\ given' = Append(given, <<>>) /\ <<>> \in Seq(Nat)
      BY <1>4 DEF StartRun
    <3> QED BY ONLY <3>1, NewRunProperties
  <2>2. Waiting(q) /\ cmd[q] = "none" /\ loop[q] = "none" /\ joined[q] < Len(given')
    <3>1. st[q] \in {"conf", "stopped"}
      BY <1>4 DEF StartRun
    <3>2. cmd[q] = "none" /\ hpc[q] = "none"
      BY <1>4 DEF StartRun
    <3>3. joined[q] \in Nat /\ Len(given) \in Nat /\ joined[q] <= Len(given)
      OBVIOUS
    <3> QED BY <2>1, <3>1, <3>2, <3>3
  <2>3. RunShape(q)'
    BY <1>4, <2>2 DEF StartRun
  <2>4. ThreadShape(q)' /\ ForcedShape(q)'
    BY <1>4, <2>2 DEF StartRun
  <2>5. FreshShape(q)'
    BY <1>4, <2>1, <2>2 DEF StartRun
  <2> QED BY <2>3, <2>4, <2>5
<1>5. CASE StopRun
  BY <1>5 DEF StopRun
<1>6. CASE StartPrimary
  BY <1>6 DEF StartPrimary
<1>7. CASE StopReplicas
  BY <1>7 DEF StopReplicas
<1>8. CASE StopRunReturns
  BY <1>8 DEF StopRunReturns
<1> QED BY <1>1, <1>2, <1>3, <1>4, <1>5, <1>6, <1>7, <1>8 DEF Calls, Waits

LEMMA InvCommandThread ==
  ASSUME TypeOK, TelescopeInv, NEW p \in Planes, CommandThread(p)
  PROVE  TelescopeInv'
<1> SUFFICES ASSUME NEW q \in Planes PROVE Good(q)'
  BY DEF TelescopeInv, Good
<1>g. Good(p) /\ Good(q)
  BY DEF TelescopeInv, Good
<1> USE DEF Take, SetStatus, GoTo, armtrigger, stoptrigger, Bore, rcVars, cmdVars, boardVars,
            runVars, TypeOK
<1>other. ASSUME q # p PROVE Good(q)'
  <2> USE <1>g, <1>other, OtherPlane
  <2>1. CASE DoInitialise(p)
    BY <2>1 DEF DoInitialise
  <2>2. CASE DoInitialiseFails(p)
    BY <2>2 DEF DoInitialiseFails
  <2>3. CASE DoConfigure(p)
    BY <2>3 DEF DoConfigure
  <2>4. CASE purge_events(p)
    BY <2>4 DEF purge_events
  <2>5. CASE DoConfigureFails(p)
    BY <2>5 DEF DoConfigureFails
  <2>6. CASE DoStartRun(p)
    BY <2>6 DEF DoStartRun
  <2>7. CASE DoStartRunFails(p)
    BY <2>7 DEF DoStartRunFails
  <2>8. CASE OnStartRun(p)
    BY <2>8 DEF OnStartRun
  <2>9. CASE Started(p)
    BY <2>9 DEF Started
  <2>10. CASE DoStopRun(p)
    BY <2>10 DEF DoStopRun
  <2>11. CASE DoStopRunFails(p)
    BY <2>11 DEF DoStopRunFails
  <2>12. CASE DoReset(p)
    BY <2>12 DEF DoReset
  <2>13. CASE DoResetFails(p)
    BY <2>13 DEF DoResetFails
  <2>14. CASE StopsRunning(p)
    BY <2>14 DEF StopsRunning
  <2>15. CASE Joins(p)
    BY <2>15 DEF Joins
  <2>16. CASE StopTimesOut(p)
    BY <2>16 DEF StopTimesOut
  <2> QED BY <2>1, <2>2, <2>3, <2>4, <2>5, <2>6, <2>7, <2>8, <2>9, <2>10, <2>11, <2>12,
             <2>13, <2>14, <2>15, <2>16, Zenon DEF CommandThread
<1>same. ASSUME q = p PROVE Good(q)'
  <2> USE <1>g, <1>same DEF Good, ThreadShape, ForcedShape, RunShape, FreshShape, Waiting,
                            Record, Recorded
  <2>1. CASE DoInitialise(p)
    BY <2>1 DEF DoInitialise
  <2>2. CASE DoInitialiseFails(p)
    BY <2>2 DEF DoInitialiseFails
  <2>3. CASE DoConfigure(p)
    <3>1. loop[q] = "none" /\ loop'[q] = "none" /\ known[q]' = known[q]
      BY <2>3 DEF DoConfigure
    <3>2. ThreadShape(q)'
      BY <2>3, <3>1 DEF DoConfigure
    <3>3. ForcedShape(q)'
      BY <2>3, <3>1 DEF DoConfigure
    <3>4. RunShape(q)' /\ FreshShape(q)'
      BY <2>3, <3>1 DEF DoConfigure
    <3> QED BY <3>2, <3>3, <3>4
  <2>4. CASE purge_events(p)
    BY <2>4 DEF purge_events
  <2>5. CASE DoConfigureFails(p)
    BY <2>5 DEF DoConfigureFails
  <2>6. CASE DoStartRun(p)
    <3>1. ThreadShape(q)' /\ ForcedShape(q)' /\ FreshShape(q)'
      BY <2>6 DEF DoStartRun
    <3>2. /\ fifo'[q] = <<>> /\ out'[q] = <<>> /\ loop'[q] = loop[q]
          /\ joined'[q] = Len(given) /\ Len(given) > 0
          /\ given' = given /\ given[Len(given)] = <<>>
      BY <2>6 DEF DoStartRun
    <3>3. Record(fifo[q])' = <<>>
      BY <3>2
    <3>4. out'[q] \o Record(fifo[q])' = given'[joined'[q]]
      <4>1. <<>> \o <<>> = <<>>
        OBVIOUS
      <4> QED BY ONLY <3>2, <3>3, <4>1
    <3>5. /\ joined'[q] <= Len(given') /\ joined'[q] = Len(given') /\ joined'[q] > 0
      BY <3>2
    <3>6. RunShape(q)'
      <4> HIDE DEF Record, Recorded
      <4> QED BY ONLY <3>4, <3>5 DEF RunShape
    <3> QED BY <3>1, <3>6
  <2>7. CASE DoStartRunFails(p)
    <3>1. ThreadShape(q)' /\ ForcedShape(q)' /\ FreshShape(q)'
      BY <2>7 DEF DoStartRunFails
    <3>2. loop'[q] = "none" /\ hpc'[q] = "none"
      BY <2>7 DEF DoStartRunFails
    <3>3. joined'[q] <= Len(given')
      BY <2>7 DEF DoStartRunFails
    <3>4. RunShape(q)'
      BY ONLY <3>2, <3>3 DEF RunShape
    <3> QED BY <3>1, <3>4
  <2>8. CASE OnStartRun(p)
    BY <2>8 DEF OnStartRun
  <2>9. CASE Started(p)
    BY <2>9 DEF Started
  <2>10. CASE DoStopRun(p)
    BY <2>10 DEF DoStopRun
  <2>11. CASE DoStopRunFails(p)
    BY <2>11 DEF DoStopRunFails
  <2>12. CASE DoReset(p)
    BY <2>12 DEF DoReset
  <2>13. CASE DoResetFails(p)
    BY <2>13 DEF DoResetFails
  <2>14. CASE StopsRunning(p)
    BY <2>14 DEF StopsRunning
  <2>15. CASE Joins(p)
    BY <2>15 DEF Joins
  <2>16. CASE StopTimesOut(p)
    BY <2>16 DEF StopTimesOut
  <2> QED BY <2>1, <2>2, <2>3, <2>4, <2>5, <2>6, <2>7, <2>8, <2>9, <2>10, <2>11, <2>12,
             <2>13, <2>14, <2>15, <2>16, Zenon DEF CommandThread
<1> QED BY <1>other, <1>same

\* What is sent and what is held, one after the other: when an event is sent, and when
\* the board is triggered.
LEMMA FirstMoves ==
  ASSUME NEW o \in Seq(Nat), NEW f \in Seq(Nat), f # <<>>
  PROVE  Append(o, Head(f)) \o Tail(f) = o \o f
<1>1. Head(f) \in Nat /\ Tail(f) \in Seq(Nat) /\ <<Head(f)>> \in Seq(Nat)
  BY HeadTailProperties
<1>2. f = <<Head(f)>> \o Tail(f)
  BY HeadTailProperties
<1>3. Append(o, Head(f)) = o \o <<Head(f)>>
  BY <1>1, AppendIsConcat
<1>4. (o \o <<Head(f)>>) \o Tail(f) = o \o (<<Head(f)>> \o Tail(f))
  BY <1>1, ConcatAssociative
<1> QED BY <1>2, <1>3, <1>4, Zenon

LEMMA LastFollows ==
  ASSUME NEW o \in Seq(Nat), NEW f \in Seq(Nat), NEW t \in Nat
  PROVE  o \o Append(f, t) = Append(o \o f, t)
<1>1. <<t>> \in Seq(Nat) /\ o \o f \in Seq(Nat)
  BY ConcatProperties
<1>2. Append(f, t) = f \o <<t>> /\ Append(o \o f, t) = (o \o f) \o <<t>>
  BY <1>1, AppendIsConcat
<1>3. (o \o f) \o <<t>> = o \o (f \o <<t>>)
  BY <1>1, ConcatAssociative
<1> QED BY <1>2, <1>3, Zenon

LEMMA InvRunLoop ==
  ASSUME TypeOK, TelescopeInv, NEW p \in Planes, RunLoop(p) \/ Crash(p) \/ Connect(p)
  PROVE  TelescopeInv'
<1> SUFFICES ASSUME NEW q \in Planes PROVE Good(q)'
  BY DEF TelescopeInv, Good
<1>g. Good(p) /\ Good(q)
  BY DEF TelescopeInv, Good
<1> USE DEF Loop, SetStatus, GoTo, rcVars, cmdVars, boardVars, runVars, TypeOK
<1>other. ASSUME q # p PROVE Good(q)'
  <2> USE <1>g, <1>other, OtherPlane
  <2>1. CASE LoopLooks(p)
    BY <2>1 DEF LoopLooks
  <2>2. CASE read_and_send_event(p)
    BY <2>2 DEF read_and_send_event
  <2>3. CASE read_timeout(p)
    BY <2>3 DEF read_timeout
  <2>4. CASE Flush(p)
    BY <2>4 DEF Flush
  <2>5. CASE Eore(p)
    BY <2>5 DEF Eore
  <2>6. CASE RunLoopFails(p)
    BY <2>6 DEF RunLoopFails
  <2>7. CASE Crash(p)
    BY <2>7 DEF Crash
  <2>8. CASE Connect(p)
    BY <2>8 DEF Connect
  <2> QED BY <2>1, <2>2, <2>3, <2>4, <2>5, <2>6, <2>7, <2>8 DEF RunLoop
<1>same. ASSUME q = p PROVE Good(q)'
  <2> USE <1>g, <1>same DEF Good, ThreadShape, ForcedShape, RunShape, FreshShape, Waiting,
                            Record, Recorded
  <2>1. CASE LoopLooks(p)
    <3>1. ThreadShape(q)' /\ FreshShape(q)'
      BY <2>1 DEF LoopLooks
    <3>2. ForcedShape(q)'
      BY <2>1 DEF LoopLooks
    <3>3. RunShape(q)'
      BY <2>1 DEF LoopLooks
    <3> QED BY <3>1, <3>2, <3>3
  <2>2. CASE read_and_send_event(p)
    <3>1. ThreadShape(q)' /\ FreshShape(q)'
      BY <2>2 DEF read_and_send_event
    <3>2. ForcedShape(q)'
      BY <2>2 DEF read_and_send_event
    <3>3. out'[q] \o Record(fifo[q])' = out[q] \o Record(fifo[q])
      <4>1. out[q] \in Seq(Nat) /\ fifo[q] \in Seq(Nat) /\ fifo[q] # <<>>
        BY <2>2 DEF read_and_send_event
      <4>2. /\ out'[q] = IF Recorded THEN Append(out[q], Head(fifo[q])) ELSE out[q]
            /\ fifo'[q] = Tail(fifo[q])
            /\ Recorded' = Recorded
        BY <2>2 DEF read_and_send_event
      <4> QED BY ONLY <4>1, <4>2, FirstMoves DEF Record
    <3>4. /\ loop[q] \notin {"none", "failed"} /\ loop'[q] # "none"
          /\ UNCHANGED <<given, joined, hpc>>
      BY <2>2 DEF read_and_send_event, rcVars, cmdVars
    <3>5. RunShape(q)'
      BY ONLY <1>g, <3>3, <3>4 DEF Good, RunShape
    <3> QED BY <3>1, <3>2, <3>5
  <2>3. CASE read_timeout(p)
    <3>1. ThreadShape(q)' /\ FreshShape(q)'
      BY <2>3 DEF read_timeout
    <3>2. ForcedShape(q)'
      BY <2>3 DEF read_timeout
    <3>3. /\ loop[q] \notin {"none", "failed"} /\ loop'[q] # "none"
          /\ UNCHANGED <<given, joined, hpc, out, fifo, trg>>
      BY <2>3 DEF read_timeout
    <3>4. RunShape(q)'
      BY ONLY <1>g, <3>3 DEF Good, RunShape, Record, Recorded
    <3> QED BY <3>1, <3>2, <3>4
  <2>4. CASE Flush(p)
    BY <2>4 DEF Flush
  <2>5. CASE Eore(p)
    BY <2>5 DEF Eore
  <2>6. CASE RunLoopFails(p)
    BY <2>6 DEF RunLoopFails
  <2>7. CASE Crash(p)
    BY <2>7 DEF Crash
  <2>8. CASE Connect(p)
    BY <2>8 DEF Connect
  <2> QED BY <2>1, <2>2, <2>3, <2>4, <2>5, <2>6, <2>7, <2>8 DEF RunLoop
<1> QED BY <1>other, <1>same

LEMMA InvTrigger ==
  ASSUME TypeOK, TelescopeInv, Trigger
  PROVE  TelescopeInv'
<1> SUFFICES ASSUME NEW q \in Planes PROVE Good(q)'
  BY DEF TelescopeInv, Good
<1>g. Good(q)
  BY DEF TelescopeInv, Good
<1>1. ~forced[q]
  BY DEF Trigger, Busy
<1>2. trg' \in Nat /\ fifo[q] \in Seq(Nat) /\ fifo'[q] = Append(fifo[q], trg')
  BY DEF Trigger, TypeOK
<1>3. UNCHANGED <<st, known, cmd, hpc, loop, running, forced, joined, out, ended, rc>>
  BY DEF Trigger, rcVars, cmdVars
<1>4. /\ Len(given') = Len(given)
      /\ \A n \in 1 .. Len(given) - 1 : given'[n] = given[n]
      /\ Recorded /\ given # <<>> => /\ given' # <<>> /\ Len(given) > 0
                         /\ given'[Len(given)] = Append(given[Len(given)], trg')
  <2>1. CASE ~(Recorded /\ given # <<>>)
    BY <2>1 DEF Trigger
  <2>2. CASE Recorded /\ given # <<>>
    <3>1. given' = [given EXCEPT ![Len(given)] = Append(@, trg')]
      BY <2>2 DEF Trigger
    <3>2. Len(given) > 0 /\ Len(given') = Len(given)
          /\ given'[Len(given)] = Append(given[Len(given)], trg')
          /\ \A n \in 1 .. Len(given) - 1 : given'[n] = given[n]
      BY <1>2, <2>2, <3>1, Given
    <3>3. given' # <<>>
      BY <3>2
    <3> QED BY <3>2, <3>3
  <2> QED BY <2>1, <2>2
<1>5. ThreadShape(q)'
  BY <1>g, <1>3 DEF Good, ThreadShape
<1>6. ForcedShape(q)'
  BY <1>g, <1>1, <1>2, <1>3, <1>4 DEF Good, ForcedShape, Waiting
<1>7. ~Waiting(q)
  BY <1>g, <1>1 DEF Good, ForcedShape
<1>8. FreshShape(q)'
  BY <1>g, <1>3, <1>7 DEF Good, FreshShape, Waiting
<1>9. ASSUME loop[q] \notin {"none", "failed"} \/ hpc[q] = "armed"
      PROVE  out[q] \o Record(fifo[q])' = given'[joined[q]]
  <2>1. joined[q] = Len(given) /\ joined[q] > 0 /\ out[q] \o Record(fifo[q]) = given[joined[q]]
    BY <1>g, <1>9 DEF Good, RunShape
  <2>2. given # <<>>
    BY <2>1
  <2>3. out[q] \in Seq(Nat)
    BY DEF TypeOK
  <2>4. out[q] \o Append(fifo[q], trg') = Append(out[q] \o fifo[q], trg')
    BY ONLY <1>2, <2>3, LastFollows
  <2>5. Recorded' = Recorded
    <3>1. trg \in Nat /\ MaxTriggers \in Nat
      BY TelescopeAssumption DEF TypeOK
    <3>2. /\ Recorded => trg < MaxTriggers
          /\ trg' = IF Recorded THEN trg + 1 ELSE trg
      BY DEF Trigger
    <3> QED BY ONLY <3>1, <3>2 DEF Recorded, Unrecorded
  <2>6. CASE Recorded
    BY <1>2, <1>4, <2>1, <2>2, <2>4, <2>5, <2>6 DEF Record
  <2>7. CASE ~Recorded
    <3>1. given' = given
      BY <2>7 DEF Trigger
    <3> QED BY <2>1, <2>5, <2>7, <3>1 DEF Record
  <2> QED BY <2>6, <2>7
<1>10. RunShape(q)'
  BY <1>g, <1>2, <1>3, <1>4, <1>9 DEF Good, RunShape
<1> QED BY <1>5, <1>6, <1>8, <1>10 DEF Good

LEMMA InvStep ==
  TypeOK /\ TelescopeInv /\ [Next]_vars => TelescopeInv'
<1>1. TelescopeInv /\ UNCHANGED vars => TelescopeInv'
  BY OtherPlane DEF TelescopeInv, Good, vars, rcVars, cmdVars, boardVars, runVars
<1> QED BY <1>1, InvCalls, InvTrigger, InvCommandThread, InvRunLoop DEF Next

\* Of every plane: where its board stands, what was sent of it, and whether it is fresh.
THEOREM TelescopeInvariant ==
  Spec => []TelescopeInv
BY TypeInit, InvInit, TypeStep, InvStep, PTL DEF Spec

\* A plane that may be started has a busy board with nothing in it.
THEOREM NothingIsLeft ==
  Spec => []NoLeftovers
<1>1. TelescopeInv => NoLeftovers
  BY DEF TelescopeInv, ForcedShape, NoLeftovers, In, Waiting
<1> QED BY <1>1, TelescopeInvariant, PTL

-----------------------------------------------------------------------------
(***************************************************************************)
(* Refinement: what the planes send, as TriggeredRuns has it.              *)
(***************************************************************************)

\* The first event held is of the trigger after those of the events sent.
LEMMA FirstIsNext ==
  ASSUME NEW o \in Seq(Nat), NEW f \in Seq(Nat), f # <<>>, NEW g, g = o \o f
  PROVE  Len(o) < Len(g) /\ g[Len(o) + 1] = Head(f)
<1>1. Len(f) \in Nat /\ Len(f) > 0 /\ Len(o) \in Nat
  OBVIOUS
<1>2. Len(g) = Len(o) + Len(f) /\ g[Len(o) + 1] = f[1]
  BY <1>1, ConcatProperties
<1>3. f[1] = Head(f)
  OBVIOUS
<1> QED BY <1>1, <1>2, <1>3

LEMMA StepOfPlane ==
  ASSUME TypeOK, TelescopeInv, NEW p \in Planes,
         CommandThread(p) \/ RunLoop(p) \/ Crash(p) \/ Connect(p)
  PROVE  Runs!Begin(p) \/ Runs!Data(p) \/ Runs!End(p) \/ UNCHANGED runVars
<1>g. Good(p)
  BY DEF TelescopeInv, Good
<1>begin. ASSUME Take(p, "START"), Bore(p) PROVE Runs!Begin(p)
  <2>1. given # <<>> /\ joined[p] < Len(given) /\ given[Len(given)] = <<>>
    BY <1>g, <1>begin DEF Good, FreshShape, Take
  <2> QED BY <1>begin, <2>1 DEF Bore, Runs!Begin
<1>1. CASE DoStartRun(p)
  BY <1>1, <1>begin DEF DoStartRun
<1>2. CASE DoStartRunFails(p)
  BY <1>2, <1>begin DEF DoStartRunFails
<1>3. CASE read_and_send_event(p) /\ ~Recorded
  BY <1>3, Zenon DEF read_and_send_event, runVars
<1>4. CASE read_and_send_event(p) /\ Recorded
  <2>1. /\ joined[p] = Len(given) /\ joined[p] > 0
        /\ out[p] \o fifo[p] = given[joined[p]]
    BY <1>4, <1>g DEF Good, RunShape, Record, read_and_send_event
  <2>2. out[p] \in Seq(Nat) /\ fifo[p] \in Seq(Nat) /\ fifo[p] # <<>>
    BY <1>4 DEF TypeOK, read_and_send_event
  <2>3. Len(out[p]) < Len(given[joined[p]])
        /\ given[joined[p]][Len(out[p]) + 1] = Head(fifo[p])
    BY <2>1, <2>2, FirstIsNext
  <2>4. out' = [out EXCEPT ![p] = Append(@, given[joined[p]][Len(@) + 1])]
    BY <1>4, <2>3 DEF read_and_send_event
  <2> QED BY <1>4, <2>1, <2>3, <2>4 DEF read_and_send_event, Runs!Data
<1>5. CASE Eore(p)
  <2>1. joined[p] > 0 /\ out[p] \o <<>> = given[joined[p]]
    BY <1>5, <1>g DEF Good, RunShape, ForcedShape, Record, Eore
  <2>2. out[p] = given[joined[p]]
    <3>1. out[p] \in Seq(Nat)
      BY DEF TypeOK
    <3> QED BY <2>1, <3>1, ConcatEmptySeq
  <2> QED BY <1>5, <2>1, <2>2 DEF Eore, Runs!End
<1>6. CASE \/ DoInitialise(p) \/ DoInitialiseFails(p) \/ DoConfigure(p) \/ purge_events(p)
           \/ DoConfigureFails(p) \/ OnStartRun(p) \/ Started(p)
  BY <1>6, Zenon DEF DoInitialise, DoInitialiseFails, DoConfigure, purge_events,
     DoConfigureFails, OnStartRun, Started
<1>7. CASE \/ DoStopRun(p) \/ DoStopRunFails(p) \/ DoReset(p) \/ DoResetFails(p)
           \/ StopsRunning(p) \/ Joins(p) \/ StopTimesOut(p)
  BY <1>7, Zenon DEF DoStopRun, DoStopRunFails, DoReset, DoResetFails, StopsRunning,
     Joins, StopTimesOut
<1>8. CASE \/ LoopLooks(p) \/ read_timeout(p) \/ Flush(p) \/ RunLoopFails(p)
           \/ Crash(p) \/ Connect(p)
  BY <1>8, Zenon DEF LoopLooks, read_timeout, Flush, RunLoopFails, Crash, Connect
<1> QED BY <1>1, <1>2, <1>3, <1>4, <1>5, <1>6, <1>7, <1>8, Zenon DEF CommandThread, RunLoop

LEMMA StepOfTrigger ==
  ASSUME TypeOK, TelescopeInv, Trigger
  PROVE  (\E t \in 1 .. MaxTriggers : Runs!Trigger(t)) \/ UNCHANGED runVars
<1>1. CASE given = <<>>
  BY <1>1 DEF Trigger, runVars
<1>2. CASE ~Recorded
  BY <1>2 DEF Trigger, runVars
<1>3. CASE given # <<>> /\ Recorded
  <2>1. trg' \in 1 .. MaxTriggers
    BY <1>3, TelescopeAssumption DEF TypeOK, Trigger, Recorded, Unrecorded
  <2>2. ASSUME NEW p \in Planes, joined[p] = Len(given) PROVE ~ended[p]
    BY <2>2 DEF TelescopeInv, ForcedShape, Trigger, Busy
  <2>3. Runs!Trigger(trg')
    BY <1>3, <2>2 DEF Trigger, Runs!Trigger
  <2> QED BY <2>1, <2>3
<1> QED BY <1>1, <1>2, <1>3

LEMMA StepOfCalls ==
  ASSUME Calls \/ Waits
  PROVE  Runs!NewRun \/ UNCHANGED runVars
<1>1. CASE StartRun
  BY <1>1 DEF StartRun, Runs!NewRun
<1>2. CASE Initialise \/ Configure \/ Reset \/ StopRun
  BY <1>2, Zenon DEF Initialise, Configure, Reset, StopRun
<1>3. CASE StartPrimary \/ StopReplicas \/ StopRunReturns
  BY <1>3, Zenon DEF StartPrimary, StopReplicas, StopRunReturns
<1> QED BY <1>1, <1>2, <1>3 DEF Calls, Waits

LEMMA StepOfRuns ==
  ASSUME TypeOK, TelescopeInv, [Next]_vars
  PROVE  [Runs!Next]_<<given, joined, out, ended>>
<1>1. CASE UNCHANGED vars
  BY <1>1 DEF vars, runVars
<1>2. CASE Calls \/ Waits
  BY <1>2, StepOfCalls DEF Runs!Next, runVars
<1>3. CASE Trigger
  BY <1>3, StepOfTrigger DEF Runs!Next, runVars
<1>4. ASSUME NEW p \in Planes, CommandThread(p) \/ RunLoop(p) \/ Crash(p) \/ Connect(p)
      PROVE  [Runs!Next]_<<given, joined, out, ended>>
  BY <1>4, StepOfPlane DEF Runs!Next, runVars
<1> QED BY <1>1, <1>2, <1>3, <1>4 DEF Next

\* The n-th data event of a plane in a run is of the n-th trigger of the run, and after
\* an end of run event of any plane there are no more triggers.
THEOREM TelescopeImplementsRuns ==
  Spec => RunsSpec
<1>1. Init => Runs!Init
  BY DEF Init, Runs!Init
<1>2. TypeOK /\ TelescopeInv /\ [Next]_vars => [Runs!Next]_<<given, joined, out, ended>>
  BY StepOfRuns
<1>3. Spec => []TypeOK /\ []TelescopeInv
  BY TelescopeTyping, TelescopeInvariant, PTL
<1>4. Spec => Runs!Init /\ [][Runs!Next]_<<given, joined, out, ended>>
  BY <1>1, <1>2, <1>3, PTL DEF Spec
<1> QED BY <1>4 DEF RunsSpec, Runs!Spec, Runs!vars
=============================================================================
