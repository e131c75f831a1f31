------------------------- MODULE EudaqControl_proofs -------------------------
(***************************************************************************)
(* Proofs about EudaqControl, for any number of clients, any run numbers,  *)
(* any bounds and any set of faulty clients.                               *)
(***************************************************************************)
EXTENDS EudaqControlInv, SequenceTheorems, TLAPS

USE DEF R

LEMMA SendType ==
  ASSUME TypeOK, NEW S, NEW m \in Command, SendCommand(S, m)
  PROVE  cmdq' \in [Clients -> Seq(Command)]
BY DEF TypeOK, SendCommand

LEMMA CmdType ==
  ASSUME NEW o \in {"INIT", "CONFIG", "START", "STOP", "RESET", "STATUS", "TERMINATE"}
  PROVE  Cmd(o) \in Command
BY BoundsAssumption DEF Cmd, Command

LEMMA ConfigType ==
  ASSUME NEW S \in SUBSET Servers
  PROVE  [Cmd("CONFIG") EXCEPT !.addr = S] \in Command
BY BoundsAssumption DEF Cmd, Command

LEMMA UserCallType ==
  ASSUME TypeInv, UserCall
  PROVE  TypeInv'
<1> USE BoundsAssumption DEF Call, TypeInv, TypeOK, rcVars, hvars, netVars
<1>1. CASE Initialise
  <2>1. todo' \in SUBSET batch' /\ batch' \in SUBSET Clients
    BY <1>1 DEF Initialise, Seen
  <2> QED BY <1>1, <2>1 DEF Initialise, Phases
<1>2. CASE Configure
  <2>1. PICK kept \in {{}, addrs} : ConfigureWith(kept)
    BY <1>2 DEF Configure
  <2>2. todo' \in SUBSET batch' /\ batch' \in SUBSET Clients /\ addrs' \in SUBSET Servers
    BY <2>1 DEF ConfigureWith, Seen
  <2>3. /\ rcpc' = "configure" /\ calls' \in 0 .. MaxCalls
        /\ UNCHANGED <<cur, listening, runN, view, conn, netVars, hvars, lis, link>>
    BY <2>1 DEF ConfigureWith
  <2> QED BY <2>2, <2>3 DEF Phases
<1>3. CASE Reset
  BY <1>3, SendType, CmdType DEF Reset
<1>4. CASE Terminate
  <2>1. cmdq' \in [Clients -> Seq(Command)]
    BY <1>4, SendType, CmdType DEF Terminate
  <2>2. listening' \in BOOLEAN
    BY <1>4 DEF Terminate
  <2>3. rcpc' = "closed" /\ UNCHANGED <<batch, todo, cur, runN, addrs, view, conn, statq, hvars, lis, link>>
    BY <1>4 DEF Terminate
  <2>4. calls' \in 0 .. MaxCalls
    BY <1>4 DEF Terminate
  <2> QED BY <2>1, <2>2, <2>3, <2>4 DEF Phases
<1>5. CASE StartRun
  <2>1. todo' \in SUBSET batch' /\ batch' \in SUBSET Clients
    BY <1>5 DEF StartRun, Seen
  <2>2. listening' \in BOOLEAN
    BY <1>5 DEF StartRun
  <2>3. rcpc' = "startOthers" /\ runN <= MaxRun
        /\ UNCHANGED <<cur, runN, addrs, view, conn, netVars, hvars, lis, link>>
    BY <1>5 DEF StartRun
  <2>4. calls' \in 0 .. MaxCalls
    BY <1>5 DEF StartRun
  <2> QED BY <2>1, <2>2, <2>3, <2>4 DEF Phases
<1>6. CASE StopRun
  <2>1. todo' \in SUBSET batch' /\ batch' \in SUBSET Clients
    BY <1>6 DEF StopRun, Seen
  <2>2. cmdq' \in [Clients -> Seq(Command)]
    BY <1>6, SendType, CmdType DEF StopRun
  <2> QED BY <1>6, <2>1, <2>2 DEF StopRun, Phases
<1> QED BY <1>1, <1>2, <1>3, <1>4, <1>5, <1>6 DEF UserCall

LEMMA StartType ==
  ASSUME NEW r \in 0 .. MaxRun
  PROVE  Start(r) \in Command
BY BoundsAssumption DEF Start, Cmd, Command

LEMMA CallStepType ==
  ASSUME TypeInv, CallStep
  PROVE  TypeInv'
<1> USE BoundsAssumption DEF TypeInv, TypeOK, rcVars, hvars, netVars
<1>1. CASE SeeRunning
  BY <1>1 DEF SeeRunning
<1>2. CASE OthersStarted
  BY <1>2 DEF OthersStarted, Phases
<1>3. CASE CollectorsStarted
  <2>1. cmdq' \in [Clients -> Seq(Command)]
    BY <1>3, SendType, StartType DEF CollectorsStarted
  <2> QED BY <1>3, <2>1 DEF CollectorsStarted, Phases
<1>4. CASE StartLastProducer
  <2>1. cmdq' \in [Clients -> Seq(Command)]
    BY <1>4, SendType, StartType DEF StartLastProducer
  <2> QED BY <1>4, <2>1 DEF StartLastProducer, Phases
<1>5. CASE StopProducers
  <2>1. cmdq' \in [Clients -> Seq(Command)]
    BY <1>5, SendType, CmdType DEF StopProducers
  <2> QED BY <1>5, <2>1 DEF StopProducers, Phases
<1>6. CASE StopCollectors
  <2>1. cmdq' \in [Clients -> Seq(Command)]
    BY <1>6, SendType, CmdType DEF StopCollectors
  <2> QED BY <1>6, <2>1 DEF StopCollectors, Phases
<1>7. CASE StopOthers
  <2>1. cmdq' \in [Clients -> Seq(Command)]
    BY <1>7, SendType, CmdType DEF StopOthers
  <2> QED BY <1>7, <2>1 DEF StopOthers, Phases
<1>8. ASSUME NEW c \in Clients, StartServer(c)
      PROVE  TypeInv'
  <2>1. cmdq' \in [Clients -> Seq(Command)]
    BY <1>8, SendType, StartType DEF StartServer
  <2> QED BY <1>8, <2>1 DEF StartServer
<1>9. ASSUME NEW c \in Clients, SeeAddress(c) \/ SeeLeftConf(c) \/ SeeStopped(c) \/ NullStatus(c)
      PROVE  TypeInv'
  BY <1>9 DEF SeeAddress, SeeLeftConf, SeeStopped, NullStatus, Phases
<1>10. ASSUME NEW c \in Clients, InitialiseSingleConnection(c)
       PROVE  TypeInv'
  <2>1. cmdq' \in [Clients -> Seq(Command)]
    BY <1>10, SendType, CmdType DEF InitialiseSingleConnection
  <2> QED BY <1>10, <2>1 DEF InitialiseSingleConnection
<1>11. CASE InitialiseEnds
  BY <1>11 DEF InitialiseEnds, Phases
<1>12. CASE SendConfig
  <2>1. cmdq' \in [Clients -> Seq(Command)]
    BY <1>12, ConfigType, SendType DEF SendConfig
  <2> QED BY <1>12, <2>1 DEF SendConfig, Phases
<1> QED BY <1>1, <1>2, <1>3, <1>4, <1>5, <1>6, <1>7, <1>8, <1>9, <1>10, <1>11, <1>12 DEF CallStep

LEMMA NetworkType ==
  ASSUME TypeInv, PollStatus \/ \E c \in Clients : Connect(c) \/ ReceiveStatus(c)
  PROVE  TypeInv'
<1> USE BoundsAssumption DEF TypeInv, TypeOK, rcVars, hvars, netVars
<1>1. CASE PollStatus
  BY <1>1, SendType, CmdType DEF PollStatus
<1>2. ASSUME NEW c \in Clients, Connect(c)
      PROVE  TypeInv'
  BY <1>2 DEF Connect, Views, States
<1>3. ASSUME NEW c \in Clients, ReceiveStatus(c)
      PROVE  TypeInv'
  <2>1. Head(statq[c]) \in States \cup {"BYE"} /\ Tail(statq[c]) \in Seq(States \cup {"BYE"})
    BY <1>3 DEF ReceiveStatus
  <2> QED BY <1>3, <2>1 DEF ReceiveStatus, Views
<1> QED BY <1>1, <1>2, <1>3

LEMMA TakeType ==
  ASSUME TypeOK, NEW c \in Clients, NEW o, Take(c, o)
  PROVE  cmdq' \in [Clients -> Seq(Command)] /\ Head(cmdq[c]) \in Command
BY DEF TypeOK, Take

LEMMA ReportType ==
  ASSUME TypeOK, NEW c \in Clients, NEW s \in States, Report(c, s)
  PROVE  st' \in [Clients -> States] /\ statq' \in [Clients -> Seq(States \cup {"BYE"})]
BY DEF TypeOK, Report

LEMMA ThrowType ==
  ASSUME TypeOK, NEW c \in Clients, NEW b, Throw(c, b) \/ UserThrow(c)
  PROVE  /\ st' \in [Clients -> States] /\ statq' \in [Clients -> Seq(States \cup {"BYE"})]
         /\ hpc' \in [Clients -> {"idle", "starting", "stopping", "resetting", "dead"}]
<1>1. ASSUME NEW d, Throw(c, d)
      PROVE  /\ st' \in [Clients -> States] /\ statq' \in [Clients -> Seq(States \cup {"BYE"})]
             /\ hpc' \in [Clients -> {"idle", "starting", "stopping", "resetting", "dead"}]
  BY <1>1, ReportType DEF Throw, TypeOK, States, Idle
<1> QED BY <1>1 DEF UserThrow

LEMMA LeaveType ==
  ASSUME TypeInv, NEW c \in Clients, NEW q \in Seq(States \cup {"BYE"}), Leave(c, q),
         UNCHANGED <<rcVars, view, run, hasConf, conf>>
  PROVE  TypeInv'
BY DEF TypeInv, TypeOK, Leave, Idle, NoServer, Unlink, rcVars, States

LEMMA UnwindType ==
  ASSUME TypeOK, NEW c \in Clients, NEW how, NEW done, BeginUnwind(c, how, done)
  PROVE  /\ flag' \in [Clients -> BOOLEAN] /\ lis' \in [Clients -> BOOLEAN]
         /\ link' \in [Clients -> SUBSET Servers] /\ loop' = loop
<1>1. ASSUME Unlink(c) PROVE link' \in [Clients -> SUBSET Servers]
  BY <1>1 DEF Unlink, TypeOK
<1>2. ASSUME NoServer(c) PROVE lis' \in [Clients -> BOOLEAN]
  BY <1>2 DEF NoServer, TypeOK
<1>3. flag' \in [Clients -> BOOLEAN] /\ loop' = loop
  BY DEF BeginUnwind, TypeOK
<1>4. LetGo(c) \/ (NoServer(c) /\ Unlink(c))
  BY DEF BeginUnwind
<1> QED BY <1>1, <1>2, <1>3, <1>4 DEF LetGo, TypeOK

LEMMA HandlerType ==
  ASSUME TypeInv, NEW c \in Clients, Handler(c)
  PROVE  TypeInv'
<1> USE BoundsAssumption DEF TypeInv, TypeOK, rcVars, hvars, netVars
<1>1. CASE OnInitialise(c)
  BY <1>1, TakeType DEF OnInitialise, States
<1>2. CASE OnInitialiseFails(c)
  BY <1>2, TakeType, ThrowType DEF OnInitialiseFails
<1>3. CASE OnInitialiseCrash(c)
  BY <1>3, LeaveType DEF OnInitialiseCrash
<1>4. CASE OnConfigure(c)
  <2>1. cmdq' \in [Clients -> Seq(Command)] /\ Head(cmdq[c]) \in Command
    BY <1>4, TakeType DEF OnConfigure
  <2>2. Head(cmdq[c]).addr \in SUBSET Servers
    BY <2>1 DEF Command
  <2>3. /\ st' \in [Clients -> States] /\ statq' \in [Clients -> Seq(States \cup {"BYE"})]
        /\ hpc' \in [Clients -> {"idle", "starting", "stopping", "resetting", "dead"}]
    BY <1>4, ThrowType, ReportType DEF OnConfigure, States
  <2> QED BY <1>4, <2>1, <2>2, <2>3 DEF OnConfigure
<1>5. CASE OnStartRun(c)
  <2>1. cmdq' \in [Clients -> Seq(Command)] /\ Head(cmdq[c]) \in Command
    BY <1>5, TakeType DEF OnStartRun
  <2>2. Head(cmdq[c]).run \in 0 .. MaxRun
    BY <2>1 DEF Command
  <2>3. /\ st' \in [Clients -> States] /\ statq' \in [Clients -> Seq(States \cup {"BYE"})]
        /\ hpc' \in [Clients -> {"idle", "starting", "stopping", "resetting", "dead"}]
    BY <1>5, ThrowType DEF OnStartRun
  <2>4. Sinks(c) \in SUBSET Servers
    BY DEF Sinks, Servers
  <2>5. /\ run' \in [Clients -> 0 .. MaxRun] /\ lis' \in [Clients -> BOOLEAN]
        /\ link' \in [Clients -> SUBSET Servers]
    BY <1>5, <2>2, <2>4 DEF OnStartRun
  <2>6. loop' \in [Clients -> {"none", "alive", "ended", "failed"}] /\ flag' \in [Clients -> BOOLEAN]
    BY <1>5 DEF OnStartRun
  <2> QED BY <1>5, <2>1, <2>3, <2>5, <2>6 DEF OnStartRun
<1>6. CASE OnStartRunEnds(c)
  BY <1>6, ReportType DEF OnStartRunEnds, Idle, States
<1>7. CASE OnStopRun(c)
  <2>1. cmdq' \in [Clients -> Seq(Command)]
    BY <1>7, TakeType DEF OnStopRun
  <2>2. /\ st' \in [Clients -> States] /\ statq' \in [Clients -> Seq(States \cup {"BYE"})]
        /\ hpc' \in [Clients -> {"idle", "starting", "stopping", "resetting", "dead"}]
    BY <1>7, ThrowType, ReportType DEF OnStopRun, BeginUnwind, Idle, States
  <2>3. /\ flag' \in [Clients -> BOOLEAN] /\ lis' \in [Clients -> BOOLEAN]
        /\ link' \in [Clients -> SUBSET Servers] /\ loop' = loop
    BY <1>7, UnwindType DEF OnStopRun
  <2> QED BY <1>7, <2>1, <2>2, <2>3 DEF OnStopRun
<1>8. CASE OnReset(c)
  <2>1. cmdq' \in [Clients -> Seq(Command)]
    BY <1>8, TakeType DEF OnReset
  <2>2. /\ st' \in [Clients -> States] /\ statq' \in [Clients -> Seq(States \cup {"BYE"})]
        /\ hpc' \in [Clients -> {"idle", "starting", "stopping", "resetting", "dead"}]
    BY <1>8, ThrowType, ReportType DEF OnReset, BeginUnwind, Idle, States
  <2>3. /\ flag' \in [Clients -> BOOLEAN] /\ lis' \in [Clients -> BOOLEAN]
        /\ link' \in [Clients -> SUBSET Servers] /\ loop' = loop
    BY <1>8, UnwindType DEF OnReset
  <2> QED BY <1>8, <2>1, <2>2, <2>3 DEF OnReset
<1>9. CASE UnwindEnds(c)
  BY <1>9, ReportType DEF UnwindEnds, Idle, States
<1>10. CASE UnwindRethrows(c)
  BY <1>10, ThrowType DEF UnwindRethrows
<1>11. CASE UnwindTimeout(c)
  BY <1>11, ThrowType DEF UnwindTimeout
<1>12. CASE OnStatus(c)
  BY <1>12, TakeType, ReportType, ThrowType DEF OnStatus
<1>13. CASE OnTerminate(c)
  <2>1. Append(statq[c], "UNINIT") \in Seq(States \cup {"BYE"})
    BY DEF States
  <2> QED BY <1>13, <2>1, LeaveType DEF OnTerminate
<1> QED BY <1>1, <1>2, <1>3, <1>4, <1>5, <1>6, <1>7, <1>8, <1>9, <1>10, <1>11, <1>12, <1>13 DEF Handler

\* What becomes of q when its last element is replaced.
LEMMA LastOverwritten ==
  ASSUME NEW S, NEW q \in Seq(S), q # <<>>, NEW e \in S
  PROVE  /\ Len(q) \in 1 .. Len(q)
         /\ [q EXCEPT ![Len(q)] = e] \in Seq(S)
         /\ DOMAIN [q EXCEPT ![Len(q)] = e] = DOMAIN q
         /\ \A i \in DOMAIN q : [q EXCEPT ![Len(q)] = e][i] = IF i = Len(q) THEN e ELSE q[i]
<1>1. Len(q) \in 1 .. Len(q)
  OBVIOUS
<1>2. [q EXCEPT ![Len(q)] = e] \in Seq(S)
  BY <1>1, ExceptSeq
<1> QED BY <1>1, <1>2

LEMMA ProcessType ==
  ASSUME TypeInv, NEW c \in Clients, LoopReturns(c) \/ LoopThrows(c) \/ Crash(c)
  PROVE  TypeInv'
<1> USE BoundsAssumption DEF TypeInv, TypeOK, rcVars, hvars, netVars
<1>1. CASE LoopReturns(c)
  BY <1>1 DEF LoopReturns
<1>2. CASE LoopThrows(c)
  <2>1. statq' \in [Clients -> Seq(States \cup {"BYE"})]
    <3>1. ASSUME statq[c] # <<>>
          PROVE  [statq[c] EXCEPT ![Len(statq[c])] = "ERROR"] \in Seq(States \cup {"BYE"})
      BY <3>1, LastOverwritten DEF States
    <3> QED BY <1>2, <3>1 DEF LoopThrows
  <2> QED BY <1>2, <2>1 DEF LoopThrows, States
<1>3. CASE Crash(c)
  BY <1>3, LeaveType DEF Crash
<1> QED BY <1>1, <1>2, <1>3

LEMMA InitType == Init => TypeInv
BY ClientsAssumption, BoundsAssumption DEF Init, TypeInv, TypeOK, Phases, Views, States

LEMMA StepType == TypeInv /\ [Next]_vars => TypeInv'
<1> SUFFICES ASSUME TypeInv, [Next]_vars PROVE TypeInv'
  OBVIOUS
<1>1. CASE Next
  BY <1>1, UserCallType, CallStepType, NetworkType, HandlerType, ProcessType DEF Next, Internal
<1>2. CASE UNCHANGED vars
  BY <1>2 DEF vars, rcVars, netVars, hvars, TypeInv, TypeOK
<1> QED BY <1>1, <1>2

\* Every variable keeps its type, however many clients there are and whatever
\* fails: no status of a client outside Status.hh:34-41 is ever recorded, and no
\* loop of a call visits a client the call did not choose.
THEOREM Typing == Spec => []TypeOK
<1>1. TypeInv => TypeOK
  BY DEF TypeInv
<1> QED BY <1>1, InitType, StepType, PTL DEF Spec
=============================================================================
