--------------------------- MODULE ITS3RunControl ---------------------------
(***************************************************************************)
(* The run control of the ITS3 telescope: a program that drives RunControl *)
(* through one run after the other, and shows the shifter what goes on.    *)
(*                                                                         *)
(* Four of its threads meet here.  The user's thread of EudaqControl runs  *)
(* userlogic_runner_, and so calls RunControl in one order only.  The      *)
(* command thread of RunControl calls DoStatus, DoConnect and DoDisconnect *)
(* with m_mtx_conn held.  The loop of the user interface draws whatever    *)
(* the others ask for, while they wait, and handles the keys.  The first   *)
(* three share a lock.                                                     *)
(***************************************************************************)
EXTENDS EudaqControl

CONSTANTS Replicas,   \* the clients that the ini file names
          MaxKeys     \* bound: keys but Q that are pressed

ASSUME ITS3RunControlAssumption == Replicas \subseteq Clients /\ MaxKeys \in Nat

VARIABLES
  user,      \* where the user's thread is
  goal,      \* the state that wait_replicas was last called with
  left,      \* replicas that its round has still to look at
  status,    \* self.status: what DoStatus was last called with
  running,   \* self.running
  halt,      \* self.halt
  lock,      \* self.lock: "free", or "cmd" while a callback has it
  cb,        \* the connection whose callback the command thread is in
  cbpc,      \* where it is there: "none", "status" or "other", or "draw"
  tui,       \* the loop: "free", the key whose handler wants the lock, or "left"
  keys,      \* how many keys but Q were pressed (for the bound alone)
  late       \* how many runs were started after halt was set

userVars == <<user, goal, left>>
flagVars == <<running, halt, late>>
cbVars   == <<status, lock, cb, cbpc>>
keyVars  == <<tui, keys>>
uiVars   == <<userVars, flagVars, cbVars, keyVars>>

Keys == {"S", "T"}   \* R is S as long as there is one configuration file

UITypeOK ==
  /\ user \in {"scan", "check", "call", "run", "stop", "configure", "terminate",
               "terminating", "error", "failed", "done"}
  /\ goal \in {"UNINIT", "UNCONF", "CONF", "RUNNING", "STOPPED"}
  /\ left \in SUBSET Replicas
  /\ status \in [Clients -> Views]
  /\ running \in BOOLEAN /\ halt \in BOOLEAN
  /\ lock = IF cbpc = "draw" THEN "cmd" ELSE "free"
  /\ cb \in Clients \cup {NoClient}
  /\ cbpc \in {"none", "status", "other", "draw"}
  /\ cb = NoClient <=> cbpc = "none"
  /\ tui \in Keys \cup {"free", "left"}
  /\ keys \in 0 .. MaxKeys
  /\ late \in Nat

UIInit ==
  /\ Init
  /\ user = "scan" /\ goal = "UNINIT" /\ left = Replicas
  /\ status = [c \in Clients |-> "none"]
  /\ running = FALSE /\ halt = FALSE /\ late = 0
  /\ lock = "free" /\ cb = NoClient /\ cbpc = "none"
  /\ tui = "free" /\ keys = 0

-----------------------------------------------------------------------------
(***************************************************************************)
(* What a thread may have to wait for: the lock, which the user's thread   *)
(* and the keys never hold across a step of another; the loop, to have     *)
(* something drawn; and m_mtx_conn, to read the statuses of RunControl.    *)
(***************************************************************************)

LockFree  == lock = "free"
Draw      == tui = "free"
ConnsFree == cb = NoClient

\* The last call of RunControl has returned.
Returned == rcpc = "idle"

-----------------------------------------------------------------------------
(***************************************************************************)
(* wait_replicas: rounds over all replicas, and check_status after each.   *)
(***************************************************************************)

WaitFor(s) == goal' = s /\ left' = Replicas /\ user' = "scan"

\* Mutant: nobody is waited for after the first one.
ScanOne(r) ==
  /\ user = "scan" /\ Returned /\ LockFree
  /\ r \in left
  /\ user' = "check"
  /\ left' = IF status[r] = goal THEN {} ELSE left
  /\ UNCHANGED <<vars, goal, flagVars, cbVars, keyVars>>

\* A round in which one replica is elsewhere is lost.
Scan(r) ==
  /\ user = "scan" /\ Returned /\ LockFree
  /\ r \in left
  /\ IF status[r] = goal
     THEN left' = left \ {r} /\ UNCHANGED user
     ELSE user' = "check" /\ UNCHANGED left
  /\ UNCHANGED <<vars, goal, flagVars, cbVars, keyVars>>

ScanEnds ==
  /\ user = "scan" /\ Returned /\ left = {}
  /\ user' = "check"
  /\ UNCHANGED <<vars, goal, left, flagVars, cbVars, keyVars>>

InError == \E c \in Clients : status[c] = "ERROR"

\* Mutant: a round is a round.
CheckOnce ==
  /\ user = "check" /\ LockFree
  /\ user' = IF InError THEN "error" ELSE "call"
  /\ UNCHANGED <<vars, goal, left, flagVars, cbVars, keyVars>>

Check ==
  /\ user = "check" /\ LockFree
  /\ IF InError THEN user' = "error" /\ UNCHANGED <<goal, left>>
     ELSE IF left = {} THEN user' = "call" /\ UNCHANGED <<goal, left>>
     ELSE WaitFor(goal)
  /\ UNCHANGED <<vars, flagVars, cbVars, keyVars>>

-----------------------------------------------------------------------------
(***************************************************************************)
(* userlogic_runner_: what comes after each wait.                          *)
(***************************************************************************)

\* Initialise does nothing when a client is out of place.
CallInitialise ==
  /\ user = "call" /\ goal = "UNINIT" /\ ConnsFree
  /\ \/ Initialise
     \/ Known # Seen({"UNINIT", "UNCONF"}) /\ UNCHANGED vars
  /\ WaitFor("UNCONF")
  /\ UNCHANGED <<flagVars, cbVars, keyVars>>

\* The file is read again each time.
CallConfigure ==
  /\ \/ user = "configure"
     \/ user = "call" /\ goal = "UNCONF"
  /\ Draw /\ ConnsFree
  /\ ConfigureWith({})
  /\ WaitFor("CONF")
  /\ UNCHANGED <<flagVars, cbVars, keyVars>>

CallStartRun ==
  /\ user = "call" /\ goal = "CONF" /\ Draw /\ ConnsFree
  /\ StartRun
  /\ late' = IF halt THEN late + 1 ELSE late
  /\ WaitFor("RUNNING")
  /\ UNCHANGED <<running, halt, cbVars, keyVars>>

\* Whatever was said of it before, the run is running now.
RunBegins ==
  /\ user = "call" /\ goal = "RUNNING" /\ Draw /\ LockFree
  /\ running' = TRUE
  /\ user' = "run"
  /\ UNCHANGED <<vars, goal, left, halt, late, cbVars, keyVars>>

\* Every plane has NEVENTS, which may be so at any time.
EnoughEvents ==
  /\ user = "run" /\ running /\ Draw /\ LockFree
  /\ running' = FALSE
  /\ UNCHANGED <<vars, userVars, halt, late, cbVars, keyVars>>

RunChecks ==
  /\ user = "run" /\ running /\ Draw /\ LockFree
  /\ InError
  /\ user' = "error"
  /\ UNCHANGED <<vars, goal, left, flagVars, cbVars, keyVars>>

RunEnds ==
  /\ user = "run" /\ ~running
  /\ user' = "stop"
  /\ UNCHANGED <<vars, goal, left, flagVars, cbVars, keyVars>>

CallStopRun ==
  /\ user = "stop" /\ Draw /\ ConnsFree
  /\ StopRun
  /\ WaitFor("STOPPED")
  /\ UNCHANGED <<flagVars, cbVars, keyVars>>

\* Mutant: nobody looks at halt.
ShownStoppedGoesOn ==
  /\ user = "call" /\ goal = "STOPPED" /\ Draw
  /\ user' = "configure"
  /\ UNCHANGED <<vars, goal, left, flagVars, cbVars, keyVars>>

\* The end, or the same again.
ShownStopped ==
  /\ user = "call" /\ goal = "STOPPED" /\ Draw
  /\ user' = IF halt THEN "terminate" ELSE "configure"
  /\ UNCHANGED <<vars, goal, left, flagVars, cbVars, keyVars>>

\* Terminate waits for the command thread.
CallTerminate ==
  /\ user = "terminate" /\ Draw
  /\ Terminate
  /\ user' = "terminating"
  /\ UNCHANGED <<goal, left, flagVars, cbVars, keyVars>>

TerminateReturns ==
  /\ user = "terminating" /\ ConnsFree /\ LockFree
  /\ user' = "done"
  /\ halt' = TRUE
  /\ UNCHANGED <<vars, goal, left, running, late, cbVars, keyVars>>

\* userlogic_wrapper, after check_status has raised: a run is stopped if running says
\* that there is one, and nobody waits for its end.
Fail ==
  /\ user = "error" /\ Draw
  /\ IF running THEN ConnsFree /\ StopRun ELSE UNCHANGED vars
  /\ user' = "failed"
  /\ UNCHANGED <<goal, left, flagVars, cbVars, keyVars>>

UserLogic ==
  \/ ScanEnds \/ Check \/ \E r \in Replicas : Scan(r)
  \/ CallInitialise \/ CallConfigure \/ CallStartRun \/ CallStopRun \/ CallTerminate
  \/ RunBegins \/ RunChecks \/ RunEnds \/ ShownStopped \/ TerminateReturns \/ Fail

\* The inside of a call.  GetConnectionStatus takes m_mtx_conn.
InsideCall ==
  /\ \/ OthersStarted \/ CollectorsStarted \/ StartLastProducer
     \/ StopProducers \/ StopCollectors \/ StopOthers
     \/ InitialiseEnds \/ SendConfig
     \/ \E c \in Clients : StartServer(c)
     \/ /\ ConnsFree
        /\ \/ SeeRunning
           \/ \E c \in Clients : \/ InitialiseSingleConnection(c) \/ SeeAddress(c)
                                  \/ SeeLeftConf(c) \/ SeeStopped(c) \/ NullStatus(c)
  /\ UNCHANGED uiVars

-----------------------------------------------------------------------------
(***************************************************************************)
(* The command thread.                                                     *)
(***************************************************************************)

\* DoConnect follows the handshake, if the connection was accepted.
AcceptConnection(c) ==
  /\ ConnsFree
  /\ Connect(c)
  /\ IF listening THEN cb' = c /\ cbpc' = "other" ELSE UNCHANGED <<cb, cbpc>>
  /\ UNCHANGED <<userVars, flagVars, status, lock, keyVars>>

\* DoStatus, or DoDisconnect.
Receive(c) ==
  /\ ConnsFree
  /\ ReceiveStatus(c)
  /\ cb' = c
  /\ cbpc' = IF Head(statq[c]) = "BYE" THEN "other" ELSE "status"
  /\ UNCHANGED <<userVars, flagVars, status, lock, keyVars>>

\* What has a line in the table: replicas, but of the connection as such only those
\* that are producers.
Drawn(c) == c \in Replicas /\ (cbpc = "status" \/ c \in Producers)

\* A client that has left keeps its last status here.
CallbackLocks ==
  /\ cbpc \in {"status", "other"} /\ LockFree
  /\ status' = IF cbpc = "status" THEN [status EXCEPT ![cb] = view[cb]] ELSE status
  /\ IF Drawn(cb)
     THEN lock' = "cmd" /\ cbpc' = "draw" /\ UNCHANGED cb
     ELSE cb' = NoClient /\ cbpc' = "none" /\ UNCHANGED lock
  /\ UNCHANGED <<vars, userVars, flagVars, keyVars>>

\* Mutant: the lock is kept.
CallbackKeepsLock ==
  /\ cbpc = "draw" /\ Draw
  /\ cb' = NoClient
  /\ cbpc' = "none"
  /\ UNCHANGED <<vars, userVars, flagVars, status, lock, keyVars>>

\* It waits for the loop with the lock and m_mtx_conn held.
CallbackDraws ==
  /\ cbpc = "draw" /\ Draw
  /\ lock' = "free"
  /\ cb' = NoClient
  /\ cbpc' = "none"
  /\ UNCHANGED <<vars, userVars, flagVars, status, keyVars>>

Callback == CallbackLocks \/ CallbackDraws

-----------------------------------------------------------------------------
(***************************************************************************)
(* The keys.                                                               *)
(***************************************************************************)

PressKey(k) ==
  /\ tui = "free" /\ keys < MaxKeys
  /\ keys' = keys + 1
  /\ tui' = k
  /\ UNCHANGED <<vars, userVars, flagVars, cbVars>>

HandleKey ==
  /\ tui \in Keys /\ LockFree
  /\ running' = FALSE
  /\ halt' = (halt \/ tui = "T")
  /\ tui' = "free"
  /\ UNCHANGED <<vars, userVars, late, cbVars, keys>>

\* Q: the program's main thread ends, and nothing is drawn any more.
Quit ==
  /\ tui = "free" /\ halt
  /\ tui' = "left"
  /\ UNCHANGED <<vars, userVars, flagVars, cbVars, keys>>

-----------------------------------------------------------------------------

\* What has no part in the user interface.
Elsewhere ==
  /\ \/ PollStatus
     \/ \E c \in Clients : Handler(c) \/ LoopReturns(c) \/ LoopThrows(c) \/ Crash(c)
  /\ UNCHANGED uiVars

UINext ==
  \/ UserLogic \/ EnoughEvents \/ InsideCall
  \/ \E c \in Clients : AcceptConnection(c) \/ Receive(c)
  \/ Callback
  \/ \E k \in Keys : PressKey(k)
  \/ HandleKey \/ Quit
  \/ Elsewhere

allVars == <<vars, uiVars>>

UISpec == UIInit /\ [][UINext]_allVars

\* All threads run, and a key gets the lock if it is free again and again.  What is
\* not scheduled here is the shifter, and the beam.
UIFairness ==
  /\ WF_allVars(UserLogic) /\ WF_allVars(InsideCall)
  /\ WF_allVars(Callback) /\ SF_allVars(HandleKey)
  /\ \A c \in Clients : /\ WF_allVars(Receive(c))
                        /\ WF_allVars(Handler(c) /\ UNCHANGED uiVars)
                        /\ WF_allVars(LoopReturns(c) /\ UNCHANGED uiVars)

FairUISpec == UISpec /\ UIFairness

-----------------------------------------------------------------------------
(***************************************************************************)
(* Properties.                                                             *)
(***************************************************************************)

\* When wait_replicas has returned, all replicas are really where they were waited
\* for, with nothing but polls on the way to them, or they have failed since, although
\* each of them was looked at on its own, at another time, through a status that had
\* been under way (ITS3RunControl.py:310-330).
Settled ==
  user \in {"call", "run", "stop", "configure", "terminate"} =>
    \A r \in Replicas :
      \/ conn[r] = "gone"
      \/ /\ st[r] \in {goal, "ERROR"}
         /\ hpc[r] \in {"idle", "dead"}
         /\ \A i \in DOMAIN cmdq[r] : cmdq[r][i].op = "STATUS"

Over == user \in {"failed", "terminating", "done"}

\* StopRun listens again: after a failure it is what tells that a run was stopped.
Stage == IF goal = "RUNNING" /\ listening THEN "STOPPED" ELSE goal

Place(r) == IF conn[r] = "up" THEN st[r] ELSE conn[r]

\* The replicas go from state to state together, and from run to run, although nobody
\* has their states but as statuses that were sent earlier (ITS3RunControl.py:310-395).
Cycle == INSTANCE RunCycle WITH
  stage <- Stage, number <- runN, over <- Over,
  at    <- [r \in Replicas |-> Place(r)],
  inRun <- [r \in Replicas |-> IF Place(r) = "RUNNING" THEN run[r] ELSE 0]
CycleSpec == Cycle!Spec

\* Replicas that are running are in the same run, although each of them has got its
\* number with a START of its own (ITS3RunControl.py:383-392, RunControl.cc:217-275).
OneRun ==
  \A r, s \in Replicas : Place(r) = "RUNNING" /\ Place(s) = "RUNNING" => run[r] = run[s]

\* T ends the series: one more run at most is started after it, the one that was being
\* prepared (ITS3RunControl.py:64-67, 383).
HaltIsHeard == late <= 1

\* The footer, ITS3RunControl.py:175: "Hotkeys: [S]top run, [R]estart run, [T]erminate,
\* [Q]uit".  A key that was pressed is handled.
DocHotkeys == tui \in Keys ~> tui \notin Keys
=============================================================================
