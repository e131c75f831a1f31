--------------------------- MODULE ALPIDETelescope ---------------------------
(***************************************************************************)
(* The ALPIDE planes of the telescope: for each of them a DAQ board, which *)
(* keeps what it knows when a process ends, and the producer that drives   *)
(* it, with its command thread and its RunLoop.  One board is the primary  *)
(* and gives the triggers; a board that is busy keeps all from being       *)
(* triggered.                                                              *)
(*                                                                         *)
(* RunControl is here what EudaqControl shows in detail, but makes a call  *)
(* only when all that it sent before was answered, as ITS3RunControl does  *)
(* (Settled).                                                              *)
(***************************************************************************)
EXTENDS Naturals, Sequences

CONSTANTS Planes,
          Primary,       \* the plane that starts last and stops first
          Faulty,        \* planes whose board or whose process may fail
          Depth,         \* events that a board holds before it is busy
          MaxRuns,       \* bound: runs
          MaxTriggers    \* bound: triggers that are recorded, of all runs

ASSUME TelescopeAssumption ==
  /\ Primary \in Planes /\ Faulty \subseteq Planes
  /\ Depth \in Nat \ {0} /\ MaxRuns \in Nat
  /\ MaxTriggers \in Nat

VARIABLES
  rc,          \* where RunControl is: "idle", or in the wait of StartRun or StopRun
  listening,   \* m_listening
  chosen,      \* conn_to_run, conn_to_stop
  st,          \* the status of the producer; "gone" while there is no process
  known,       \* its triggermode is set
  cmd,         \* the command that it has not handled yet
  hpc,         \* where its command thread is in a handler
  loop,        \* where its RunLoop is
  running,     \* is_running
  forced,      \* the board was told to be busy
  fifo,        \* the triggers whose data the board holds
  trg,         \* how many triggers were recorded, or Unrecorded
  given, joined, out, ended   \* see TriggeredRuns

rcVars    == <<rc, listening, chosen>>
cmdVars   == <<st, known, cmd, hpc>>
boardVars == <<forced, fifo>>
runVars   == <<given, joined, out, ended>>
vars == <<rcVars, cmdVars, loop, running, boardVars, trg, runVars>>

\* In a behaviour whose triggers are recorded there is an end of them, and they are told
\* apart by their numbers.  In the others neither is so.
Unrecorded == MaxTriggers + 1
Recorded == trg # Unrecorded

Runs == INSTANCE TriggeredRuns WITH Triggers <- 1 .. MaxTriggers

TypeOK ==
  /\ rc \in {"idle", "start", "stop", "stopall"}
  /\ listening \in BOOLEAN
  /\ chosen \subseteq Planes
  /\ st \in [Planes -> {"gone", "uninit", "unconf", "conf", "running", "stopped", "error"}]
  /\ known \in [Planes -> BOOLEAN]
  /\ cmd \in [Planes -> {"none", "INIT", "CONFIG", "START", "STOP", "RESET"}]
  /\ hpc \in [Planes -> {"none", "config", "armed", "launched", "stop", "reset",
                         "stopping", "resetting"}]
  /\ loop \in [Planes -> {"none", "look", "read", "flush", "drain", "eore", "done", "failed"}]
  /\ running \in [Planes -> BOOLEAN]
  /\ forced \in [Planes -> BOOLEAN]
  /\ fifo \in [Planes -> Seq(Nat)] /\ \A p \in Planes : Len(fifo[p]) <= Depth
  /\ trg \in 0 .. Unrecorded
  /\ given \in Seq(Seq(Nat))
  /\ joined \in [Planes -> Nat]
  /\ out \in [Planes -> Seq(Nat)]
  /\ ended \in [Planes -> BOOLEAN]

\* A board may be left in any state by whoever used it last.
Init ==
  /\ rc = "idle" /\ listening = TRUE /\ chosen = {}
  /\ st = [p \in Planes |-> "uninit"]
  /\ known = [p \in Planes |-> FALSE]
  /\ cmd = [p \in Planes |-> "none"]
  /\ hpc = [p \in Planes |-> "none"]
  /\ loop = [p \in Planes |-> "none"]
  /\ running = [p \in Planes |-> FALSE]
  /\ forced = [p \in Planes |-> FALSE]
  /\ fifo \in [Planes -> {<<>>, <<0>>}]
  /\ trg \in {0, Unrecorded}
  /\ given = <<>>
  /\ joined = [p \in Planes |-> 0]
  /\ out = [p \in Planes |-> <<>>]
  /\ ended = [p \in Planes |-> FALSE]

-----------------------------------------------------------------------------
(***************************************************************************)
(* The calls of RunControl.                                                *)
(***************************************************************************)

In(states) == {p \in Planes : st[p] \in states}

\* All commands were answered.
Quiet == rc = "idle" /\ \A p \in Planes : cmd[p] = "none" /\ hpc[p] = "none"

SendCommand(command, S) ==
  cmd' = [p \in Planes |-> IF p \in S THEN command ELSE cmd[p]]

Initialise ==
  /\ Quiet /\ In({"uninit"}) # {} /\ In({"conf", "running", "stopped", "error"}) = {}
  /\ SendCommand("INIT", In({"uninit"}))
  /\ UNCHANGED <<rcVars, st, known, hpc, loop, running, boardVars, trg, runVars>>

Configure ==
  /\ Quiet
  /\ SendCommand("CONFIG", In({"unconf", "conf", "stopped"}))
  /\ UNCHANGED <<rcVars, st, known, hpc, loop, running, boardVars, trg, runVars>>

Reset ==
  /\ Quiet
  /\ SendCommand("RESET", Planes \ In({"gone"}))
  /\ listening' = TRUE
  /\ UNCHANGED <<rc, chosen, st, known, hpc, loop, running, boardVars, trg, runVars>>

\* A run is started with all planes.  It is named by a number of its own here, as
\* m_run_n does not change when a run is ended by Reset.
StartRun ==
  /\ Quiet /\ In({"conf", "stopped"}) = Planes /\ Len(given) < MaxRuns
  /\ SendCommand("START", Planes \ {Primary})
  /\ rc' = "start" /\ listening' = FALSE /\ chosen' = Planes
  /\ given' = Append(given, <<>>)
  /\ UNCHANGED <<st, known, hpc, loop, running, boardVars, trg, joined, out, ended>>

\* The wait is for planes that were configured only, not for those that were stopped.
StartPrimary ==
  /\ rc = "start" /\ \A p \in chosen \ {Primary} : st[p] # "conf"
  /\ SendCommand("START", {Primary})
  /\ rc' = "idle"
  /\ UNCHANGED <<listening, chosen, st, known, hpc, loop, running, boardVars, trg, runVars>>

StopRun ==
  /\ Quiet /\ In({"running"}) # {}
  /\ SendCommand("STOP", {Primary} \cap In({"running"}))
  /\ rc' = "stop" /\ listening' = TRUE /\ chosen' = In({"running"})
  /\ UNCHANGED <<st, known, hpc, loop, running, boardVars, trg, runVars>>

StopReplicas ==
  /\ rc = "stop" /\ (Primary \in chosen => st[Primary] # "running")
  /\ SendCommand("STOP", chosen \ {Primary})
  /\ rc' = "stopall"
  /\ UNCHANGED <<listening, chosen, st, known, hpc, loop, running, boardVars, trg, runVars>>

StopRunReturns ==
  /\ rc = "stopall" /\ \A p \in chosen \ {Primary} : st[p] # "running"
  /\ rc' = "idle"
  /\ UNCHANGED <<listening, chosen, cmdVars, loop, running, boardVars, trg, runVars>>

-----------------------------------------------------------------------------
(***************************************************************************)
(* The boards.                                                             *)
(***************************************************************************)

\* Mutant: a board that is full says so too late.
BusyLate(p) ==
  forced[p] \/ Len(fifo[p]) > Depth

Busy(p) ==
  forced[p] \/ Len(fifo[p]) >= Depth

\* A trigger that no board of the chain is too busy for is given to all of them.
Trigger ==
  /\ \A p \in Planes : ~Busy(p)
  /\ Recorded => trg < MaxTriggers
  /\ trg' = IF Recorded THEN trg + 1 ELSE trg
  /\ fifo' = [p \in Planes |-> Append(fifo[p], trg')]
  /\ given' = IF Recorded /\ given # <<>>
              THEN [given EXCEPT ![Len(given)] = Append(@, trg')] ELSE given
  /\ UNCHANGED <<rcVars, cmdVars, loop, running, forced, joined, out, ended>>

armtrigger(p) == forced' = [forced EXCEPT ![p] = FALSE]

stoptrigger(p) == forced' = [forced EXCEPT ![p] = TRUE]

-----------------------------------------------------------------------------
(***************************************************************************)
(* The command thread of a producer.  Where a call to the board or to the  *)
(* collector throws, the board may have taken the last command or not.     *)
(***************************************************************************)

Take(p, command) ==
  /\ cmd[p] = command /\ hpc[p] = "none"
  /\ cmd' = [cmd EXCEPT ![p] = "none"]

SetStatus(p, s) == st' = [st EXCEPT ![p] = s]

GoTo(p, place) == hpc' = [hpc EXCEPT ![p] = place]

DoInitialise(p) ==
  /\ Take(p, "INIT") /\ st[p] = "uninit"
  /\ known' = [known EXCEPT ![p] = TRUE]
  /\ stoptrigger(p)
  /\ SetStatus(p, "unconf")
  /\ UNCHANGED <<rcVars, hpc, loop, running, fifo, trg, runVars>>

DoInitialiseFails(p) ==
  /\ Take(p, "INIT") /\ p \in Faulty
  /\ \/ UNCHANGED <<known, forced>>
     \/ known' = [known EXCEPT ![p] = TRUE] /\ (stoptrigger(p) \/ UNCHANGED forced)
  /\ SetStatus(p, "error")
  /\ UNCHANGED <<rcVars, hpc, loop, running, fifo, trg, runVars>>

DoConfigure(p) ==
  /\ Take(p, "CONFIG")
  /\ stoptrigger(p)
  /\ SetStatus(p, "unconf")
  /\ GoTo(p, "config")
  /\ UNCHANGED <<rcVars, known, loop, running, fifo, trg, runVars>>

\* Mutant: the data in the board is left there.
PurgesNothing(p) ==
  /\ hpc[p] = "config" /\ GoTo(p, "none")
  /\ SetStatus(p, "conf")
  /\ UNCHANGED <<rcVars, known, cmd, loop, running, forced, fifo, trg, runVars>>

purge_events(p) ==
  /\ hpc[p] = "config" /\ GoTo(p, "none")
  /\ fifo' = [fifo EXCEPT ![p] = <<>>]
  /\ SetStatus(p, "conf")
  /\ UNCHANGED <<rcVars, known, cmd, loop, running, forced, trg, runVars>>

DoConfigureFails(p) ==
  /\ hpc[p] = "config" /\ p \in Faulty /\ GoTo(p, "none")
  /\ \E f \in {fifo[p], <<>>} : fifo' = [fifo EXCEPT ![p] = f]
  /\ SetStatus(p, "error")
  /\ UNCHANGED <<rcVars, known, cmd, loop, running, forced, trg, runVars>>

\* The begin of run event is sent.
Bore(p) ==
  /\ joined' = [joined EXCEPT ![p] = Len(given)]
  /\ out' = [out EXCEPT ![p] = <<>>]
  /\ ended' = [ended EXCEPT ![p] = FALSE]
  /\ UNCHANGED given

DoStartRun(p) ==
  /\ Take(p, "START")
  /\ Bore(p)
  /\ armtrigger(p)
  /\ running' = [running EXCEPT ![p] = TRUE]
  /\ GoTo(p, "armed")
  /\ UNCHANGED <<rcVars, st, known, loop, fifo, trg>>

DoStartRunFails(p) ==
  /\ Take(p, "START") /\ p \in Faulty
  /\ \/ UNCHANGED <<runVars, forced>>
     \/ Bore(p) /\ (armtrigger(p) \/ UNCHANGED forced)
  /\ SetStatus(p, "error")
  /\ UNCHANGED <<rcVars, known, hpc, loop, running, fifo, trg>>

\* The future of the last RunLoop was taken before, or this would throw.
OnStartRun(p) ==
  /\ hpc[p] = "armed" /\ loop[p] = "none"
  /\ loop' = [loop EXCEPT ![p] = "look"]
  /\ GoTo(p, "launched")
  /\ UNCHANGED <<rcVars, st, known, cmd, running, boardVars, trg, runVars>>

\* It is RUNNING even if the RunLoop has failed meanwhile.
Started(p) ==
  /\ hpc[p] = "launched" /\ GoTo(p, "none")
  /\ SetStatus(p, "running")
  /\ UNCHANGED <<rcVars, known, cmd, loop, running, boardVars, trg, runVars>>

\* Mutant: the board goes on as before.
DoStopRunArmed(p) ==
  /\ Take(p, "STOP") /\ st[p] = "running"
  /\ GoTo(p, "stop")
  /\ UNCHANGED <<rcVars, st, known, loop, running, boardVars, trg, runVars>>

DoStopRun(p) ==
  /\ Take(p, "STOP") /\ st[p] = "running"
  /\ stoptrigger(p)
  /\ GoTo(p, "stop")
  /\ UNCHANGED <<rcVars, st, known, loop, running, fifo, trg, runVars>>

\* A RunLoop may have failed after the command was sent.
DoStopRunFails(p) ==
  /\ Take(p, "STOP")
  /\ IF st[p] = "running" THEN p \in Faulty /\ (stoptrigger(p) \/ UNCHANGED forced)
                          ELSE UNCHANGED forced
  /\ SetStatus(p, "error")
  /\ UNCHANGED <<rcVars, known, hpc, loop, running, fifo, trg, runVars>>

\* A board whose trigger mode is not known is left as it is.
DoReset(p) ==
  /\ Take(p, "RESET")
  /\ IF known[p] THEN stoptrigger(p) ELSE UNCHANGED forced
  /\ GoTo(p, "reset")
  /\ UNCHANGED <<rcVars, st, known, loop, running, fifo, trg, runVars>>

DoResetFails(p) ==
  /\ Take(p, "RESET") /\ p \in Faulty /\ known[p]
  /\ stoptrigger(p) \/ UNCHANGED forced
  /\ SetStatus(p, "error")
  /\ UNCHANGED <<rcVars, known, hpc, loop, running, fifo, trg, runVars>>

StopsRunning(p) ==
  /\ \/ hpc[p] = "stop" /\ GoTo(p, "stopping")
     \/ hpc[p] = "reset" /\ GoTo(p, "resetting")
  /\ running' = [running EXCEPT ![p] = FALSE]
  /\ UNCHANGED <<rcVars, st, known, cmd, loop, boardVars, trg, runVars>>

\* The RunLoop is waited for, and the exception it ended with thrown again.
Joins(p) ==
  /\ hpc[p] \in {"stopping", "resetting"} /\ loop[p] \in {"none", "done", "failed"}
  /\ SetStatus(p, IF loop[p] = "failed" THEN "error"
                  ELSE IF hpc[p] = "stopping" THEN "stopped" ELSE "uninit")
  /\ loop' = [loop EXCEPT ![p] = "none"]
  /\ GoTo(p, "none")
  /\ UNCHANGED <<rcVars, known, cmd, running, boardVars, trg, runVars>>

\* After 20 seconds.
StopTimesOut(p) ==
  /\ hpc[p] \in {"stopping", "resetting"} /\ loop[p] \notin {"none", "done", "failed"}
  /\ p \in Faulty
  /\ SetStatus(p, "error")
  /\ GoTo(p, "none")
  /\ UNCHANGED <<rcVars, known, cmd, loop, running, boardVars, trg, runVars>>

-----------------------------------------------------------------------------
(***************************************************************************)
(* The RunLoop of a producer.                                              *)
(***************************************************************************)

Loop(p, place) == loop' = [loop EXCEPT ![p] = place]

LoopLooks(p) ==
  /\ loop[p] = "look"
  /\ Loop(p, IF running[p] THEN "read" ELSE "flush")
  /\ UNCHANGED <<rcVars, cmdVars, running, boardVars, trg, runVars>>

\* What was read is sent.
read_and_send_event(p) ==
  /\ loop[p] \in {"read", "drain"} /\ fifo[p] # <<>>
  /\ out' = IF Recorded THEN [out EXCEPT ![p] = Append(@, Head(fifo[p]))] ELSE out
  /\ fifo' = [fifo EXCEPT ![p] = Tail(@)]
  /\ Loop(p, IF loop[p] = "read" THEN "look" ELSE "drain")
  /\ UNCHANGED <<rcVars, cmdVars, running, forced, trg, given, joined, ended>>

\* Nothing has come within 100 ms: then there is nothing in the board.
read_timeout(p) ==
  /\ loop[p] \in {"read", "drain"} /\ fifo[p] = <<>>
  /\ Loop(p, IF loop[p] = "read" THEN "look" ELSE "eore")
  /\ UNCHANGED <<rcVars, cmdVars, running, boardVars, trg, runVars>>

\* Mutant: what the board still holds is not read.
FlushOnly(p) ==
  /\ loop[p] = "flush" /\ Loop(p, "eore")
  /\ UNCHANGED <<rcVars, cmdVars, running, boardVars, trg, runVars>>

\* A status event.
Flush(p) ==
  /\ loop[p] = "flush" /\ Loop(p, "drain")
  /\ UNCHANGED <<rcVars, cmdVars, running, boardVars, trg, runVars>>

\* The end of run event is sent.
Eore(p) ==
  /\ loop[p] = "eore" /\ Loop(p, "done")
  /\ ended' = [ended EXCEPT ![p] = TRUE]
  /\ UNCHANGED <<rcVars, cmdVars, running, boardVars, trg, given, joined, out>>

\* An exception, maybe after an event was read.
RunLoopFails(p) ==
  /\ loop[p] \in {"look", "read", "flush", "drain", "eore"} /\ p \in Faulty
  /\ \/ UNCHANGED fifo
     \/ loop[p] \in {"read", "drain"} /\ fifo[p] # <<>> /\ fifo' = [fifo EXCEPT ![p] = Tail(@)]
  /\ SetStatus(p, "error")
  /\ Loop(p, "failed")
  /\ UNCHANGED <<rcVars, known, cmd, hpc, running, forced, trg, runVars>>

-----------------------------------------------------------------------------
(***************************************************************************)
(* Processes end and are started again.  (If one ends while RunControl     *)
(* waits for it, that ends too: NullStatus of EudaqControl.)               *)
(***************************************************************************)

Crash(p) ==
  /\ p \in Faulty /\ st[p] # "gone" /\ rc = "idle"
  /\ SetStatus(p, "gone")
  /\ known' = [known EXCEPT ![p] = FALSE]
  /\ cmd' = [cmd EXCEPT ![p] = "none"]
  /\ GoTo(p, "none")
  /\ Loop(p, "none")
  /\ running' = [running EXCEPT ![p] = FALSE]
  /\ UNCHANGED <<rcVars, boardVars, trg, runVars>>

Connect(p) ==
  /\ st[p] = "gone" /\ listening
  /\ SetStatus(p, "uninit")
  /\ UNCHANGED <<rcVars, known, cmd, hpc, loop, running, boardVars, trg, runVars>>

-----------------------------------------------------------------------------

Calls == Initialise \/ Configure \/ Reset \/ StartRun \/ StopRun

Waits == StartPrimary \/ StopReplicas \/ StopRunReturns

CommandThread(p) ==
  \/ DoInitialise(p) \/ DoInitialiseFails(p)
  \/ DoConfigure(p) \/ purge_events(p) \/ DoConfigureFails(p)
  \/ DoStartRun(p) \/ DoStartRunFails(p) \/ OnStartRun(p) \/ Started(p)
  \/ DoStopRun(p) \/ DoStopRunFails(p) \/ DoReset(p) \/ DoResetFails(p)
  \/ StopsRunning(p) \/ Joins(p) \/ StopTimesOut(p)

RunLoop(p) ==
  \/ LoopLooks(p) \/ read_and_send_event(p) \/ read_timeout(p)
  \/ Flush(p) \/ Eore(p) \/ RunLoopFails(p)

Next ==
  \/ Calls \/ Waits \/ Trigger
  \/ \E p \in Planes : CommandThread(p) \/ RunLoop(p) \/ Crash(p) \/ Connect(p)

Spec == Init /\ [][Next]_vars

Fairness ==
  /\ WF_vars(Waits)
  /\ \A p \in Planes : WF_vars(CommandThread(p)) /\ WF_vars(RunLoop(p))

FairSpec == Spec /\ Fairness

-----------------------------------------------------------------------------
(***************************************************************************)
(* Properties.                                                             *)
(***************************************************************************)

\* The n-th data event of a plane in a run is of the n-th trigger of the run, and
\* after an end of run event of any plane there are no more triggers, whatever has
\* failed, hung or been restarted, and in whatever state a board was left: nothing
\* but this lets the event builder go by positions (ALPIDEProducer.py:145-166,
\* 179-224, ITS3DataCollector.py:94-107).
RunsSpec == Runs!Spec

\* A plane that may be started has a busy board with nothing in it, although
\* DoStartRun does not purge it (ALPIDEProducer.py:80-99, 145-150, 203-206).
NoLeftovers ==
  \A p \in In({"conf", "stopped"}) : hpc[p] = "none" => forced[p] /\ fifo[p] = <<>>

\* Every command is answered, every call of RunControl returns, and the drain of a
\* RunLoop comes to its end by itself, although nothing but a board that was told to be
\* busy ever ends the triggers, and there may be failed planes among those to be told
\* (ALPIDEProducer.py:147-165, 179-207, CommandReceiver.cc:113-131).
Answered ==
  /\ \A p \in Planes : []<>(cmd[p] = "none" /\ hpc[p] = "none")
  /\ []<>(rc = "idle")
  /\ \A p \in Planes : loop[p] = "drain" ~> loop[p] # "drain"
=============================================================================
