-------------------------- MODULE ITS3RunControlInv --------------------------
(***************************************************************************)
(* Why the ITS3 run control may believe its replicas: the inductive        *)
(* invariant behind Settled and DocStopOrder of ITS3RunControl.            *)
(*                                                                         *)
(* A status that wait_replicas waits for can only have been sent after the *)
(* one command that leads there, and all that follows it is the same       *)
(* status again, or ERROR.                                                 *)
(***************************************************************************)
EXTENDS ITS3RunControl, EudaqControlInv

Now(g) == {g, "ERROR"}

\* From here on g again and again, and from some point on ERROR.
Stays(q, s, g) ==
  /\ s \in Now(g)
  /\ \A i \in DOMAIN q :
       /\ q[i] \in Now(g)
       /\ q[i] = "ERROR" => s = "ERROR" /\ \A j \in DOMAIN q : j > i => q[j] = "ERROR"

\* The last status received (v), those under way (q) and the state (s) are all g's.
Arrived(v, q, s, g) ==
  /\ v \in Now(g)
  /\ v = "ERROR" => s = "ERROR" /\ \A i \in DOMAIN q : q[i] = "ERROR"
  /\ Stays(q, s, g)

\* They are so after the first that is g.
Arriving(v, q, s, g) ==
  /\ v = g => Arrived(v, q, s, g)
  /\ \A i \in DOMAIN q : q[i] = g =>
       /\ s \in Now(g)
       /\ \A j \in DOMAIN q : j > i =>
            /\ q[j] \in Now(g)
            /\ q[j] = "ERROR" => s = "ERROR" /\ \A k \in DOMAIN q : k > j => q[k] = "ERROR"

\* Nothing but polls to be done, or one command more that is in hand or under way.
Calm(h, q) == h \in {"idle", "dead"} /\ OnlyStatus(q)
OneOpen(h, q) ==
  IF h \in {"idle", "dead"}
  THEN OnlyStatus(q) \/ \E k \in DOMAIN q : \A j \in DOMAIN q : j # k => q[j].op = "STATUS"
  ELSE OnlyStatus(q)

\* Those of the batch that the call in progress has still to send a command to.
Unsent ==
  IF rcpc = "initialise" THEN todo
  ELSE IF rcpc = "configure" THEN batch
  ELSE IF rcpc = "startOthers" THEN todo \cup (batch \cap (Collectors \cup Producers))
  ELSE IF rcpc = "startCollectors" THEN todo \cup (batch \cap Producers)
  ELSE IF rcpc = "startProducers" THEN batch \cap {LastStart}
  ELSE IF rcpc = "stopFirst" THEN batch \ {FirstStop}
  ELSE IF rcpc = "stopProducers" THEN batch \cap Servers
  ELSE IF rcpc = "stopOthers" THEN batch \cap Others
  ELSE {}

\* The replicas that wait_replicas has found where it waits for them.
Here ==
  IF user \in {"scan", "check"} THEN Replicas \ left
  ELSE IF user = "error" /\ ~running THEN {}
  ELSE Replicas

Reached(c) ==
  \/ status[c] = goal \/ view[c] = goal \/ st[c] = goal
  \/ \E i \in DOMAIN statq[c] : statq[c][i] = goal

Fresh(c) ==
  /\ status[c] = "none" /\ view[c] = "none" /\ statq[c] = <<>> /\ st[c] \in {"UNINIT", "ERROR"}
  /\ hpc[c] = "idle" /\ cmdq[c] = <<>>
  /\ c \notin Here /\ c \notin batch

Tracked(c) ==
  /\ Arriving(view[c], statq[c], st[c], goal)
  /\ status[c] = goal => Arrived(view[c], statq[c], st[c], goal)
  /\ OneOpen(hpc[c], cmdq[c])
  /\ c \in Unsent => Calm(hpc[c], cmdq[c])
  /\ Reached(c) => Calm(hpc[c], cmdq[c]) /\ c \notin Unsent
  /\ c \in Here => /\ status[c] \in Now(goal)
                   /\ Arrived(view[c], statq[c], st[c], goal)
                   /\ Calm(hpc[c], cmdq[c])

ReplicaInv(c) ==
  \/ conn[c] = "gone"
  \/ conn[c] = "absent" /\ Fresh(c)
  \/ conn[c] = "up" /\ Tracked(c)

\* Where the user's thread is, and what it has called.
UserInv ==
  /\ user \in {"run", "stop"} => goal = "RUNNING"
  /\ user \in {"configure", "terminate"} => goal = "STOPPED"
  /\ running => goal = "RUNNING" /\ user \in {"run", "error", "failed"}
  /\ ~Over /\ rcpc # "idle" => user = "scan" /\ left = Replicas

\* The inductive invariant behind Settled (ITS3RunControl.py:310-330).
SettledInv == UserInv /\ (~Over => \A c \in Replicas : ReplicaInv(c))

-----------------------------------------------------------------------------
\* The commands that a replica may have under way: those that lead to the stage.
Leads(m) ==
  \/ m.op \in {"STATUS", "TERMINATE"}
  \/ m.op = "INIT" /\ Stage = "UNCONF"
  \/ m.op = "CONFIG" /\ Stage = "CONF"
  \/ m.op = "START" /\ m.run = runN /\ Stage = "RUNNING"
  \/ m.op = "STOP" /\ Stage = "STOPPED"

\* The run that is being made, or that has just been.
ThisRun == IF Stage = "RUNNING" THEN runN ELSE runN - 1

\* A replica is in the stage or in the one before, and what it does leads there.
InCycle(c) ==
  IF conn[c] = "absent"
  THEN /\ goal = "UNINIT" /\ st[c] = "UNINIT"
       /\ hpc[c] = "idle" /\ loop[c] = "none" /\ cmdq[c] = <<>>
  ELSE conn[c] = "up" =>
    /\ \A i \in DOMAIN cmdq[c] : Leads(cmdq[c][i])
    /\ hpc[c] \in {"idle", "dead"}
         \/ (hpc[c] = "starting" /\ Stage = "RUNNING" /\ run[c] = runN)
         \/ (hpc[c] = "stopping" /\ Stage = "STOPPED")
    /\ st[c] \in Now(Stage) \/ Cycle!Follows(st[c], Stage)
    /\ st[c] = "RUNNING" => run[c] = ThisRun

\* Where the calls of RunControl belong.
StageInv ==
  /\ goal = "UNINIT" => listening
  /\ goal = "RUNNING" /\ ~Over => ~listening
  /\ rcpc = "initialise" => Stage = "UNCONF"
  /\ rcpc = "configure" => Stage = "CONF"
  /\ rcpc \in {"startOthers", "startCollectors", "startProducers"} => Stage = "RUNNING"
  /\ rcpc \in {"stopFirst", "stopProducers", "stopOthers"} => Stage = "STOPPED"

\* The inductive invariant, with SettledInv, behind CycleSpec and OneRun.
CycleInv == StageInv /\ \A c \in Replicas : InCycle(c)

-----------------------------------------------------------------------------
\* The producers whose end StopRun has still to see.
Unseen ==
  IF rcpc = "stopFirst" THEN todo \cup (batch \ {FirstStop})
  ELSE IF rcpc = "stopProducers" THEN todo
  ELSE {}

StopPhase == rcpc \in {"stopFirst", "stopProducers", "stopOthers"}

\* The invariant behind DocStopOrder: no producer starts again, and what was seen to
\* have stopped has stopped (RunControl.cc:291-334).
StopInv ==
  StopPhase =>
    \A p \in Producers :
      \/ conn[p] = "gone"
      \/ /\ conn[p] = "up"
         /\ NoStart(cmdq[p]) /\ hpc[p] # "starting"
         /\ FallsOf(p)
         /\ p \notin Unseen => view[p] # "RUNNING"
=============================================================================
