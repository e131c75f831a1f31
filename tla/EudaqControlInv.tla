--------------------------- MODULE EudaqControlInv ---------------------------
(***************************************************************************)
(* Why StartRun may trust the statuses it reads: the inductive invariant   *)
(* behind ServersUpFirst and NoServerOverlooked of EudaqControl.           *)
(*                                                                         *)
(* RunControl never sees the state of a server, only the last status       *)
(* received, while others are under way.  What it last received, what is   *)
(* on the way and what the server is in now are read here as one sequence, *)
(* oldest first: v, then q, then s.                                        *)
(***************************************************************************)
EXTENDS EudaqControl

R == "RUNNING"

\* What typing rests on: a loop over todo is finished before its call returns,
\* and a START carries the number StartRun was called with.
TypeInv ==
  /\ TypeOK
  /\ rcpc \in {"idle", "stopOthers"} => todo = {}
  /\ rcpc \in {"startOthers", "startCollectors", "startProducers"} => runN <= MaxRun

\* RUNNING does not occur.
Quiet(v, q, s) == v # R /\ s # R /\ \A i \in DOMAIN q : q[i] # R

\* After anything but RUNNING, RUNNING does not come again.
Falls(v, q, s) ==
  /\ v # R => Quiet(v, q, s)
  /\ \A i \in DOMAIN q :
       q[i] # R => s # R /\ \A j \in DOMAIN q : j > i => q[j] # R

\* RUNNING may come once more, and when it is over it does not come again.
Peaks(v, q, s) ==
  /\ v = R => Falls(v, q, s)
  /\ \A h, i \in DOMAIN q :
       q[h] = R /\ h < i /\ q[i] # R =>
         s # R /\ \A j \in DOMAIN q : j > i => q[j] # R

NoStart(q)    == \A i \in DOMAIN q : q[i].op # "START"
OnlyStatus(q) == \A i \in DOMAIN q : q[i].op = "STATUS"

\* One START, for run r, and nothing but polls after it.
StartQueued(q, r) ==
  \E k \in DOMAIN q :
    /\ q[k] = Start(r)
    /\ \A j \in DOMAIN q : /\ j < k => q[j].op # "START"
                           /\ j > k => q[j].op = "STATUS"

-----------------------------------------------------------------------------
QuietOf(c) == Quiet(view[c], statq[c], st[c])
FallsOf(c) == Falls(view[c], statq[c], st[c])
PeaksOf(c) == Peaks(view[c], statq[c], st[c])

\* The awaited server, from the START sent to the RUNNING seen.
Asked(c)    == StartQueued(cmdq[c], runN) /\ hpc[c] # "starting" /\ QuietOf(c)
Starting(c) == hpc[c] = "starting" /\ run[c] = runN /\ OnlyStatus(cmdq[c]) /\ QuietOf(c)
Serving(c)  == /\ run[c] = runN /\ st[c] \in {R, "ERROR"}
               /\ hpc[c] \in {"idle", "dead"} /\ OnlyStatus(cmdq[c])

AwaitedInv(c) ==
  \/ Asked(c)
  \/ Starting(c)
  \/ Serving(c) /\ PeaksOf(c)
  \/ conn[c] = "gone" /\ PeaksOf(c)
  \/ ~Reachable(c) /\ QuietOf(c)

\* The servers StartRun has still to send a START to.
Waiting ==
  IF rcpc = "startOthers" THEN todo \cup (batch \cap Collectors)
  ELSE IF rcpc = "startCollectors" THEN todo
  ELSE {}

\* The servers whose RUNNING it has seen.
Visited ==
  IF rcpc = "startOthers" THEN (batch \cap Others) \ (todo \cup {cur})
  ELSE IF rcpc = "startCollectors" THEN (batch \cap Servers) \ (todo \cup {cur})
  ELSE IF rcpc = "startProducers" THEN batch \cap Servers
  ELSE {}

ServerInv(c) ==
  /\ conn[c] = "absent" => view[c] = "none" /\ statq[c] = <<>>
  /\ conn[c] # "up" => cmdq[c] = <<>> /\ hpc[c] = "idle" /\ st[c] # R
  /\ c \in batch => conn[c] # "absent"
  /\ c # cur => NoStart(cmdq[c]) /\ hpc[c] # "starting" /\ FallsOf(c)
  /\ c \in Waiting => view[c] # R
  /\ c = cur => AwaitedInv(c)
  /\ c \in Visited => conn[c] = "gone" \/ Serving(c)

PhaseInv ==
  /\ cur \in (Servers \cap batch) \cup {NoClient}
  /\ cur # NoClient => rcpc \in {"startOthers", "startCollectors"} /\ cur \notin todo
  /\ rcpc = "startOthers" => todo \subseteq batch \cap Others /\ cur \notin Collectors
  /\ rcpc = "startCollectors" => todo \subseteq batch \cap Collectors /\ cur \notin Others

\* The inductive invariant: for every server, what RunControl takes it to be
\* bears on what it will be once all that is under way has arrived
\* (RunControl.cc:200-289, 304-334; CommandReceiver.cc:105-113).
Inductive == TypeInv /\ PhaseInv /\ \A c \in Servers : ServerInv(c)

\* A goodbye is the last word of a client, and all that leads up to it is on record.
PartingInv(c) ==
  /\ \A i \in DOMAIN statq[c] :
       statq[c][i] = "BYE" => i = Len(statq[c]) /\ conn[c] = "gone"
  /\ conn[c] = "absent" => statq[c] = <<>> /\ view[c] = "none" /\ c \notin batch
  /\ conn[c] = "up" => view[c] # "none"
  /\ statq[c] # <<>> => view[c] # "none"

\* The inductive invariant behind OnRecord: a status and the disconnection come
\* through one socket, in order (TransportTCP.cc:329-360, RunControl.cc:434-499).
Parting == TypeInv /\ \A c \in Clients : PartingInv(c)
=============================================================================
