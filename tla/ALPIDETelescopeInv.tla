------------------------- MODULE ALPIDETelescopeInv -------------------------
(***************************************************************************)
(* The inductive invariant of ALPIDETelescope.                             *)
(***************************************************************************)
EXTENDS ALPIDETelescope

\* A plane that is ready for START.
Waiting(p) == st[p] \in {"conf", "stopped"} /\ hpc[p] = "none"

\* What a command thread is doing says what its status may be.
ThreadShape(p) ==
  /\ cmd[p] = "INIT" => st[p] = "uninit"
  /\ cmd[p] = "CONFIG" => st[p] \in {"unconf", "conf", "stopped"}
  /\ cmd[p] # "none" => hpc[p] = "none"
  /\ (rc = "start" /\ p = Primary) \/ (rc = "stop" /\ p # Primary)
       => cmd[p] = "none" /\ hpc[p] = "none"
  /\ hpc[p] = "config" => st[p] = "unconf"
  /\ hpc[p] = "armed" => st[p] \in {"conf", "stopped"} /\ loop[p] = "none"
  /\ hpc[p] = "launched" => st[p] \in {"conf", "stopped", "error"}
  /\ st[p] = "running" \/ hpc[p] \in {"launched", "stop", "stopping"} => loop[p] # "none"
  /\ hpc[p] \in {"stop", "stopping"} => st[p] \in {"running", "error"}
  /\ st[p] \in {"gone", "uninit", "unconf", "conf", "stopped"} /\ hpc[p] # "launched"
       => loop[p] = "none"
  /\ st[p] \in {"unconf", "conf", "stopped", "running"} => known[p]
  /\ hpc[p] = "launched" \/ loop[p] # "none" => known[p]

\* When a board is busy because it was told so.
ForcedShape(p) ==
  /\ Waiting(p) => forced[p] /\ fifo[p] = <<>>
  /\ hpc[p] \in {"config", "stop", "stopping"} => forced[p]
  /\ hpc[p] \in {"reset", "resetting"} /\ known[p] => forced[p]
  /\ hpc[p] = "armed" => running[p]
  /\ loop[p] # "none" /\ ~running[p] => forced[p]
  /\ loop[p] \in {"flush", "drain", "eore", "done"} => ~running[p]
  /\ loop[p] \in {"eore", "done"} => fifo[p] = <<>>
  /\ ended[p] /\ joined[p] = Len(given) => forced[p]

\* The recorded triggers of what a board holds.
Record(q) == IF Recorded THEN q ELSE <<>>

\* A plane whose events are of the run: what it has sent and what its board holds are
\* the triggers so far.
RunShape(p) ==
  /\ joined[p] <= Len(given)
  /\ loop[p] # "none" \/ hpc[p] = "armed" => joined[p] = Len(given) /\ joined[p] > 0
  /\ loop[p] \notin {"none", "failed"} \/ hpc[p] = "armed"
       => out[p] \o Record(fifo[p]) = given[joined[p]]

\* The run has no trigger before its last plane was started.
FreshShape(p) ==
  cmd[p] = "START" \/ (rc = "start" /\ p = Primary)
    => Waiting(p) /\ given # <<>> /\ joined[p] < Len(given) /\ given[Len(given)] = <<>>

TelescopeInv ==
  \A p \in Planes : ThreadShape(p) /\ ForcedShape(p) /\ RunShape(p) /\ FreshShape(p)
=============================================================================
