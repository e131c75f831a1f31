------------------------------ MODULE RunCycle ------------------------------
(***************************************************************************)
(* What a run control promises that takes its replicas from state to state *)
(* together: a barrier at every stage.  The next stage is called for when  *)
(* all replicas are in this one, apart from those that have failed or      *)
(* left; each then comes along at its own time, from the stage before, and *)
(* takes part in the run that is being made.                               *)
(***************************************************************************)
EXTENDS Naturals

CONSTANT Replicas   \* the clients that are waited for

VARIABLES
  stage,   \* the state that all replicas are called to
  number,  \* the runs that are over
  at,      \* where each replica is
  inRun,   \* the run it is in while it is RUNNING, or else 0
  over     \* nothing more is called for

vars == <<stage, number, at, inRun, over>>

Stages == {"UNINIT", "UNCONF", "CONF", "RUNNING", "STOPPED"}

Follows(s, t) ==
  <<s, t>> \in {<<"absent", "UNINIT">>, <<"UNINIT", "UNCONF">>, <<"UNCONF", "CONF">>,
                <<"CONF", "RUNNING">>, <<"RUNNING", "STOPPED">>, <<"STOPPED", "CONF">>}

Init ==
  /\ stage = "UNINIT" /\ number = 0 /\ over = FALSE
  /\ at = [r \in Replicas |-> "absent"]
  /\ inRun = [r \in Replicas |-> 0]

Enter(r, s) ==
  /\ at' = [at EXCEPT ![r] = s]
  /\ inRun' = [inRun EXCEPT ![r] = IF s = "RUNNING" THEN number ELSE 0]
  /\ UNCHANGED <<stage, number, over>>

\* A replica that has failed may do what it is told all the same.
Arrive(r) ==
  /\ Follows(at[r], stage) \/ (at[r] = "ERROR" /\ stage # "UNINIT")
  /\ Enter(r, stage)

Fail(r) == at[r] \in Stages /\ Enter(r, "ERROR")

Leave(r) == at[r] \in Stages \cup {"ERROR"} /\ Enter(r, "gone")

\* The last thing that may be called for is the end of a run.
Advance(s) ==
  /\ ~over
  /\ Follows(stage, s)
  /\ \A r \in Replicas : at[r] \in {stage, "ERROR", "gone"}
  /\ stage' = s
  /\ number' = IF s = "STOPPED" THEN number + 1 ELSE number
  /\ over' \in {FALSE, s = "STOPPED"}
  /\ UNCHANGED <<at, inRun>>

End == ~over /\ over' = TRUE /\ UNCHANGED <<stage, number, at, inRun>>

Next ==
  \/ \E r \in Replicas : Arrive(r) \/ Fail(r) \/ Leave(r)
  \/ \E s \in Stages : Advance(s)
  \/ End

Spec == Init /\ [][Next]_vars
=============================================================================
