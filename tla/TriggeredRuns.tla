---------------------------- MODULE TriggeredRuns ----------------------------
(***************************************************************************)
(* What the planes of a telescope promise the event builder, which puts    *)
(* the n-th events of all planes together: the n-th data event of every    *)
(* plane is of the n-th trigger of the run, no plane begins a run that has *)
(* had triggers, and one that has said that the run is over has sent all   *)
(* of it.                                                                  *)
(***************************************************************************)
EXTENDS Naturals, Sequences

CONSTANTS Planes,
          Triggers   \* what triggers are told apart by

VARIABLES
  given,    \* the triggers of each run
  joined,   \* the run whose events a plane sends; 0 before its first
  out,      \* the triggers of the data events it has sent in that run
  ended     \* it has said that the run is over

vars == <<given, joined, out, ended>>

Init ==
  /\ given = <<>>
  /\ joined = [p \in Planes |-> 0]
  /\ out = [p \in Planes |-> <<>>]
  /\ ended = [p \in Planes |-> FALSE]

NewRun ==
  /\ given' = Append(given, <<>>)
  /\ UNCHANGED <<joined, out, ended>>

\* A begin of run event.
Begin(p) ==
  /\ given # <<>> /\ joined[p] < Len(given) /\ given[Len(given)] = <<>>
  /\ joined' = [joined EXCEPT ![p] = Len(given)]
  /\ out' = [out EXCEPT ![p] = <<>>]
  /\ ended' = [ended EXCEPT ![p] = FALSE]
  /\ UNCHANGED given

Trigger(t) ==
  /\ given # <<>> /\ \A p \in Planes : joined[p] = Len(given) => ~ended[p]
  /\ given' = [given EXCEPT ![Len(given)] = Append(@, t)]
  /\ UNCHANGED <<joined, out, ended>>

Data(p) ==
  /\ joined[p] > 0 /\ Len(out[p]) < Len(given[joined[p]])
  /\ out' = [out EXCEPT ![p] = Append(@, given[joined[p]][Len(@) + 1])]
  /\ UNCHANGED <<given, joined, ended>>

\* An end of run event.
End(p) ==
  /\ joined[p] > 0 /\ out[p] = given[joined[p]]
  /\ ended' = [ended EXCEPT ![p] = TRUE]
  /\ UNCHANGED <<given, joined, out>>

Next ==
  \/ NewRun
  \/ \E t \in Triggers : Trigger(t)
  \/ \E p \in Planes : Begin(p) \/ Data(p) \/ End(p)

Spec == Init /\ [][Next]_vars
=============================================================================
