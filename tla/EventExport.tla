----------------------------- MODULE EventExport -----------------------------
(***************************************************************************)
(* What vi_events promises: the requested events are gathered one by one,  *)
(* none twice; then one report is published, in ascending order of event   *)
(* id and holding nothing that was not gathered before; or the command     *)
(* fails without a report.  Nothing is gathered afterwards.                *)
(***************************************************************************)
EXTENDS Integers, Sequences, Functions

VARIABLES requested, collected, report, outcome

Outcome == {"pending", "done", "failed"}

\* An item is an event found under an inventory object: <<object, event id>>.
Ascending(f) == \A i, j \in DOMAIN f : i <= j => f[i][2] <= f[j][2]

Init ==
  /\ collected = {}
  /\ report = <<>>
  /\ outcome = "pending"

Collect ==
  /\ outcome = "pending"
  /\ \E x \in requested \ collected : collected' = collected \cup {x}
  /\ UNCHANGED <<requested, report, outcome>>

Publish ==
  /\ outcome = "pending"
  /\ outcome' = "done"
  /\ Ascending(report') /\ IsInjective(report')
  /\ Range(report') \subseteq collected
  /\ UNCHANGED <<requested, collected>>

Fail ==
  /\ outcome = "pending"
  /\ outcome' = "failed"
  /\ UNCHANGED <<requested, collected, report>>

Next == Collect \/ Publish \/ Fail

Spec == Init /\ [][Next]_<<requested, collected, report, outcome>>

=============================================================================
