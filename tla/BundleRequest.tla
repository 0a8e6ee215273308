---------------------------- MODULE BundleRequest ----------------------------
(***************************************************************************)
(* What support_bundle promises of one request: the server generates the   *)
(* bundles, or the request ends with an error and without a download; then *)
(* each bundle is settled once, saved or given up by itself; and the       *)
(* request ends when none is pending.  Nothing is settled afterwards.      *)
(***************************************************************************)
CONSTANT Bundle

VARIABLES
  state,    \* of the request
  bundles,  \* what the server generated
  outcome   \* of each bundle

vars == <<state, bundles, outcome>>

Init ==
  /\ state = "asked"
  /\ bundles = {}
  /\ outcome = [b \in Bundle |-> "pending"]

Generate ==
  /\ state = "asked" /\ state' = "generated"
  /\ bundles' \subseteq Bundle
  /\ UNCHANGED outcome

Fail ==
  /\ state = "asked" /\ state' = "error"
  /\ UNCHANGED <<bundles, outcome>>

Settle(b) ==
  /\ state = "generated"
  /\ outcome[b] = "pending"
  /\ \E o \in {"saved", "given up"} : outcome' = [outcome EXCEPT ![b] = o]
  /\ UNCHANGED <<state, bundles>>

Finish ==
  /\ state = "generated" /\ state' = "finished"
  /\ \A b \in bundles : outcome[b] # "pending"
  /\ UNCHANGED <<bundles, outcome>>

Next == Generate \/ Fail \/ Finish \/ \E b \in bundles : Settle(b)

Spec == Init /\ [][Next]_vars

=============================================================================
