---------------------------- MODULE LeadWorkflow ----------------------------
(***************************************************************************)
(* The rules of a lead's workflow: its statuses, the transition matrix of  *)
(* lead_workflow_rules.py, the duplicate gate of lead_workflow_models.py   *)
(* and the status a workflow is created with.                              *)
(***************************************************************************)

Moves == [
  hold           |-> {"monitor", "review"},
  monitor        |-> {"review", "ready", "hold"},
  review         |-> {"ready", "hold", "monitor"},
  ready          |-> {"active", "paused", "closed_no_fit"},
  active         |-> {"paused", "closed_success", "closed_no_fit"},
  paused         |-> {"active", "closed_no_fit"},
  closed_success |-> {},
  closed_no_fit  |-> {}]

LeadStatus == DOMAIN Moves

\* Statuses an operator may act on: an unresolved duplicate blocks them.
Actionable == {"ready", "active", "paused", "closed_success"}

\* What dedupe said of the lead; every verdict but "unique" is unresolved, and
\* becomes a limitation the workflow carries for ever.
Verdicts == {"unique", "duplicate", "review_needed"}
Unresolved == {"duplicate", "review_needed"}

PackageStatus == {"hold", "monitor", "review_required", "ready"}

\* _initial_status: a duplicate holds, then the package's hold, then review.
InitialStatus(package, verdict) ==
  CASE verdict = "duplicate" \/ package = "hold" -> "hold"
    [] verdict = "review_needed" /\ package # "hold" -> "review"
    [] verdict = "unique" /\ package = "monitor" -> "monitor"
    [] verdict = "unique" /\ package = "review_required" -> "review"
    [] OTHER -> "ready"
=============================================================================
