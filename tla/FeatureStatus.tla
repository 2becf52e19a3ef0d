---------------------------- MODULE FeatureStatus ----------------------------
(***************************************************************************)
(* What the API promises about a feature's status and its ADR approval,    *)
(* without the requests, jobs and statements that bring it about: the      *)
(* edges a row of `features` may take.  A build phase is entered only in   *)
(* order and only on an approval, and an approval survives everything but  *)
(* a return to draft.  FeatureLifecycle implements it.                     *)
(***************************************************************************)

VARIABLES status, approved

Settled == {"in_review", "returned", "failed", "cancelled", "merged"}

Init == status = "draft" /\ approved = FALSE

\* A grill, a retry, a redo or a kick-back starts the specification afresh.
Draft == status' = "draft" /\ approved' = FALSE

\* A submitted ADR is accepted from any status, and the approval is kept.
Specify == status' = "spec_ready" /\ UNCHANGED approved

Approve == status = "spec_ready" /\ approved' = TRUE /\ UNCHANGED status

Queue ==
    /\ status \in {"spec_ready", "returned", "failed"}
    /\ approved
    /\ status' = "queued"
    /\ UNCHANGED approved

Run == status = "queued" /\ status' = "running" /\ UNCHANGED approved

Test == status = "running" /\ status' = "testing" /\ UNCHANGED approved

Review == status = "testing" /\ status' = "agentic_review" /\ UNCHANGED approved

\* Outcomes are written by unguarded UPDATEs: from any status.
Settle == status' \in Settled /\ UNCHANGED approved

Next == Draft \/ Specify \/ Approve \/ Queue \/ Run \/ Test \/ Review \/ Settle

Spec == Init /\ [][Next]_<<status, approved>>
=============================================================================
