-------------------------- MODULE LifecycleClaims ---------------------------
(***************************************************************************)
(* What a document says of the dispute lifecycle and the code does not do. *)
(* Its run is the one in which TLC refutes it.                             *)
(***************************************************************************)
EXTENDS DisputeLifecycle

\* docs/ARCHITECTURE.md sends a failed submission to the review queue: when
\* everything is over, a dispute shown as submitted has been submitted.  The
\* submitter node keeps the decision and the submission task drops the refusal.
FailedSubmissionReviewed ==
  \A d \in Disputes : Quiet /\ status[d] = "auto_submitted" => accepted[d] # {}
=============================================================================
