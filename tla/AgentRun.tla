------------------------------- MODULE AgentRun -------------------------------
(***************************************************************************)
(* What one run of the agent graph is to the task that executes it: it     *)
(* takes a decision, decides to submit only under the flag, and only then  *)
(* talks to the processor.  It may be cut off at any moment, by an         *)
(* exception or by a time limit that strikes while it awaits the           *)
(* processor; then it hands over no decision, whatever the processor got.  *)
(* Whether a submission that failed goes back to a human, as the diagrams  *)
(* draw it, is left open here.  The graph (DisputeWorkflow) implements     *)
(* this, and what the task sees (DisputeLifecycle) is this.                *)
(***************************************************************************)
CONSTANT None

VARIABLES
  flag,      \* settings.ff_auto_submit_disputes
  phase,     \* "deciding", "submitting", "returned" or "raised"
  decision,
  taken      \* whether the processor has evidence the agent decided to send

Init ==
  /\ flag \in BOOLEAN
  /\ phase = "deciding"
  /\ decision = None
  /\ taken \in BOOLEAN   \* an earlier run of the task may have sent it

DecidesToSubmit ==
  /\ phase = "deciding"
  /\ flag
  /\ phase' = "submitting"
  /\ decision' = "auto_submit"
  /\ UNCHANGED <<flag, taken>>

DecidesForReview ==
  /\ phase = "deciding"
  /\ phase' = "returned"
  /\ decision' = "human_review"
  /\ UNCHANGED <<flag, taken>>

Raises ==
  /\ phase \in {"deciding", "submitting"}
  /\ phase' = "raised"
  /\ decision' = None
  /\ taken' \in {taken, taken \/ phase = "submitting"}
  /\ UNCHANGED flag

Submits ==
  /\ phase = "submitting"
  /\ phase' = "returned"
  /\ decision' \in {decision, "human_review"}
  /\ taken' \in {taken, TRUE}
  /\ UNCHANGED flag

Next == DecidesToSubmit \/ DecidesForReview \/ Raises \/ Submits

Spec == Init /\ [][Next]_<<flag, phase, decision, taken>>
=============================================================================
