--------------------------- MODULE DisputeContract ---------------------------
(***************************************************************************)
(* What whoever operates the system may rely on for each dispute, without  *)
(* queues, workers, requests or transactions: a row appears once and never *)
(* goes away; the agent submits only under the flag and otherwise asks a   *)
(* human; a human's approval comes after the question, and before it is    *)
(* recorded and before evidence goes out on its strength.                  *)
(***************************************************************************)
CONSTANTS
  Disputes,
  AutoSubmit   \* whether the agent may submit on its own

VARIABLES
  shown,       \* the status a reader sees
  asked,       \* whether the agent has asked for a review
  approved,    \* whether a human has given a valid approval
  delivered    \* on whose decision the processor has taken evidence

vars == <<shown, asked, approved, delivered>>

Init ==
  /\ shown = [d \in Disputes |-> "absent"]
  /\ asked = [d \in Disputes |-> FALSE]
  /\ approved = [d \in Disputes |-> FALSE]
  /\ delivered = [d \in Disputes |-> {}]

Open(d) ==
  /\ shown[d] = "absent"
  /\ shown' = [shown EXCEPT ![d] = "received"]
  /\ UNCHANGED <<asked, approved, delivered>>

Ask(d) ==
  /\ shown[d] # "absent"
  /\ shown' = [shown EXCEPT ![d] = "pending_review"]
  /\ asked' = [asked EXCEPT ![d] = TRUE]
  /\ UNCHANGED <<approved, delivered>>

AgentSubmits(d) ==
  /\ AutoSubmit
  /\ shown[d] # "absent"
  /\ shown' = [shown EXCEPT ![d] = "auto_submitted"]
  /\ UNCHANGED <<asked, approved, delivered>>

Approve(d) ==
  /\ asked[d]
  /\ approved' = [approved EXCEPT ![d] = TRUE]
  /\ UNCHANGED <<shown, asked, delivered>>

RecordApproval(d) ==
  /\ approved[d]
  /\ shown' = [shown EXCEPT ![d] = "auto_submitted"]
  /\ UNCHANGED <<asked, approved, delivered>>

RecordRejection(d) ==
  /\ asked[d]
  /\ shown' = [shown EXCEPT ![d] = "expired"]
  /\ UNCHANGED <<asked, approved, delivered>>

Deliver(d, who) ==
  /\ shown[d] # "absent"
  /\ who = "agent" => AutoSubmit
  /\ who = "human" => approved[d]
  /\ delivered' = [delivered EXCEPT ![d] = @ \cup {who}]
  /\ UNCHANGED <<shown, asked, approved>>

Next ==
  \E d \in Disputes :
    \/ Open(d) \/ Ask(d) \/ AgentSubmits(d)
    \/ Approve(d) \/ RecordApproval(d) \/ RecordRejection(d)
    \/ \E who \in {"agent", "human"} : Deliver(d, who)

Spec == Init /\ [][Next]_vars

-----------------------------------------------------------------------------
(* What follows for an operator who looks at a state only.                 *)

\* What a dispute shows, and what was delivered for it, has a reason that comes
\* before it: without the flag both need a human's approval, which in turn needs the
\* agent's question about a dispute that is there.
Accountable(d) ==
  /\ asked[d] => shown[d] # "absent"
  /\ approved[d] => asked[d]
  /\ shown[d] = "auto_submitted" => AutoSubmit \/ approved[d]
  /\ shown[d] = "expired" => asked[d]
  /\ delivered[d] # {} => shown[d] # "absent" /\ (AutoSubmit \/ approved[d])
=============================================================================
