-------------------------- MODULE DisputeLifecycle --------------------------
(***************************************************************************)
(* The life of a chargeback dispute across the processes that share it:    *)
(* the API that ingests webhooks and review decisions, the PostgreSQL row  *)
(* and its audit trail, the Celery queue, the workers that run the agent   *)
(* workflow and submit evidence, and the payment processor.                *)
(*                                                                         *)
(* Control is kept whole: every handler is cut at its awaits, where other  *)
(* handlers may run or its process may die.  A database transaction takes  *)
(* effect in the step that commits it; the row lock that an uncommitted    *)
(* UPDATE holds is kept, because other writers wait for it and readers do  *)
(* not.  Data is dropped down to what the properties tell apart: a row is  *)
(* its status, the audit trail of a dispute is the set of its entries, the *)
(* agent graph is the decision it returns (DisputeWorkflow opens it up).   *)
(***************************************************************************)
EXTENDS Naturals, FiniteSets

CONSTANTS
  Webhooks,      \* webhook requests reaching the API; a redelivery is one more
  Reviews,       \* review requests reaching the API
  Chargebacks,   \* disputes as the processors know them
  Keyed,         \* the chargebacks whose payload carries data.object.id
  MaxRetries,    \* max_retries of both Celery tasks
  MaxCrashes,    \* bound of the model: how many times a worker may be lost
  AutoSubmit,    \* settings.ff_auto_submit_disputes
  None

\* A dispute is named by the webhook request that inserts its row: the code
\* draws a fresh random id ("disp_...") in that request.
Disputes == Webhooks

\* The messages of a task.  A worker that dies after it has published a retry and
\* before it has acknowledged what it ran leaves two where there was one; the
\* second one is numbered after that lost worker, the first one is number 0.
Runs == Webhooks \X (0..MaxCrashes)
Submissions == Reviews \X (0..MaxCrashes)
First(request) == <<request, 0>>

Statuses == {"received", "scoring", "evidence_collection", "evidence_writing",
             "pending_review", "auto_submitted", "manually_submitted", "won", "lost",
             "expired"}
Decisions == {"auto_submit", "human_review", "decline_dispute"}
Verdicts == {"approve", "reject"}
AuditEntries == {"system", "agent", "human"} \X ({"created"} \cup Decisions)

WebhookPCs == {"idle", "ignored", "selected", "committed", "accepted", "failed"}
ReviewPCs  == {"idle", "conflict", "read", "updated", "done", "failed"}
RunPCs     == {"deciding", "submitting", "persisting", "persisted"}
TaskEnds   == {"done", "failed"}

ASSUME LifecycleAssumption ==
  /\ Keyed \subseteq Chargebacks
  /\ Webhooks \cap Chargebacks = {}
  /\ None \notin Webhooks \cup Chargebacks \cup Decisions
  /\ MaxRetries \in Nat
  /\ MaxCrashes \in Nat
  /\ AutoSubmit \in BOOLEAN

VARIABLES
  webhook,    \* where each webhook request is in receive_webhook
  about,      \* the processor's dispute its payload is about
  record,     \* the record create_dispute returned to it
  status,     \* committed status of each dispute's row, "absent" if none
  audit,      \* committed audit entries of each dispute
  process,    \* where each message of process_dispute_task is
  verdict,    \* the decision in the workflow state of its execution
  retries,    \* retries it has used
  review,     \* where each review request is in submit_review_decision
  target,     \* the dispute in its path
  choice,     \* the decision in its body
  submit,     \* where each message of submit_dispute_task is
  resubmits,  \* retries it has used
  accepted,   \* who got evidence of a dispute accepted by the processor
  crashes     \* workers lost so far

requestVars == <<webhook, about, record>>
dbVars      == <<status, audit>>
processVars == <<process, verdict, retries>>
reviewVars  == <<review, target, choice>>
submitVars  == <<submit, resubmits>>
vars == <<requestVars, dbVars, processVars, reviewVars, submitVars, accepted, crashes>>

Init ==
  /\ webhook = [w \in Webhooks |-> "idle"]
  /\ about = [w \in Webhooks |-> None]
  /\ record = [w \in Webhooks |-> None]
  /\ status = [d \in Disputes |-> "absent"]
  /\ audit = [d \in Disputes |-> {}]
  /\ process = [m \in Runs |-> "none"]
  /\ verdict = [m \in Runs |-> None]
  /\ retries = [m \in Runs |-> 0]
  /\ review = [r \in Reviews |-> "idle"]
  /\ target = [r \in Reviews |-> None]
  /\ choice = [r \in Reviews |-> None]
  /\ submit = [s \in Submissions |-> "none"]
  /\ resubmits = [s \in Submissions |-> 0]
  /\ accepted = [d \in Disputes |-> {}]
  /\ crashes = 0

-----------------------------------------------------------------------------
(* The disputes table and its audit trail.                                 *)

\* The chargeback_id a request stores and looks up: the id in the payload, or
\* a fresh one, generate_request_id(), when the payload has none.
ChargebackId(w) == IF about[w] \in Keyed THEN about[w] ELSE w

Committed(d) == status[d] # "absent"

\* Mutant: the lookup and the constraint see the rows nobody has worked on yet.
FreshRowsWith(id) == {d \in Disputes : status[d] = "received" /\ ChargebackId(d) = id}

\* The committed rows that hold this chargeback_id.
RowsWith(id) == {d \in Disputes : Committed(d) /\ ChargebackId(d) = id}

\* The status set_decision writes for a decision.
StatusOf(decision) ==
  [auto_submit     |-> "auto_submitted",
   human_review    |-> "pending_review",
   decline_dispute |-> "expired"][decision]

\* A reviewer's uncommitted UPDATE holds the lock of the row.
RowLocked(d) == \E r \in Reviews : target[r] = d /\ review[r] = "updated"

\* Mutant: a decision that replaces another is not audited.
SetDecisionUnaudited(d, decision, actor) ==
  /\ status' = [status EXCEPT ![d] = StatusOf(decision)]
  /\ audit' = [audit EXCEPT ![d] = IF status[d] = "received" THEN @ \cup {<<actor, decision>>} ELSE @]

\* What set_decision leaves behind once its transaction has committed.
SetDecision(d, decision, actor) ==
  /\ status' = [status EXCEPT ![d] = StatusOf(decision)]
  /\ audit' = [audit EXCEPT ![d] = @ \cup {<<actor, decision>>}]

-----------------------------------------------------------------------------
(* receive_webhook.                                                        *)

\* Unknown processor, bad signature, a failing charge lookup, or an event that
\* is no chargeback: the request ends before it touches the database.
WebhookIgnored(w) ==
  /\ webhook[w] = "idle"
  /\ webhook' = [webhook EXCEPT ![w] = "ignored"]
  /\ UNCHANGED <<about, record, dbVars, processVars, reviewVars, submitVars, accepted, crashes>>

\* create_dispute looks for a row with the chargeback_id and returns it, or
\* adds a new record to the session, which nobody sees before the commit.
WebhookSelect(w, c) ==
  /\ webhook[w] = "idle"
  /\ webhook' = [webhook EXCEPT ![w] = "selected"]
  /\ about' = [about EXCEPT ![w] = c]
  /\ LET found == IF c \in Keyed THEN RowsWith(c) ELSE {}
     IN  \E d \in (IF found = {} THEN {w} ELSE found) :
           record' = [record EXCEPT ![w] = d]
  /\ UNCHANGED <<dbVars, processVars, reviewVars, submitVars, accepted, crashes>>

\* Leaving get_db_session commits the new row and its audit entry; the UNIQUE
\* constraint on chargeback_id lets only one row in.
WebhookInsert(w) ==
  /\ webhook[w] = "selected"
  /\ record[w] = w
  /\ RowsWith(ChargebackId(w)) = {}
  /\ webhook' = [webhook EXCEPT ![w] = "committed"]
  /\ status' = [status EXCEPT ![w] = "received"]
  /\ audit' = [audit EXCEPT ![w] = {<<"system", "created">>}]
  /\ UNCHANGED <<about, record, processVars, reviewVars, submitVars, accepted, crashes>>

\* The dispute exists already: the transaction wrote nothing.
WebhookReuse(w) ==
  /\ webhook[w] = "selected"
  /\ record[w] # w
  /\ webhook' = [webhook EXCEPT ![w] = "committed"]
  /\ UNCHANGED <<about, record, dbVars, processVars, reviewVars, submitVars, accepted, crashes>>

\* Mutant: the task is published inside the session, before its commit.
EnqueueInSession(w) ==
  /\ webhook[w] = "selected"
  /\ process' = [process EXCEPT ![First(w)] = "queued"]
  /\ webhook' = [webhook EXCEPT ![w] = "accepted"]
  /\ UNCHANGED <<about, record, dbVars, verdict, retries, reviewVars, submitVars, accepted, crashes>>

\* process_dispute_task.delay, for a new and for an existing record alike, and
\* the answer "accepted".
WebhookEnqueue(w) ==
  /\ webhook[w] = "committed"
  /\ webhook' = [webhook EXCEPT ![w] = "accepted"]
  /\ process' = [process EXCEPT ![First(w)] = "queued"]
  /\ UNCHANGED <<about, record, dbVars, verdict, retries, reviewVars, submitVars, accepted, crashes>>

\* The commit fails (the constraint, or the database), the broker does not
\* answer, or the process dies: the processor gets no 200.  A message that was
\* on its way to the broker may have arrived.
WebhookFail(w) ==
  /\ webhook[w] \in {"selected", "committed"}
  /\ webhook' = [webhook EXCEPT ![w] = "failed"]
  /\ \/ UNCHANGED process
     \/ webhook[w] = "committed" /\ process' = [process EXCEPT ![First(w)] = "queued"]
  /\ UNCHANGED <<about, record, dbVars, verdict, retries, reviewVars, submitVars, accepted, crashes>>

-----------------------------------------------------------------------------
(* process_dispute_task.  A message is acknowledged when its task ends     *)
(* (task_acks_late), so until then it can be delivered again.              *)

\* Mutant: one retry too many.
MayRetryOnceMore(used) == used <= MaxRetries

\* self.retry gives up after max_retries.
MayRetry(used) == used < MaxRetries

InRun(m) == process[m] \in {"deciding", "submitting", "persisting", "persisted"}

StartRun(m) ==
  /\ process[m] = "queued"
  /\ process' = [process EXCEPT ![m] = "deciding"]
  /\ UNCHANGED <<verdict, retries, requestVars, dbVars, reviewVars, submitVars, accepted, crashes>>

\* The scorer, collector and writer nodes, then the decision engine; the graph
\* goes on to the submitter node after auto_submit only.
Decide(m) ==
  /\ process[m] = "deciding"
  /\ \/ /\ AutoSubmit
        /\ verdict' = [verdict EXCEPT ![m] = "auto_submit"]
        /\ process' = [process EXCEPT ![m] = "submitting"]
     \/ /\ verdict' = [verdict EXCEPT ![m] = "human_review"]
        /\ process' = [process EXCEPT ![m] = "persisting"]
  /\ UNCHANGED <<retries, requestVars, dbVars, reviewVars, submitVars, accepted, crashes>>

\* submit_dispute_evidence: refused (Stripe and Square know a dispute by their own
\* id only), lost, or accepted.
ProcessorAnswers(d, who) ==
  \/ UNCHANGED accepted
  \/ accepted' = [accepted EXCEPT ![d] = @ \cup {who}]

\* The submitter node: a refusal and an exception both end up in state["errors"],
\* and the decision stays what it was.
SubmitNode(m) ==
  /\ process[m] = "submitting"
  /\ process' = [process EXCEPT ![m] = "persisting"]
  /\ ProcessorAnswers(record[m[1]], "agent")
  /\ UNCHANGED <<verdict, retries, requestVars, dbVars, reviewVars, submitVars, crashes>>

\* _persist_workflow_result: score, evidence, letter and decision in one
\* transaction, so the statuses written on the way are never committed.
PersistResult(m) ==
  /\ process[m] = "persisting"
  /\ ~RowLocked(record[m[1]])
  /\ process' = [process EXCEPT ![m] = "persisted"]
  /\ SetDecision(record[m[1]], verdict[m], "agent")
  /\ UNCHANGED <<verdict, retries, requestVars, reviewVars, submitVars, accepted, crashes>>

AckRun(m) ==
  /\ process[m] = "persisted"
  /\ process' = [process EXCEPT ![m] = "done"]
  /\ verdict' = [verdict EXCEPT ![m] = None]
  /\ UNCHANGED <<retries, requestVars, dbVars, reviewVars, submitVars, accepted, crashes>>

\* Mutant: the exception is logged and the task returns.
RunGivesUp(m) ==
  /\ InRun(m)
  /\ process' = [process EXCEPT ![m] = "done"]
  /\ verdict' = [verdict EXCEPT ![m] = None]
  /\ UNCHANGED <<retries, requestVars, dbVars, reviewVars, submitVars, accepted, crashes>>

\* Mutant: the retry is published as a new task, which starts counting again.
RunStartsOver(m) ==
  /\ InRun(m)
  /\ process' = [process EXCEPT ![m] = "queued"]
  /\ verdict' = [verdict EXCEPT ![m] = None]
  /\ UNCHANGED <<retries, requestVars, dbVars, reviewVars, submitVars, accepted, crashes>>

\* A run that ends in the middle of the submitter node may have reached the
\* processor.
CutOff(m) ==
  \/ UNCHANGED accepted
  \/ process[m] = "submitting" /\ ProcessorAnswers(record[m[1]], "agent")

\* Any exception: the graph raises, the transaction rolls back, the soft time
\* limit strikes.  self.retry publishes the task again, or raises at the end, and
\* the message is acknowledged; the acknowledgement changes nothing that anybody
\* sees, so the retry takes its place in one step.
RunRaises(m) ==
  /\ InRun(m)
  /\ CutOff(m)
  /\ verdict' = [verdict EXCEPT ![m] = None]
  /\ IF MayRetry(retries[m])
       THEN /\ process' = [process EXCEPT ![m] = "queued"]
            /\ retries' = [retries EXCEPT ![m] = @ + 1]
       ELSE /\ process' = [process EXCEPT ![m] = "failed"]
            /\ UNCHANGED retries
  /\ UNCHANGED <<requestVars, dbVars, reviewVars, submitVars, crashes>>

\* The worker dies.  With its pod gone the unacknowledged message is delivered
\* again; when only the child is gone (hard time limit, out of memory) the
\* parent acknowledges it as failed.
WorkerLost(m) ==
  /\ InRun(m)
  /\ crashes < MaxCrashes
  /\ crashes' = crashes + 1
  /\ CutOff(m)
  /\ \E end \in {"queued", "failed"} : process' = [process EXCEPT ![m] = end]
  /\ verdict' = [verdict EXCEPT ![m] = None]
  /\ UNCHANGED <<retries, requestVars, dbVars, reviewVars, submitVars>>

\* The worker dies with its pod after self.retry has published the retry and
\* before the acknowledgement: both messages will be delivered.
RetryDoubled(m) ==
  /\ InRun(m)
  /\ MayRetry(retries[m])
  /\ crashes < MaxCrashes
  /\ crashes' = crashes + 1
  /\ CutOff(m)
  /\ LET retry == <<m[1], crashes + 1>>
     IN  /\ process' = [process EXCEPT ![m] = "queued", ![retry] = "queued"]
         /\ retries' = [retries EXCEPT ![retry] = retries[m] + 1]
  /\ verdict' = [verdict EXCEPT ![m] = None]
  /\ UNCHANGED <<requestVars, dbVars, reviewVars, submitVars>>

-----------------------------------------------------------------------------
(* submit_review_decision.                                                 *)

\* Mutant: no status check.
ReviewReadUnchecked(r, d, v) ==
  /\ review[r] = "idle"
  /\ Committed(d)
  /\ target' = [target EXCEPT ![r] = d]
  /\ choice' = [choice EXCEPT ![r] = v]
  /\ review' = [review EXCEPT ![r] = "read"]
  /\ UNCHANGED <<requestVars, dbVars, processVars, submitVars, accepted, crashes>>

\* The status check, on a read that takes no lock.
ReviewRead(r, d, v) ==
  /\ review[r] = "idle"
  /\ Committed(d)
  /\ target' = [target EXCEPT ![r] = d]
  /\ choice' = [choice EXCEPT ![r] = v]
  /\ review' = [review EXCEPT ![r] = IF status[d] = "pending_review" THEN "read" ELSE "conflict"]
  /\ UNCHANGED <<requestVars, dbVars, processVars, submitVars, accepted, crashes>>

\* Mutant: the message of an approval is left for after the commit.
ReviewUpdateSilent(r) ==
  /\ review[r] = "read"
  /\ ~RowLocked(target[r])
  /\ review' = [review EXCEPT ![r] = "updated"]
  /\ UNCHANGED <<target, choice, requestVars, dbVars, processVars, submitVars, accepted, crashes>>

\* Mutant: every decision is submitted.
ReviewUpdateSubmits(r) ==
  /\ review[r] = "read"
  /\ ~RowLocked(target[r])
  /\ review' = [review EXCEPT ![r] = "updated"]
  /\ submit' = [submit EXCEPT ![First(r)] = "queued"]
  /\ UNCHANGED <<target, choice, requestVars, dbVars, processVars, resubmits, accepted, crashes>>

\* The UPDATE of set_decision; an approval publishes submit_dispute_task while
\* the transaction is still open.
ReviewUpdate(r) ==
  /\ review[r] = "read"
  /\ ~RowLocked(target[r])
  /\ review' = [review EXCEPT ![r] = "updated"]
  /\ submit' = IF choice[r] = "approve" THEN [submit EXCEPT ![First(r)] = "queued"] ELSE submit
  /\ UNCHANGED <<target, choice, requestVars, dbVars, processVars, resubmits, accepted, crashes>>

ReviewCommit(r) ==
  /\ review[r] = "updated"
  /\ review' = [review EXCEPT ![r] = "done"]
  /\ SetDecision(target[r], IF choice[r] = "approve" THEN "auto_submit" ELSE "decline_dispute", "human")
  /\ UNCHANGED <<target, choice, requestVars, processVars, submitVars, accepted, crashes>>

\* The broker or the commit fails, or the process dies: the transaction rolls
\* back, and a message published before stays published.
ReviewFail(r) ==
  /\ review[r] \in {"read", "updated"}
  /\ review' = [review EXCEPT ![r] = "failed"]
  /\ UNCHANGED <<target, choice, requestVars, dbVars, processVars, submitVars, accepted, crashes>>

-----------------------------------------------------------------------------
(* submit_dispute_task.                                                    *)

StartSubmit(s) ==
  /\ submit[s] = "queued"
  /\ submit' = [submit EXCEPT ![s] = "running"]
  /\ UNCHANGED <<resubmits, requestVars, dbVars, processVars, reviewVars, accepted, crashes>>

\* _submit_dispute reads the row for its letter, whatever its status, calls the
\* processor and returns result.success, which nobody looks at.
Send(s) ==
  /\ submit[s] = "running"
  /\ submit' = [submit EXCEPT ![s] = "done"]
  /\ ProcessorAnswers(target[s[1]], "human")
  /\ UNCHANGED <<resubmits, requestVars, dbVars, processVars, reviewVars, crashes>>

\* The call raises; the processor may have got the evidence all the same.
SubmitRaises(s) ==
  /\ submit[s] = "running"
  /\ ProcessorAnswers(target[s[1]], "human")
  /\ IF MayRetry(resubmits[s])
       THEN /\ submit' = [submit EXCEPT ![s] = "queued"]
            /\ resubmits' = [resubmits EXCEPT ![s] = @ + 1]
       ELSE /\ submit' = [submit EXCEPT ![s] = "failed"]
            /\ UNCHANGED resubmits
  /\ UNCHANGED <<requestVars, dbVars, processVars, reviewVars, crashes>>

SubmitWorkerLost(s) ==
  /\ submit[s] = "running"
  /\ crashes < MaxCrashes
  /\ crashes' = crashes + 1
  /\ ProcessorAnswers(target[s[1]], "human")
  /\ \E end \in {"queued", "failed"} : submit' = [submit EXCEPT ![s] = end]
  /\ UNCHANGED <<resubmits, requestVars, dbVars, processVars, reviewVars>>

\* As RetryDoubled: the retry was published and the message not acknowledged.
ResubmitDoubled(s) ==
  /\ submit[s] = "running"
  /\ MayRetry(resubmits[s])
  /\ crashes < MaxCrashes
  /\ crashes' = crashes + 1
  /\ ProcessorAnswers(target[s[1]], "human")
  /\ LET retry == <<s[1], crashes + 1>>
     IN  /\ submit' = [submit EXCEPT ![s] = "queued", ![retry] = "queued"]
         /\ resubmits' = [resubmits EXCEPT ![retry] = resubmits[s] + 1]
  /\ UNCHANGED <<requestVars, dbVars, processVars, reviewVars>>

-----------------------------------------------------------------------------
\* The servers and the workers wait for requests: every request that came was
\* answered and every message was dealt with.
Quiet ==
  /\ \A w \in Webhooks : webhook[w] \in {"ignored", "accepted", "failed"}
  /\ \A r \in Reviews : review[r] \in {"idle", "conflict", "done", "failed"}
  /\ \A m \in Runs : process[m] \in {"none"} \cup TaskEnds
  /\ \A s \in Submissions : submit[s] \in {"none"} \cup TaskEnds
Waiting == Quiet /\ UNCHANGED vars

WebhookStep(w) ==
  \/ WebhookIgnored(w)
  \/ \E c \in Chargebacks : WebhookSelect(w, c)
  \/ WebhookInsert(w)
  \/ WebhookReuse(w)
  \/ WebhookEnqueue(w)
  \/ WebhookFail(w)

RunStep(m) ==
  \/ StartRun(m)
  \/ Decide(m)
  \/ SubmitNode(m)
  \/ PersistResult(m)
  \/ AckRun(m)

ReviewStep(r) == ReviewUpdate(r) \/ ReviewCommit(r) \/ ReviewFail(r)

SubmitStep(s) == StartSubmit(s) \/ Send(s)

Next ==
  \/ \E w \in Webhooks : WebhookStep(w)
  \/ \E m \in Runs : RunStep(m) \/ RunRaises(m) \/ WorkerLost(m) \/ RetryDoubled(m)
  \/ \E r \in Reviews : \/ \E d \in Disputes, v \in Verdicts : ReviewRead(r, d, v)
                        \/ ReviewStep(r)
  \/ \E s \in Submissions : \/ SubmitStep(s) \/ SubmitRaises(s)
                            \/ SubmitWorkerLost(s) \/ ResubmitDoubled(s)
  \/ Waiting

Spec == Init /\ [][Next]_vars

(***************************************************************************)
(* A request that has come is carried to an answer (the ASGI server runs   *)
(* it or its process dies, which is a step too), and while workers are up  *)
(* a queued or running task goes on.  Nothing makes a request come, a call *)
(* raise or a worker die.                                                  *)
(***************************************************************************)
Fairness ==
  /\ \A w \in Webhooks : WF_vars(WebhookStep(w) /\ webhook[w] # "idle")
  /\ \A m \in Runs : WF_vars(RunStep(m))
  /\ \A r \in Reviews : WF_vars(ReviewStep(r))
  /\ \A s \in Submissions : WF_vars(SubmitStep(s))

FairSpec == Spec /\ Fairness
-----------------------------------------------------------------------------
(* What the system promises.                                               *)

\* Every variable stays in its range: the type invariant of all the handlers.
TypeOK ==
  /\ webhook \in [Webhooks -> WebhookPCs]
  /\ about \in [Webhooks -> Chargebacks \cup {None}]
  /\ record \in [Webhooks -> Disputes \cup {None}]
  /\ status \in [Disputes -> Statuses \cup {"absent"}]
  /\ audit \in [Disputes -> SUBSET AuditEntries]
  /\ process \in [Runs -> {"none", "queued"} \cup RunPCs \cup TaskEnds]
  /\ verdict \in [Runs -> Decisions \cup {None}]
  /\ retries \in [Runs -> 0..MaxRetries]
  /\ review \in [Reviews -> ReviewPCs]
  /\ target \in [Reviews -> Disputes \cup {None}]
  /\ choice \in [Reviews -> Verdicts \cup {None}]
  /\ submit \in [Submissions -> {"none", "queued", "running"} \cup TaskEnds]
  /\ resubmits \in [Submissions -> 0..MaxRetries]
  /\ accepted \in [Disputes -> SUBSET {"agent", "human"}]
  /\ crashes \in 0..MaxCrashes

\* However webhook deliveries race, a chargeback_id has one row at most (the
\* lookup and the UNIQUE constraint of create_dispute), so evidence for it goes
\* out under one idempotency key.
UniqueDispute ==
  \A d, e \in Disputes :
    Committed(d) /\ Committed(e) /\ ChargebackId(d) = ChargebackId(e) => d = e

\* A worker never meets a message whose dispute it cannot find, and evidence is
\* queued for submission only for a dispute the agent had sent to review: the
\* commit comes before process_dispute_task.delay, the check before the review.
TasksOfKnownDisputes ==
  /\ \A m \in Runs : process[m] # "none" => Committed(record[m[1]])
  /\ \A s \in Submissions : submit[s] # "none" =>
                              <<"agent", "human_review">> \in audit[target[s[1]]]

\* An approval in the audit trail always has its submission message: it is
\* published before the commit, so no crash leaves an approval nobody acts on.
ApprovalIsQueued ==
  \A d \in Disputes : <<"human", "auto_submit">> \in audit[d] =>
    \E r \in Reviews : target[r] = d /\ choice[r] = "approve" /\ submit[First(r)] # "none"

\* The audit trail accounts for the status a reader sees: rows are created
\* received, a human's entry follows one of the agent asking for review, and no
\* status of the workflow's intermediate steps is ever committed.
AuditLineage ==
  \A d \in Disputes :
    /\ status[d] \in {"absent", "received", "pending_review", "auto_submitted", "expired"}
    /\ status[d] = "absent" <=> audit[d] = {}
    /\ status[d] = "received" <=> audit[d] = {<<"system", "created">>}
    /\ status[d] = "pending_review" => <<"agent", "human_review">> \in audit[d]
    /\ status[d] = "auto_submitted" => \E who \in {"agent", "human"} : <<who, "auto_submit">> \in audit[d]
    /\ status[d] = "expired" => <<"human", "decline_dispute">> \in audit[d]
    /\ (\E v \in Decisions : <<"human", v>> \in audit[d]) => <<"agent", "human_review">> \in audit[d]

\* Nothing reaches the processor unless a reviewer passed the status check of
\* that dispute with "approve", or ff_auto_submit_disputes is on and the agent
\* decided to submit it: a reject, a conflict or a dispute nobody reviewed never
\* leads to a submission.
HumanInTheLoop ==
  \A d \in Disputes : accepted[d] # {} =>
    \/ AutoSubmit /\ "agent" \in accepted[d]
    \/ \E r \in Reviews : /\ target[r] = d
                          /\ choice[r] = "approve"
                          /\ review[r] \in {"updated", "done", "failed"}

\* A dispute that is still "received" is not forgotten: a request is about to
\* queue it or a task to work on it, unless the request died after its commit
\* or the task ended without a result.
NotStranded ==
  \A d \in Disputes : status[d] = "received" =>
    \E w \in Webhooks : /\ record[w] = d
                        /\ \/ webhook[w] \in {"committed", "failed"}
                           \/ process[First(w)] \in {"queued", "deciding", "submitting", "persisting", "failed"}

AskedForReview(d) == <<"agent", "human_review">> \in audit[d]

\* A reviewer's approval of d has been published.
ApprovalPublished(d) == \E r \in Reviews : target[r] = d /\ choice[r] = "approve" /\ submit[First(r)] # "none"

Contract == INSTANCE DisputeContract WITH
  shown     <- status,
  asked     <- [d \in Disputes |-> AskedForReview(d)],
  approved  <- [d \in Disputes |-> ApprovalPublished(d)],
  delivered <- accepted

\* With its requests, messages, retries and lost workers, the program does to each
\* dispute only what the contract allows, in the contract's order: no step shows
\* or delivers what was not asked, approved or allowed by the flag before it.
KeepsContract == Contract!Spec

\* What the contract makes sure of in every state: with the flag off no reader sees
\* "auto_submitted", and no evidence is with the processor, without an approval that
\* a reviewer gave after the agent had asked for it.
DecisionsAccountable == \A d \in Disputes : Contract!Accountable(d)

\* The graph in the execution of message m, as AgentRun describes it.
GraphPhase(m) ==
  CASE process[m] \in {"deciding", "submitting"} -> process[m]
    [] process[m] = "persisting" -> "returned"
    [] OTHER -> "raised"

Graph(m) == INSTANCE AgentRun WITH
  flag <- AutoSubmit, phase <- GraphPhase(m), decision <- verdict[m],
  taken <- "agent" \in accepted[record[m[1]]]

AwaitsGraph(m) == process[m] \in {"deciding", "submitting"}

\* The workflow of d was started for one delivery, once.
RanOnce(d) ==
  /\ crashes = 0
  /\ \A m \in Runs : record[m[1]] = d /\ process[m] # "none" =>
       retries[m] = 0 /\ \A x \in Runs \ {m} : record[x[1]] = d => process[x] = "none"

NoOpenReview(d) ==
  \A r \in Reviews : target[r] = d => review[r] \notin {"read", "updated"}

\* A rejected dispute comes back to life only if its workflow was started again
\* (another delivery, a retry, a redelivered message) or a second reviewer had
\* read it while it was pending.
RejectFinalUnlessRerun ==
  [][\A d \in Disputes :
       status[d] = "expired" /\ RanOnce(d) /\ NoOpenReview(d) => status'[d] = "expired"]_vars

\* The steps from a location of a task to its end, when nothing goes wrong.
RunRank(pc) ==
  [none |-> 6, queued |-> 5, deciding |-> 4, submitting |-> 3, persisting |-> 2,
   persisted |-> 1, done |-> 0, failed |-> 0][pc]
SubmitRank(pc) == [none |-> 3, queued |-> 2, running |-> 1, done |-> 0, failed |-> 0][pc]

\* The steps the message of a task may still take: each retry and each lost worker
\* it has left is worth one execution, and a message that was never published
\* counts in full.
RunStepsLeft(m) ==
  5 * ((MaxRetries - retries[m]) + (MaxCrashes - crashes)) + RunRank(process[m])
SubmitStepsLeft(s) ==
  2 * ((MaxRetries - resubmits[s]) + (MaxCrashes - crashes)) + SubmitRank(submit[s])

RunUsesUp(m) ==
  /\ RunStepsLeft(m)' <= RunStepsLeft(m)
  /\ process'[m] # process[m] => RunStepsLeft(m)' < RunStepsLeft(m)
SubmitUsesUp(s) ==
  /\ SubmitStepsLeft(s)' <= SubmitStepsLeft(s)
  /\ submit'[s] # submit[s] => SubmitStepsLeft(s)' < SubmitStepsLeft(s)

\* However exceptions, time limits, retries and redelivered messages follow each
\* other, a message only ever uses up what it had.  No retry starts the count again,
\* and where a lost worker leaves two messages, its loss pays for the old one's next
\* execution and the new one has the retry less: a task has one message and one more
\* for each lost worker, and each of them comes to an end.
TasksUseUp ==
  [][(\A m \in Runs : RunUsesUp(m)) /\ (\A s \in Submissions : SubmitUsesUp(s))]_vars

EvidenceHasReason(d) ==
  /\ audit[d] \subseteq audit'[d]
  /\ accepted[d] \subseteq accepted'[d]
  /\ accepted'[d] # accepted[d] => Committed(d)
  /\ "agent" \in accepted'[d] \ accepted[d] => AutoSubmit
  /\ "human" \in accepted'[d] \ accepted[d] => AskedForReview(d) /\ ApprovalPublished(d)

\* The audit trail is append-only, and evidence goes out on a human's word only
\* after the agent asked and an approval was published, on the agent's only under
\* the flag, and never for a dispute without a row.
TrailAndEvidenceGrow == [][\A d \in Disputes : EvidenceHasReason(d)]_vars

\* Every message that was published is dealt with, however often its task
\* raises or its worker dies within the bounds.
TasksEnd ==
  /\ \A m \in Runs : process[m] = "queued" ~> process[m] \in TaskEnds
  /\ \A s \in Submissions : submit[s] = "queued" ~> submit[s] \in TaskEnds

\* After the answer "accepted" the dispute gets a decision, unless every message of
\* its task ran out of retries or was lost with its worker.
AcceptedIsDecided ==
  \A w \in Webhooks :
    webhook[w] = "accepted" ~> \/ \E d \in Disputes : d = record[w] /\ status[d] # "received"
                               \/ \A m \in Runs : m[1] = w => process[m] \in {"none", "failed"}

-----------------------------------------------------------------------------
(***************************************************************************)
(* The inductive invariant: what relates the control locations to the      *)
(* database, so that the promises above hold from one step to the next.    *)
(***************************************************************************)

\* A request holds a record once it has looked one up; the record is a
\* committed row, or its own row that it has yet to commit, and a row is
\* committed by the request that names it.
RequestsInv ==
  /\ \A w \in Webhooks :
       /\ webhook[w] \in {"idle", "ignored"} <=> record[w] = None
       /\ record[w] = None <=> about[w] = None
       /\ record[w] \notin {None, w} => Committed(record[w])
       /\ webhook[w] \in {"committed", "accepted"} => Committed(record[w])
       /\ Committed(w) => record[w] = w /\ webhook[w] \in {"committed", "accepted", "failed"}
       /\ webhook[w] = "accepted" => process[First(w)] # "none"
  /\ \A m \in Runs : process[m] # "none" =>
       webhook[m[1]] \in {"accepted", "failed"} /\ Committed(record[m[1]])

\* An execution has the decision its location implies, and one that got past its
\* transaction left the dispute decided.
RunsInv ==
  \A m \in Runs :
    /\ process[m] = "submitting" => verdict[m] = "auto_submit"
    /\ process[m] \in {"persisting", "persisted"} => verdict[m] \in {"auto_submit", "human_review"}
    /\ verdict[m] = "auto_submit" => AutoSubmit
    /\ process[m] \notin {"submitting", "persisting", "persisted"} => verdict[m] = None
    /\ process[m] \in {"persisted", "done"} => status[record[m[1]]] # "received"

\* A message that a lost worker left behind has that worker's number, and one that
\* was never published has used nothing.
MessagesInv ==
  /\ \A m \in Runs : /\ process[m] # "none" => m[2] <= crashes
                     /\ process[m] = "none" => retries[m] = 0
  /\ \A s \in Submissions : /\ submit[s] # "none" => s[2] <= crashes
                            /\ submit[s] = "none" => resubmits[s] = 0

\* A review past its check is about a dispute the agent sent to review, and its
\* message exists as soon as it has updated the row to approve.
ReviewsInv ==
  /\ \A r \in Reviews :
       /\ review[r] # "idle" => target[r] \in Disputes /\ choice[r] \in Verdicts
       /\ review[r] \in {"read", "updated", "done", "failed"} =>
            <<"agent", "human_review">> \in audit[target[r]]
       /\ review[r] \in {"updated", "done"} /\ choice[r] = "approve" => submit[First(r)] # "none"
  /\ \A s \in Submissions : submit[s] # "none" =>
       /\ review[s[1]] \in {"updated", "done", "failed"}
       /\ choice[s[1]] = "approve"
       /\ submit[First(s[1])] # "none"

\* Evidence was accepted from an automatic decision or from a queued approval.
EvidenceInv ==
  \A d \in Disputes :
    /\ "agent" \in accepted[d] => AutoSubmit
    /\ "human" \in accepted[d] => \E r \in Reviews : target[r] = d /\ submit[First(r)] # "none"

\* A dispute the agent has sent to review has a task that is past its
\* transaction, or one that was or will be started again.
DecidedByRun ==
  \A d \in Disputes : <<"agent", "human_review">> \in audit[d] =>
    \E m \in Runs : /\ record[m[1]] = d
                    /\ process[m] # "none"
                    /\ \/ process[m] \in {"persisted", "done", "failed"}
                       \/ retries[m] # 0
                       \/ crashes # 0

IInv ==
  /\ TypeOK
  /\ RequestsInv
  /\ UniqueDispute
  /\ RunsInv
  /\ MessagesInv
  /\ ReviewsInv
  /\ EvidenceInv
  /\ AuditLineage
  /\ ApprovalIsQueued
  /\ DecidedByRun
=============================================================================
