# Toast Fraud Guardian: a verification development in TLA+

This directory models Toast Fraud Guardian: how a chargeback becomes a dispute, is
worked on by the agent, reviewed, and answered at the payment processor, how personal
data is deleted from it, and how the fraud model that scores transactions is activated
and replaced. TLC checks the models on small instances; TLAPS proves the safety
properties for every value of the constants.

## 1. The system

| component | state it keeps | operations | talks to |
|---|---|---|---|
| webhook and review API (`app/api/disputes.py`) | none of its own; one coroutine per request | `receive_webhook`, `submit_review_decision`, reads | database, broker, payment adapters |
| dispute service (`app/services/dispute_service.py`, `app/models/orm.py`, `app/core/database.py`) | rows of `disputes`, `audit_log`, `fraud_score_log` in PostgreSQL | `create_dispute`, `update_*`, `set_decision`, `resolve_dispute`, queue and metrics reads | called in the session of a request or a task |
| tasks (`workers/tasks.py`) | messages of the Celery broker, a retry count each | `process_dispute_task`, `submit_dispute_task` | agent graph, database, adapters |
| agent graph (`app/agents/dispute_workflow.py`) | the workflow state of one run | scorer, collector, writer, decision engine, submitter | scoring engine, evidence service, LLM, adapters |
| evidence service (`app/services/evidence_service.py`) | none | `collect_evidence`, `assess_evidence_strength` | adapters |
| payment adapters (`app/integrations/payments/`) | an HTTP client | webhook checks, `fetch_transaction`, `submit_dispute_evidence` | Stripe, Square, the Toast mock |
| scoring engine, features (`ml/inference/`) | loaded sessions, active version; sequences and profiles in Redis | `load_model`, `score_transaction` | Redis, model files |
| admin API (`app/api/admin.py`) | rows of `model_versions` | register, activate, request a deletion | scoring engine, broker |
| retention (`workers/retention.py`, `workers/beat_schedule.py`) | none; scrubs the rows above | daily scrub, audit cleanup, deletion requests | database, Redis |
| utilities (`app/utils/__init__.py`) | counters in memory | `CircuitBreaker.call`, `RateLimiter.allow`, `IdempotencyStore` | no callers in the repository |

What is hard in it: webhooks are delivered again and race each other; tasks are
acknowledged late, retried after any exception and delivered again when a worker is
lost; a request to a processor may be handled after its caller has given up on it and
sent another; a deletion contends for rows with runs, reviewers and the daily scrub,
which locks the tables the other way round; a review is checked on an unlocked read and published inside its transaction;
the agent submits before its result is stored; every node of the graph may fail and
leave a hole in the state; calls through the breaker return long after the state they
were admitted in. The full list, each with its line and the properties that watch it,
is `hazards` in `PROJECT.json`.

What makes each part correct:

- one dispute per chargeback, however its webhook is delivered;
- the audit trail accounts for every status;
- nothing is sent to a processor that neither a reviewer approved nor the agent, with
  the flag on, decided to send, and the agent does so on real evidence only;
- nobody's dispute is forgotten, and every message is dealt with;
- one text goes on record at the processor, somebody can account for it, and success
  is answered only when it is there;
- a completed deletion has erased what it found, and every deletion ends;
- a decision a reviewer took is undone by nobody but a new run or a second reviewer;
- the breaker never closes over its threshold, and gets stuck only after a cancellation
  or a late success;
- one model version is active, and a score names the model that computed it;
- the card's history a score is based on is the newest part of it, and is forgotten in
  time.

## 2. Modules

| module | models | in terms of |
|---|---|---|
| `DisputeLifecycle` | API, dispute service, tasks and processor together | one action per stretch of a handler between two awaits |
| `MCDisputeLifecycle` | the symmetry of webhooks and reviews, for TLC | |
| `LifecycleClaims` | a statement of the documents the code does not keep | `DisputeLifecycle` |
| `DisputeContract` | what an operator may rely on for each dispute (abstract) | implemented by `DisputeLifecycle` |
| `EvidenceSubmission` | `submit_dispute_evidence` of Stripe and Square with all its callers, request by request | |
| `SubmissionPromise` | what the adapters promise their callers (abstract) | implemented by `EvidenceSubmission` |
| `PersonalData` | deletion requests and the daily scrub against the transactions that write the same rows | |
| `Evidence` | evidence items and their strength, as operators | no state |
| `EvidenceFile` | a file of evidence as it grows | `Evidence` |
| `DisputeWorkflow` | one run of the agent graph | `Evidence` |
| `AgentRun` | what a run is to the task that awaits it (abstract) | implemented by `DisputeWorkflow`, and what `DisputeLifecycle` lets a task do |
| `CircuitBreaker` | `CircuitBreaker.call` with concurrent callers | |
| `ModelRegistry` | versions in the database, engines in the processes, scoring between them | |
| `CardSequence` | the Redis sequence of one card under concurrent scorings | |
| `MCCardSequence` | the symmetry of scorings, for TLC | |
| `*Proofs` | theorems about the module of that name and their proofs | |

### DisputeLifecycle

A webhook request `w` is in `webhook[w]` and carries the dispute it is `about`. The
dispute its request would insert has the same name: the code draws a fresh id there.
`status` and `audit` are what is committed. `process[m]`, `verdict[m]` and `retries[m]`
are a message of `process_dispute_task`, `submit[s]` and `resubmits[s]` one of
`submit_dispute_task`. A message is named by the request that published its task and a
number: `First(w)` is the one the request published, the others are retries that a lost
worker left beside the message they were to replace. `accepted[d]` says who got evidence
accepted.

| action | code |
|---|---|
| `WebhookIgnored`, `WebhookSelect`, `WebhookInsert`, `WebhookReuse`, `WebhookEnqueue`, `WebhookFail` | `receive_webhook`: early ends, lookup, commit of a new row, nothing to commit, `.delay`, any failure after the lookup |
| `StartRun`, `Decide`, `SubmitNode`, `PersistResult`, `AckRun`, `RunRaises`, `WorkerLost`, `RetryDoubled` | `process_dispute_task`: delivery, the graph's decision, its submitter, the transaction, the acknowledgement, `self.retry` with the acknowledgement, the death of the worker, its death between the two |
| `ReviewRead`, `ReviewUpdate`, `ReviewCommit`, `ReviewFail` | `submit_review_decision`: the 409 check, the UPDATE and `.delay` with the transaction open, the commit, any failure |
| `StartSubmit`, `Send`, `SubmitRaises`, `SubmitWorkerLost`, `ResubmitDoubled` | `submit_dispute_task`, likewise |
| `Waiting` | nothing to do, which is no deadlock |

Abstractions. A transaction takes effect in the step that commits it: PostgreSQL in
READ COMMITTED shows nobody an uncommitted row, and the lock an UPDATE holds is in the
model (`RowLocked`). The five updates of `_persist_workflow_result` share a
transaction, so the statuses `scoring`, `evidence_collection` and `evidence_writing`
never reach a reader; `PersistResult` is their sum. Score, evidence and letter are not
in the row: no property is about them. `Decide` leaves the graph's decision open:
`auto_submit`, only with the flag on, or `human_review`, and every other run raises.
That the graph does nothing else is `AgentRun`, see below. The processor may refuse, accept or
lose a call; a call that raised may have been accepted. A run that raises or loses its
worker in the submitter node may have reached the processor (`CutOff`). `self.retry`
publishes the retry and raises, and the old message is acknowledged when the task has
ended (`task_acks_late`). Between the two nobody sees a difference, so `RunRaises` does
both in one step, unless the pod dies there: then the broker holds the retry and delivers
the old message again, and `RetryDoubled` and `ResubmitDoubled` leave both, each with its
own count of retries. A pod that dies earlier leaves the old message; when only the child
process dies, its parent acknowledges the message as failed (`WorkerLost`). That the
broker keeps what was published is assumed: eviction by Redis (`allkeys-lru`) and a
`self.retry` that cannot publish are not in the model. `Keyed` are the
chargebacks whose payload has `data.object.id`, which is Stripe's; for the others
`receive_webhook` draws a new id on every delivery.

`DisputeContract` has no queues, workers, requests or transactions. Per dispute it knows
the status a reader sees, whether the agent has asked for a review, whether a human has
given a valid approval, and who got evidence accepted. The refinement maps these to
`status`, to an audit entry `human_review` of the agent (`AskedForReview`), to a
submission message (`ApprovalPublished`) and to `accepted`. So an approval is given when
its message is published, which is before it is recorded: a rollback after that loses
the record and keeps the approval, and evidence that goes out on the strength of an
unrecorded approval is a step of the contract. The workflow's restarts, lost workers and
races are stutters or repetitions of `Ask` and `AgentSubmits`. `Accountable` is what
follows from it for each state: without the flag a submitted status, and evidence at the
processor, have an approval behind them.

### AgentRun

The lifecycle and the graph are modelled apart, and `AgentRun` is where they meet. It
knows the flag, the phase of the run, its decision, and whether the processor has the
agent's evidence. A run may be cut off before its decision and while it submits; then it
hands over no decision, whatever the processor got. Whether a submission that failed
leaves the decision as it was, which is what the code does, or turns it into
`human_review`, which is what the diagrams draw, is left open here, so that `KeepsRun`
holds of either. `DisputeWorkflow` implements it, all nodes before the decision engine
being stutters. While a task of `DisputeLifecycle` awaits its graph, every step of the
system is to that graph a step of `AgentRun` or nothing (`TaskRunsGraph`); this is one
direction, and it says that the lifecycle invents nothing. That it leaves nothing out is
seen by comparing `Decide`, `SubmitNode`, `RunRaises` and `WorkerLost` with the four
actions of `AgentRun`: no module composes the two.

### EvidenceSubmission

One dispute. `at[c]` says where each caller is: a run of the workflow with the letter of
its own state, or a `submit_dispute_task` with the letter it reads from the row when it
starts. `wire` holds the requests the processor has not handled, `answer[c]` what the
caller finds on its connection.

| action | code |
|---|---|
| `DraftAndSubmit`, `DraftForReview`, `Persist`, `Drop` | a run with `auto_submit` and its first request, a run with `human_review`, the transaction of `_persist_workflow_result`, any loss of the run |
| `Scrub` | the placeholder a deletion or the daily scrub leaves in `dispute_letter` |
| `Start`, `TaskLost` | `_submit_dispute` up to its first request, the death of its worker |
| `ReceiveFirst`, `ReceiveSuccess`, `ReceiveError` | an answer of Square's first request, of the last request, an error status of any |
| `Raise` | a transport error or a time limit: the submitter node notes it, the task is retried |
| `Handle`, `Repeat`, `Refuse`, `ForgetKey` | the processor (external) |

What is assumed of the processors: Stripe remembers the parameters of an idempotency key
for a while, refuses others under it, and takes no evidence for a dispute that was
submitted. Square keeps the text of a key and submits what it has once; a repetition of
either request may be answered with success or with an error. A gateway may answer with
an error although the processor has done what was asked. The Toast adapter is a mock
that always answers success and remembers nothing, so it is not in this module.

`SubmissionPromise` is the sense in which "Must be idempotent" (base.py:101) holds. For
Stripe the text a success is about is the text on record. For Square it is not: the key
of `evidence-text` is the dispute's, so a call with a newer letter is answered with
success for the older one; and `submit-evidence` has no key at all.

### PersonalData

The rows of one merchant, the score logs of each, and who has updated each without
committing (`rowLock`, `logLock`). `Init` chooses whether deletions are enabled and
whether the workers have imported `workers.retention`.

| action | code |
|---|---|
| `Insert`, `Write`, `WriteCommit`, `WriteRollback` | `create_dispute`; the transactions of runs and reviewers, as what they leave in a row |
| `Request`, `Discard`, `Disabled` | `request_deletion`; the message without a registered task; the setting |
| `Begin`, `ScrubRow`, `ScrubLogs`, `Complete` | the two UPDATEs of `_process_deletion_async` and its commit |
| `Fail`, `Lost` | any exception of the task, which has no retry; the death of its worker |
| `DailyLogs`, `DailyRow`, `DailyCommit`, `DailyFails` | `_enforce_pii_retention_async` |
| `BreakDeadlock` | PostgreSQL (external) |

An UPDATE in READ COMMITTED knows the rows committed when it begins (`known`,
`dailyKnown`), meets them in any order, waits for each that is locked, and looks at its
condition again when the lock is free (`Pending`). The UPDATE of the score logs is taken
in one step: what could happen to it in between is a failure (`Fail`, `DailyFails`).
Which rows are old enough for the daily scrub, and which have an outcome, is left open.
`since` and `rewritten` are history variables: rows a webhook inserted, and scrubbed
rows a run or a reviewer wrote, after the request had begun. The Redis keys of the same
request are in `CardSequence`. The daily scrub and a deletion can block each other in the
model; in the program this is latent, because the scrub asks for rows with an outcome and
nothing sets one.

`ContentErased` says what a completed request has removed, and leaves out `rewritten`. A
run of the agent updates its row when it has its letter, so one that was under way when
the request came may write that letter after the request has completed: it is then in
`rewritten`, and the property does not say that this cannot happen.

### DisputeWorkflow, Evidence and EvidenceFile

Each attempt at a call under `@retry` is a step, and the rest of each node one more; what
the services it awaits answer is a choice. `tries` counts the failed attempts of
`fetch_transaction` (Stripe and Square, 5xx answers only) and of `generate` (any
exception); the third failure is the node's. The soft time limit of the task is a signal:
inside a node it is an exception like any other, and while the event loop waits it leaves
`run_until_complete` with the state lost (`TimeLimit`, node "interrupted"); in the
submitter that may leave evidence at the processor whose decision nobody records
(`DecidesOrRaises`). The state keeps what the nodes look at: the
score as a band and whether it has anomaly flags, the evidence items, their strength,
where the letter came from, whether `errors` is empty. The processor and the two feature
flags are variables that `Init` chooses and no step changes. What the adapters fetch
depends on the processor: only Stripe's data may show checks (`Checks`), and Toast's
mock calls every transaction card-present. `state.get(key, default)` is modelled as what it does: `initial_state` holds
every key, so the default never applies and a missing result is `None`. The scorer
builds its `TransactionEvent` from the processor's data without device signals and
order, which is why `Fetched` excludes the items that need them.

`Assess` compares `weight / (3n)` with 0.7 and 0.4 in integers. A double holds 0.7 as
the nearest double below 7/10 and the division is correctly rounded, so a ratio equal
to 7/10 compares as in the integers; 0.4 likewise.

### CircuitBreaker

The two blocks under the lock await nothing and are one step each; between them a call
is in `running` and everything else may happen. Time is the flag `cooled`, cleared by
each failure, so `Cool` may come arbitrarily late. `failures` stays at the threshold
when the code's counter goes on: only the comparison with the threshold reads it.
`lapses` is a history variable: what has happened that the breaker does not see.

### ModelRegistry

`registered` and `active` are the committed rows of `model_versions`; `sessions[p]` and
`engine[p]` are the `_sessions` and `_active_version` of process `p`, an API worker or a
Celery worker. `file` says what is at each path: nothing, a file onnxruntime refuses,
or a model. `Init` chooses it and no step changes it.

| action | code |
|---|---|
| `Register` | `register_model_version`, at its commit |
| `Select`, `Deactivate`, `Commit`, `Rollback`, `Swap` | `activate_model_version`: the lookup and its 404, the first UPDATE, the second with the commit, any failure of the transaction, `load_model` and the answer |
| `Choose`, `Infer`, `InferenceFails` | `score_transaction`: up to the await of the features, ONNX or heuristic after it, the `except` |
| `Restart` | a process that starts with an empty `_sessions` and `load_default` |

The first UPDATE names every row, and in READ COMMITTED its snapshot is taken when it
begins: it waits for rows another transaction has changed and then updates them, but a
row inserted since is not among them. `snapshot[a]` holds the rows it knows, and
`Commit` clears `is_active` on those. So two rows are active only when a version was
registered *and* activated during another's activation, which is what `OneActive` says
with the history variable `late`. A path other than the default's is named as its
version: two versions with one path would make labels ambiguous without the code being
at fault.

### CardSequence

One card, so one key `card_seq:<hash>`. `entries` is its sorted set, a record being a
number in the order of the set, and `ttl` whether EXPIRE is in force. A scoring `s` is
in `scoring[s]`; `seen[s]` is the sequence its features are made of.

| action | code |
|---|---|
| `ReadSequence` | `extract_features` up to and with `_extract_behavioral_sequence`, whose errors leave the sequence empty |
| `Append`, `Trim`, `Expire` | the three commands of `_append_to_sequence_cache` |
| `Abort` | its `except`, or the end of the process or the request |
| `DeleteSequence` | the Redis part of a deletion request for the card, done or swallowed |
| `KeyExpires` | Redis (external) |

A command whose answer is lost is the command followed by `Abort`. Two scorings may have
the same record: the agent scores a disputed transaction again, and does so at every
retry. `dropped` and `stray` are history variables.

## 3. Runs

| run | instance | shows |
|---|---|---|
| `deliveries` | 2 deliveries of 1 chargeback with an id, 2 reviews, no retries, 1 lost worker; symmetry over webhooks and reviews | `TypeOK`, `UniqueDispute`, `TasksOfKnownDisputes`, `AuditLineage`, `NotStranded`, `ApprovalIsQueued`, `HumanInTheLoop`, `RejectFinalUnlessRerun`, and that the lifecycle implements `DisputeContract` (`KeepsContract`) |
| `liveness` | 1 delivery of a chargeback without an id, 1 review, 1 retry, 1 lost worker, fairness, no symmetry | `TasksUseUp`, `TasksEnd`, `AcceptedIsDecided` |
| `evidence_file` | every file of at most 8 items | `HighNeedsVerification`, `HighNeverWeakens` |
| `workflow` | every run of the graph, three processors, four settings of the flags; nothing is bounded | `TypeOK`, `AutoSubmitIsEarned`, `DecidesOrRaises`, `RunEnds`, and that the graph implements `AgentRun` (`KeepsRun`) |
| `circuit_breaker` | 4 callers, threshold 2, 2 test calls | `TypeOK`, `ClosedBelowThreshold`, `WedgedOnlyAfterLapse` |
| `model_registry` | 2 versions, 2 activations, 1 scoring, an API process and a Celery worker, 1 restart, 27 settings of the files | `TypeOK`, `OneActive`, `LabelNamesModel`, `ServedWasActivated`, `StaysReady` |
| `card_sequence` | 4 scorings, 3 records, sequences of 2, 1 deletion; symmetry over scorings | `TypeOK`, `KeepsNewest`, `BoundedLength`, `SelfUnseen`, `Expiring` |
| `submission` | 2 runs, 1 task with 1 retry, 2 letters, both processors | `TypeOK`, `EvidenceIsFiled`, and that the adapters implement `SubmissionPromise` (`KeepsPromise`) |
| `personal_data` | 2 rows, 1 card, 1 deletion, the daily scrub, 1 lost worker, fairness | `TypeOK`, `TokenErased`, `ContentErased`, `WaitsAreSeen`, `DeletionEnds` |
| `claim_*` | small instances | each refutes one statement, section 5 |

Bounds. Two deliveries are the smallest number that races in `create_dispute` and that
can run a finished dispute again, and two reviewers are needed for both to pass the
check. Both contend with the workers in `deliveries`; what raises there is not tried
again, because a redelivered message and the second delivery already put a second run
after every step of a first, and a retry adds only its count. The count is what
`liveness` is about: with one retry and one lost worker (`MaxRetries`, `MaxCrashes`) a
task has up to two messages, each with its own executions. The un-keyed chargeback there
is the path without a lookup. Both runs have `AutoSubmit = TRUE`, which allows more than
FALSE does; the theorems are for either. The properties are about one dispute, or two rows with one chargeback id,
so a larger instance adds actors that a violation does not need, and the theorems hold
for all of them. Eight items pass every threshold of the strength: "high" takes three,
and the file of the code has at most nine. Two failures to open and two test calls let a
late return, a failure and a test call overlap. Two activations, one of them of a version
registered while the other is under way, is the shortest way to two active rows; a swap
by either falls anywhere in the one scoring, which is all a label depends on. Sequences of two with three records trim, two
scorings share a record, and the fourth scoring leaves one to append between the
commands of the others after a deletion. Two runs and a task are three calls whose
requests overlap in any order, and a retry lets one caller have two on their way; two
letters tell the texts apart. Two rows are what two UPDATEs need to wait for each other;
a second deletion request over one row was checked as well and adds nothing, and the
theorems are for any number. `evidence_file` stops at its bound, so
its configuration does not check for deadlock; all others do.

Fairness. `FairSpec` carries a request that has come to an answer, since the server
runs it or its process dies (`WebhookFail`, `ReviewFail`), and lets the worker go on
with a queued or running task. Requests need not come; nothing has to raise or die;
`RunRaises`, `WorkerLost` and `RetryDoubled` are in no fairness condition. A task that
raises every time ends by its retry limit. In `DisputeWorkflow` every attempt returns, because the
clients it awaits have timeouts. In `PersonalData` a writer's transaction ends, since
nothing in it waits for long; PostgreSQL breaks deadlocks; and the steps of a deletion
and of the daily scrub are strongly fair, since a worker takes its messages and a waiter
for a lock is in a queue that others cannot pass for ever. Nothing has to fail.

## 4. Proofs

All theorems are for any sets of requests, any chargebacks, any retry limit and any
number of lost workers, under the assumptions next to the constants
(`LifecycleAssumption`, `WorkflowAssumption`, `MaxItemsAssumption`,
`BreakerAssumption`, `RegistryAssumption`, `SequenceAssumption`,
`SubmissionAssumption`, `PersonalDataAssumption`), which the runs evaluate.

- `DisputeLifecycleProofs`. The promises are not inductive one by one: that tasks are
  about committed rows needs to know that a request's record is its own row or a
  committed one; that approvals are queued needs where a review is. `IInv` adds five
  conjuncts for this (`RequestsInv`, `RunsInv`, `MessagesInv`, `ReviewsInv`,
  `EvidenceInv`) and `DecidedByRun`, which says that an entry of the agent in the audit trail has a task
  that wrote it. Each conjunct has a lemma, with one step per action that can disturb
  it. The three state promises that are not conjuncts follow from `IInv`. The action property
  `RejectFinalUnlessRerun` follows because a rejected dispute has been decided by a
  task, `RanOnce` makes that the only one, and it is past its transaction.
  `ContractKept` is the refinement: `ContractStep` maps every action to an action of
  `DisputeContract` or a stutter, from `IInv`, with `DeliveryStep` for the two actions
  that let the processor accept evidence. `DecisionsHaveReasons` is a consequence of
  the contract alone, carried over to the code's model by the refinement. `TaskRunsGraph`
  says that retries, time limits and lost workers too are to the graph what `AgentRun`
  allows. `MessagesInv` (a message that a lost worker left has that worker's number, so
  the next one is new) is what lets a task have more than one message.
  `TasksAreBounded` gives each message a number, its rank plus one execution for each
  retry and each worker it may still lose, that no step of anybody raises and every step
  of the message lowers; a worker that leaves two messages pays for the one and the
  retry it has used for the other. `NothingIsRewritten` says that the trail only grows
  and each delivery of evidence has its reason when it happens.
- `DisputeWorkflowProofs`. `IInv` relates each node's results to those of the ones
  before (`NodesInv`) and the decision to the control location (`DecisionInv`).
  `AutoSubmitIsEarned` rests on a lemma about strengths: without an item of strength
  "high" no collection of the nine kinds reaches 0.7. That Square and Toast need a
  card-present payment rests on another: without checks of the processor the collector
  finds none (`CollectedUnchecked`). `RunKept` is the refinement of `AgentRun`; it
  implies `OffMeansReview`, which has a theorem (`OffIsOff`) and no run any more.
  `RunsAreShort`: of a count that starts at 17 every step of a run uses up some
  (`StepsLeft`, with the attempts that are left at a call).
- `EvidenceFileProofs`. The two threshold properties for files of any size, in linear
  arithmetic.
- `CircuitBreakerProofs`. `RecoveryInv`: without a lapse the count of an open or half
  open breaker is at the threshold, so any failure opens it, and a half open one has a
  call running. `TypeCorrect` bounds the counter of test calls and not how many of them
  run: after a late failure the next recovery counts from 0 beside old ones.
  `StuckForGood`: where a lapse can lead, nothing leads away from.
- `ModelRegistryProofs`. `ActivationsInv`: a transaction past its first UPDATE misses
  late rows only, and what it wants is registered. `EnginesInv`: a session under a
  version is that version's, and the active version has one. With `ScoringsInv` these
  make the promises inductive. What `load_model` and `load_default` do is stated once,
  in `LoadEffect` and `FreshEffect`.
- `CardSequenceProofs`. The first part proves what the ranks of a sorted set do to
  cardinalities: a finite set of integers has a greatest and a least element (from the
  library's well-foundedness of strict inclusion, since induction over sets is not
  available), `Newest(T, n)` has at most `n` elements, and a record with `n` newer ones
  keeps `n` newer ones. The second part is the inductive invariant, with `CallsInv`:
  every record was appended by a scoring.

- `EvidenceSubmissionProofs`. The invariant follows every text from where it was read to
  the record: `CallersInv` (a task starts after a run has asked, so the row's text is one
  a reader found), `WireInv` (a request is its caller's last one or has been given up
  on), `TextsInv` (what is stored, sent or on record is accounted for) and `AnswersInv`
  (what an answer says of the processor). `Accounted` is kept by every step, because
  `filed` only grows and a run that stops sending has persisted or was dropped.
  `PromiseKept` maps every step to `Accept`, `Report` or a stutter, and
  `SuccessIsOnRecord` is what a caller has from the promise alone.
- `PersonalDataProofs`. A completed request is judged long after it ended, so the
  invariant follows each request from `Begin` on. `DisputesInv`: a row that matches it is
  known to its UPDATE or was inserted since. `PurgingInv`: after the UPDATEs it holds the
  lock of every such row, so that nobody can have written one between the UPDATE and the
  commit. `KnownInv` says of a request for a card that a row it knows has the card's
  token still, or was scrubbed and holds only what was written after that.
  `NoSilentWait` is about the locks: `WaitInv` says that a request holds score logs only
  after its first UPDATE, so that it never waits for itself; hence whoever is stuck waits
  for a writer or for another transaction of retention that is under way (`StuckWaits`),
  and if all of those are stuck they are a deadlock PostgreSQL finds. `UpdatesProgress`:
  the rows an UPDATE has yet to change only become fewer.

Checked by TLC only: the liveness properties (`TasksEnd`, `AcceptedIsDecided`,
`RunEnds`, `DeletionEnds`), because fairness and ENABLED are out of this prover's reach.
What is proved of them is their safety part, for every value of the constants: `RunEnds`
rests on `RunsAreShort`, `TasksEnd` and `AcceptedIsDecided` on `TasksAreBounded`, the
latter with `NobodyIsStranded`, `DeletionEnds` on `NoSilentWait` and `UpdatesProgress`. What TLC adds is
that under the stated fairness a step that is possible is taken.

Proved, and checked by TLC on the instances of the runs without being a property of one,
to keep the runs short: `OffMeansReview`, `TrailAndEvidenceGrow`, `DecisionsAccountable`,
`PendingShrinks`, `ReportedIsOnRecord` and `WedgedForGood`.

## 5. Findings

Each has a run in which TLC refutes the quoted statement.

1. `FailedSubmissionReviewed`: a refused submission leaves the dispute `auto_submitted`.
2. `ScorerErrorIsReviewed`: after a scorer error the engine raises on `None.get`.
3. `DeletionErases`: the workers are started with `-A workers.tasks`, which does not
   import `workers.retention`; a deletion request the API has answered with "queued" is
   of a task they do not know and is thrown away.

Seen while modelling, without a run: a second delivery, a retry after the commit or a
redelivered message runs the workflow of a rejected dispute again and overwrites the
rejection, where docs/diagrams/16-dispute-lifecycle.md:45 ends the lifecycle
(`RejectFinalUnlessRerun` is what holds); the submission task is published inside the
transaction of the approval and may run before it commits or although it rolls back,
where workers/tasks.py:171 speaks of "a dispute that has been approved"; a late success
clears the breaker's count, so that the failure of a test call leaves it half open
(tests/unit/test_utils.py:121 expects it to open); both of two reviewers may pass the check that
should give the second a 409 (docs/API.md:176); the agent submits before anything is
logged (README.md:82); an unrecoverable processing error leaves a dispute `received`
where docs/diagrams/16 has it expire; no branch of the engine declines a dispute
(docs/diagrams/03:44); Square and Toast redeliveries make new disputes, although
`create_dispute` calls itself idempotent; an activation reaches the process that serves
it and no other, never a Celery worker, and a restart returns to
`settings.model_version`, so that the active row and the models in use differ
(admin.py:78 "Deactivates all other versions and hot-swaps the ONNX model"); two
activations may commit in one order and swap in the other; a missing file is answered
with "activated"; each append renews the 30 days of the whole key, so a record of a
card in use stays longer than the "30-day retention" of docs/ADR.md:21; a deletion whose Redis commands fail is
"completed", and a scoring under way appends again after it (retention.py:126 "Removes
all PII associated with a merchant or card token"); nothing sets a dispute's `outcome`,
so the daily scrub, which asks for one, never reaches a dispute; a deletion for a card
matches no score log, since the logs hold "[redacted]" (dispute_service.py:123), and
leaves the rationale of its rows, which a deletion for the merchant removes; a run that
was under way writes its letter and evidence onto a row just scrubbed, whose token is no
longer there for the next request for the card to find; the queue "maintenance" of the
daily scrub has no worker (docker-compose.yml:31); a task submits an empty text for a
row without a letter, and the placeholder for a scrubbed one; an answer 429 of
`fetch_transaction` is not tried again, although `_is_retryable` lists it, because the
adapter has turned it into an error that is not retryable; the retry decorator of
`submit_dispute_evidence` never applies, because the adapter catches every
`HTTPStatusError` itself; Toast's mock calls every transaction card-present, which counts
as a verification of strength "high".

## 6. Not modelled

- `resolve_dispute`, which nothing calls, and the reads (`get_review_queue`, metrics).
- The rate limiter and the idempotency store: no callers, one atomic block each.
- Scores, features, training and export: numeric data without concurrent state.
- Signatures, parsing, prompts, letters, logging, metrics, the dashboard, migrations
  and deployment files: formatting and configuration.
- The weekly clean-up of the audit trail: one DELETE of old entries, which no other
  part touches or reads.
- Monitoring tasks: reads, log lines and gauges.
- Event loops and the connections cached across them (`_run_async`): what the
  libraries do there shows in the model as an exception of the run.

## 7. What could come next

- `resolve_dispute` and the outcome of a dispute, once something calls it.
- A composition of `DisputeLifecycle` with `EvidenceSubmission`, in which the letter of
  the row is the one the reviewer saw: here each has its own abstraction of the other.
- The rate limiter and the idempotency store, once something uses them.
