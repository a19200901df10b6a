-------------------------- MODULE EvidenceSubmission --------------------------
(***************************************************************************)
(* submit_dispute_evidence of the Stripe and the Square adapter, for one   *)
(* dispute, with everybody who calls it: the submitter node of each run of *)
(* the agent, with the letter of its own workflow state, and each          *)
(* submit_dispute_task, with the letter of the row at the time it starts.  *)
(*                                                                         *)
(* A request travels on its own.  Its caller may give up on it (a          *)
(* transport error, the time limit of the task, the death of the worker)   *)
(* while the processor has yet to handle it or has handled it already.     *)
(***************************************************************************)
EXTENDS Naturals

CONSTANTS
  Runs,          \* executions of the workflow that get as far as a decision
  Tasks,         \* submit_dispute_task messages: one per approval, and one more for
                 \* each worker lost between a retry and its acknowledgement
  Letters,       \* the letters the writer may produce
  Blank,         \* "", which a row without a letter is submitted as
  Placeholder,   \* what deletion and retention leave in dispute_letter
  MaxRetries,    \* max_retries of submit_dispute_task
  None

Callers == Runs \cup Tasks
Texts == Letters \cup {Blank, Placeholder}

ASSUME SubmissionAssumption ==
  /\ Runs \cap Tasks = {}
  /\ Blank \notin Letters
  /\ None \notin Texts \cup Callers \cup {"ok", "error"}
  /\ MaxRetries \in Nat

VARIABLES
  processor,  \* payment_processor of the dispute
  letter,     \* committed dispute_letter of its row
  filed,      \* history: the texts a reader of the row has found there
  at,         \* where each caller is
  draft,      \* the evidence_text of its submission, or the letter of its run
  retries,    \* retries a task has used
  wire,       \* requests the processor has not handled
  answer,     \* the answer each caller finds on its connection
  saved,      \* the text stored at the processor under the dispute's key
  record,     \* the text it has submitted to the bank
  reported    \* history: the texts whose submission was answered with success

rowVars == <<letter, filed>>
callVars == <<at, draft, retries>>
processorVars == <<saved, record>>
vars == <<processor, rowVars, callVars, wire, answer, processorVars, reported>>

\* "first" is Stripe's only request and Square's evidence-text, "second" is
\* Square's submit-evidence.
Steps == {"first", "second"}
Calling(c) == at[c] \in Steps
Requests == [by : Callers \cup {None}, step : Steps, text : Texts]

Init ==
  /\ processor \in {"stripe", "square"}
  /\ letter = None
  /\ filed = {}
  /\ at = [c \in Callers |-> "idle"]
  /\ draft = [c \in Callers |-> Blank]
  /\ retries = [t \in Tasks |-> 0]
  /\ wire = {}
  /\ answer = [c \in Callers |-> None]
  /\ saved = None
  /\ record = None
  /\ reported = {}

-----------------------------------------------------------------------------
(* Helpers of the callers.                                                 *)

Post(c, step, text) == wire' = wire \cup {[by |-> c, step |-> step, text |-> text]}

\* The connection is gone: what travels on it has nobody to answer.
HangUp(c) ==
  /\ wire' = {IF r.by = c THEN [by |-> None, step |-> r.step, text |-> r.text] ELSE r :
                r \in wire}
  /\ answer' = [answer EXCEPT ![c] = None]

\* record.dispute_letter or "", for what the column holds.
TextOf(column) == IF column = None THEN Blank ELSE column

\* Where a caller goes on after a call that returned a result.
AfterCall(c, success) ==
  IF c \in Runs THEN "persisting" ELSE IF success THEN "submitted" ELSE "refused"

-----------------------------------------------------------------------------
(* The runs of the agent.                                                  *)

\* The writer has a letter and the engine decided auto_submit, which takes one.
DraftAndSubmit(n, l) ==
  /\ at[n] = "idle"
  /\ at' = [at EXCEPT ![n] = "first"]
  /\ draft' = [draft EXCEPT ![n] = l]
  /\ Post(n, "first", l)
  /\ UNCHANGED <<processor, rowVars, retries, answer, processorVars, reported>>

\* human_review, with a letter or, after an empty answer of the model, without.
DraftForReview(n, l) ==
  /\ at[n] = "idle"
  /\ at' = [at EXCEPT ![n] = "asking"]
  /\ draft' = [draft EXCEPT ![n] = l]
  /\ UNCHANGED <<processor, rowVars, retries, wire, answer, processorVars, reported>>

\* Mutant: a letter that is there is not written again.
PersistFirst(n) ==
  /\ at[n] \in {"asking", "persisting"}
  /\ at' = [at EXCEPT ![n] = IF @ = "asking" THEN "asked" ELSE "done"]
  /\ letter' = IF draft[n] = Blank \/ letter # None THEN letter ELSE draft[n]
  /\ filed' = filed \cup {TextOf(letter')}
  /\ UNCHANGED <<processor, draft, retries, wire, answer, processorVars, reported>>

\* _persist_workflow_result, at its commit: the letter of this run, if it has
\* one, replaces what the row holds.
Persist(n) ==
  /\ at[n] \in {"asking", "persisting"}
  /\ at' = [at EXCEPT ![n] = IF @ = "asking" THEN "asked" ELSE "done"]
  /\ letter' = IF draft[n] = Blank THEN letter ELSE draft[n]
  /\ filed' = filed \cup {TextOf(letter')}
  /\ UNCHANGED <<processor, draft, retries, wire, answer, processorVars, reported>>

\* The transaction rolls back or the worker is lost: process_dispute_task runs
\* the workflow again, which is another member of Runs.
Drop(n) ==
  /\ at[n] \in {"first", "second", "asking", "persisting"}
  /\ at' = [at EXCEPT ![n] = "dropped"]
  /\ HangUp(n)
  /\ UNCHANGED <<processor, rowVars, draft, retries, processorVars, reported>>

\* A deletion request for the merchant or the card, or the daily scrub.
Scrub ==
  /\ \E n \in Runs : at[n] # "idle"
  /\ letter' = Placeholder
  /\ filed' = filed \cup {Placeholder}
  /\ UNCHANGED <<processor, callVars, wire, answer, processorVars, reported>>

-----------------------------------------------------------------------------
(* submit_dispute_task.                                                    *)

\* The approval that published the task found the dispute pending review.
Start(t) ==
  /\ \/ at[t] = "idle" /\ \E n \in Runs : at[n] = "asked"
     \/ at[t] = "queued"
  /\ at' = [at EXCEPT ![t] = "first"]
  /\ draft' = [draft EXCEPT ![t] = TextOf(letter)]
  /\ Post(t, "first", TextOf(letter))
  /\ UNCHANGED <<processor, rowVars, retries, answer, processorVars, reported>>

\* Mutant: every exception counts as a retry that is left.
MayRetryAlways(t) == retries[t] <= MaxRetries

MayRetry(t) == retries[t] < MaxRetries

-----------------------------------------------------------------------------
(* submit_dispute_evidence.                                                *)

\* Mutant: an answer of any status is a result.
SucceedsUnchecked(c) ==
  /\ at[c] = IF processor = "stripe" THEN "first" ELSE "second"
  /\ answer[c] # None

\* The last request was answered and raise_for_status has passed.
Succeeds(c) ==
  /\ at[c] = IF processor = "stripe" THEN "first" ELSE "second"
  /\ answer[c] = "ok"

ReceiveSuccess(c) ==
  /\ Succeeds(c)
  /\ at' = [at EXCEPT ![c] = AfterCall(c, TRUE)]
  /\ answer' = [answer EXCEPT ![c] = None]
  /\ reported' = reported \cup {draft[c]}
  /\ UNCHANGED <<processor, rowVars, draft, retries, wire, processorVars>>

\* Square has taken the evidence text; now the dispute is submitted.
ReceiveFirst(c) ==
  /\ processor = "square"
  /\ at[c] = "first"
  /\ answer[c] = "ok"
  /\ at' = [at EXCEPT ![c] = "second"]
  /\ answer' = [answer EXCEPT ![c] = None]
  /\ Post(c, "second", draft[c])
  /\ UNCHANGED <<processor, rowVars, draft, retries, processorVars, reported>>

\* Any error status, 429 and 5xx included: the adapter turns the HTTPStatusError
\* into success=False, so neither its retry decorator nor the task tries again.
ReceiveError(c) ==
  /\ Calling(c)
  /\ answer[c] = "error"
  /\ at' = [at EXCEPT ![c] = AfterCall(c, FALSE)]
  /\ answer' = [answer EXCEPT ![c] = None]
  /\ UNCHANGED <<processor, rowVars, draft, retries, wire, processorVars, reported>>

\* No answer, or none that can be read: a transport error is not _is_retryable
\* and leaves the adapter.  The submitter node notes it and the run goes on; the
\* task is retried.
Raise(c) ==
  /\ Calling(c)
  /\ HangUp(c)
  /\ IF c \in Runs
       THEN /\ at' = [at EXCEPT ![c] = "persisting"]
            /\ UNCHANGED retries
       ELSE IF MayRetry(c)
       THEN /\ at' = [at EXCEPT ![c] = "queued"]
            /\ retries' = [retries EXCEPT ![c] = @ + 1]
       ELSE /\ at' = [at EXCEPT ![c] = "failed"]
            /\ UNCHANGED retries
  /\ UNCHANGED <<processor, rowVars, draft, processorVars, reported>>

\* The worker of a task dies before the acknowledgement, also when the call has
\* returned: the message is delivered again, or dropped.
TaskLost(t) ==
  /\ Calling(t) \/ at[t] \in {"submitted", "refused"}
  /\ HangUp(t)
  /\ \E end \in {"queued", "lost"} : at' = [at EXCEPT ![t] = end]
  /\ UNCHANGED <<processor, rowVars, draft, retries, processorVars, reported>>

-----------------------------------------------------------------------------
(***************************************************************************)
(* The processors, as the adapters use them.  Stripe keeps the parameters  *)
(* of an idempotency key for a while and refuses others under it, and it   *)
(* takes no evidence for a dispute that was submitted.  Square keeps the   *)
(* evidence text of a key, submits what it has once, and may answer a      *)
(* repetition of either request with success or with an error.             *)
(***************************************************************************)

StripeTakes(text) ==
  /\ saved = None
  /\ record = None
  /\ record' = text
  /\ saved' = text

SquareCreates(text) ==
  /\ saved = None
  /\ saved' = text
  /\ UNCHANGED record

SquareSubmits ==
  /\ record = None
  /\ record' = TextOf(saved)
  /\ UNCHANGED saved

\* What the processor may do with a request the first time.
Effect(r) ==
  \/ processor = "stripe" /\ StripeTakes(r.text)
  \/ processor = "square" /\ r.step = "first" /\ SquareCreates(r.text)
  \/ processor = "square" /\ r.step = "second" /\ SquareSubmits

\* It knows the request already and answers with success.
Replays(r) ==
  \/ processor = "stripe" /\ saved = r.text
  \/ processor = "square" /\ r.step = "first" /\ saved # None
  \/ processor = "square" /\ r.step = "second" /\ record # None

Reply(r, a) ==
  /\ wire' = wire \ {r}
  /\ answer' = IF r.by = None THEN answer ELSE [answer EXCEPT ![r.by] = a]

\* A gateway may answer with an error although the processor has done it.
Handle(r) ==
  /\ Effect(r)
  /\ \E a \in {"ok", "error"} : Reply(r, a)
  /\ UNCHANGED <<processor, rowVars, callVars, reported>>

Repeat(r) ==
  /\ Replays(r)
  /\ Reply(r, "ok")
  /\ UNCHANGED <<processor, rowVars, callVars, processorVars, reported>>

\* Overloaded, unknown dispute, other parameters under the key, too late.
Refuse(r) ==
  /\ Reply(r, "error")
  /\ UNCHANGED <<processor, rowVars, callVars, processorVars, reported>>

ForgetKey ==
  /\ processor = "stripe"
  /\ saved # None
  /\ saved' = None
  /\ UNCHANGED <<processor, rowVars, callVars, wire, answer, record, reported>>

-----------------------------------------------------------------------------
RunStep(n) ==
  \/ \E l \in Letters : DraftAndSubmit(n, l)
  \/ \E l \in Letters \cup {Blank} : DraftForReview(n, l)
  \/ Persist(n)
  \/ Drop(n)

CallStep(c) == ReceiveSuccess(c) \/ ReceiveFirst(c) \/ ReceiveError(c) \/ Raise(c)

ProcessorStep ==
  \/ \E r \in wire : Handle(r) \/ Repeat(r) \/ Refuse(r)
  \/ ForgetKey

Next ==
  \/ \E n \in Runs : RunStep(n)
  \/ \E t \in Tasks : Start(t) \/ TaskLost(t)
  \/ \E c \in Callers : CallStep(c)
  \/ Scrub
  \/ ProcessorStep

Spec == Init /\ [][Next]_vars

-----------------------------------------------------------------------------
(* What the adapters and their callers promise.                            *)

\* The state is well formed: a caller has an answer only while it calls, a task
\* uses no more than its retries, and only Square has a second request.
TypeOK ==
  /\ processor \in {"stripe", "square"}
  /\ letter \in Texts \cup {None}
  /\ filed \in SUBSET Texts
  /\ at \in [Callers -> Steps \cup {"idle", "asking", "asked", "persisting", "done", "dropped",
                                    "queued", "submitted", "refused", "failed", "lost"}]
  /\ draft \in [Callers -> Texts]
  /\ retries \in [Tasks -> 0..MaxRetries]
  /\ wire \in SUBSET Requests
  /\ answer \in [Callers -> {None, "ok", "error"}]
  /\ saved \in Texts \cup {None}
  /\ record \in Texts \cup {None}
  /\ reported \in SUBSET Texts

\* submit_dispute_evidence "must be idempotent" (base.py): whoever calls it and
\* whatever is lost, one text goes on record and stays, success is answered
\* only when it is there, and with Stripe only for that text.
Promise == INSTANCE SubmissionPromise WITH exact <- (processor = "stripe")
KeepsPromise == Promise!Spec

\* Whoever was told "submitted" can rely on it: there is evidence on record, and with
\* Stripe it is what this caller had sent, so no two callers were told so of
\* different letters.
ReportedIsOnRecord ==
  /\ reported # {} => record # None
  /\ processor = "stripe" => reported \subseteq {record}

\* A text somebody can account for: it was in the row at some time (a row
\* without one counts as the blank letter), or a run sent it whose transaction
\* is still to come or never came.
Accounted(text) ==
  \/ text \in filed
  \/ \E n \in Runs : draft[n] = text /\ at[n] \in Steps \cup {"persisting", "dropped"}

\* The processor never holds evidence from nowhere, nor a submission without the
\* text it should have: requests given up on, retries and rewritten rows included.
EvidenceIsFiled == record # None => Accounted(record)

-----------------------------------------------------------------------------
(***************************************************************************)
(* The inductive invariant: what every text on its way goes back to, and   *)
(* what an answer says of the processor.                                   *)
(***************************************************************************)

\* A run that sends has a letter; a task starts after a run asked for review,
\* and from then on the text of the row has been found there.
CallersInv ==
  /\ \A n \in Runs : at[n] \in Steps \cup {"persisting"} => draft[n] \in Letters
  /\ \A n \in Runs : at[n] \notin {"queued", "submitted", "refused", "failed", "lost"}
  /\ \A t \in Tasks : at[t] # "idle" => \E n \in Runs : at[n] = "asked"
  /\ letter # None => letter \in filed
  /\ (\E n \in Runs : at[n] = "asked") => TextOf(letter) \in filed

\* A request is its caller's last one, unanswered, unless the caller gave up.
WireInv ==
  \A r \in wire : /\ r.by # None => /\ r.step = at[r.by]
                                     /\ r.text = draft[r.by]
                                     /\ answer[r.by] = None
                  /\ Accounted(r.text)

\* Every text that is stored or being sent is accounted for.
TextsInv ==
  /\ saved # None => Accounted(saved)
  /\ record # None => Accounted(record)
  /\ \A c \in Callers : Calling(c) => Accounted(draft[c])

\* What an answer says.
AnswersInv ==
  /\ \A c \in Callers : answer[c] # None => Calling(c)
  /\ processor = "stripe" =>
       /\ saved # None => record = saved
       /\ \A c \in Callers : at[c] # "second" /\ (answer[c] = "ok" => record = draft[c])
       /\ \A r \in wire : r.step = "first"
  /\ processor = "square" =>
       /\ \A c \in Callers : at[c] = "second" \/ answer[c] = "ok" => saved # None
       /\ \A r \in wire : r.step = "second" => saved # None
       /\ \A c \in Callers : at[c] = "second" /\ answer[c] = "ok" => record # None

IInv == TypeOK /\ CallersInv /\ WireInv /\ TextsInv /\ AnswersInv
=============================================================================
