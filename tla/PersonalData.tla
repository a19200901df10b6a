----------------------------- MODULE PersonalData -----------------------------
(***************************************************************************)
(* What deletion requests and the daily scrub of workers/retention.py do   *)
(* to the rows of one merchant, while webhooks insert rows, and runs of    *)
(* the agent and reviewers write them.                                     *)
(*                                                                         *)
(* The transactions of retention lock what they update until they commit   *)
(* or roll back: a deletion request first the rows of disputes and then    *)
(* those of fraud_score_log, the daily scrub the other way round.  An      *)
(* UPDATE knows the rows that were committed when it began; it meets them  *)
(* in any order, waits for each that is locked, and passes over one that   *)
(* does not match any more.                                                *)
(***************************************************************************)
EXTENDS Naturals

CONSTANTS
  Rows,        \* disputes of the merchant
  Cards,       \* their card tokens
  Deletions,   \* deletion requests for the merchant or for a card
  MaxCrashes,  \* bound of the model: how many times a worker may be lost
  None

Holders == Deletions \cup {"writer", "daily"}
Entities == Cards \cup {"merchant"}
Scrubbed == {"deleted", "expired"}

ASSUME PersonalDataAssumption ==
  /\ Cards \cap ({"absent", "merchant"} \cup Scrubbed) = {}
  /\ Deletions \cap {"writer", "daily"} = {}
  /\ None \notin Holders
  /\ MaxCrashes \in Nat

VARIABLES
  gdpr,        \* settings.enable_gdpr_deletion
  registered,  \* whether the workers have imported workers.retention
  token,       \* card_token of each row, "absent" before its commit
  data,        \* "content" (letter and evidence) and "rationale" in the row
  log,         \* its score logs: "none", "full" (with contributions) or "scrubbed"
  rowLock,     \* who has updated each row and not committed
  logLock,     \* the same for its score logs
  at,          \* where each deletion request is
  entity,      \* what it is for
  known,       \* the rows its first UPDATE knows
  since,       \* history: rows inserted after that
  rewritten,   \* history: scrubbed rows written after that
  daily,       \* where the daily scrub is
  dailyKnown,  \* the rows its second UPDATE knows
  crashes

settings == <<gdpr, registered>>
rowVars == <<token, data, log>>
lockVars == <<rowLock, logLock>>
requestVars == <<at, entity, known>>
dailyVars == <<daily, dailyKnown>>
history == <<since, rewritten>>
vars == <<settings, rowVars, lockVars, requestVars, history, dailyVars, crashes>>

Ends == {"completed", "failed", "disabled", "discarded"}
Working == {"disputes", "purging"}

Init ==
  /\ gdpr \in BOOLEAN
  /\ registered \in BOOLEAN
  /\ token = [d \in Rows |-> "absent"]
  /\ data = [d \in Rows |-> {}]
  /\ log = [d \in Rows |-> "none"]
  /\ rowLock = [d \in Rows |-> None]
  /\ logLock = [d \in Rows |-> None]
  /\ at = [q \in Deletions |-> "idle"]
  /\ entity = [q \in Deletions |-> "merchant"]
  /\ known = [q \in Deletions |-> {}]
  /\ since = [q \in Deletions |-> {}]
  /\ rewritten = [q \in Deletions |-> {}]
  /\ daily = "idle"
  /\ dailyKnown = {}
  /\ crashes = 0

Started(q) == at[q] \in Working \cup {"completed"}
Inserted(d) == token[d] # "absent"

\* What is left of the locks when a transaction of x ends.
Release(x, lock) == [d \in Rows |-> IF lock[d] = x THEN None ELSE lock[d]]

-----------------------------------------------------------------------------
(* Webhooks, runs of the agent, reviewers.                                 *)

\* create_dispute commits a row of its own; a redelivered webhook finds it and
\* writes nothing.
Insert(d, c) ==
  /\ ~Inserted(d)
  /\ token' = [token EXCEPT ![d] = c]
  /\ since' = [q \in Deletions |-> IF Started(q) THEN since[q] \cup {d} ELSE since[q]]
  /\ UNCHANGED <<settings, data, log, lockVars, requestVars, rewritten, dailyVars, crashes>>

\* The first UPDATE of a run's transaction, or the one of a reviewer's.
Write(d) ==
  /\ Inserted(d)
  /\ rowLock[d] = None
  /\ rowLock' = [rowLock EXCEPT ![d] = "writer"]
  /\ UNCHANGED <<settings, rowVars, logLock, requestVars, history, dailyVars, crashes>>

\* A run leaves a decision with its rationale and, as far as its nodes got,
\* letter, evidence and a score log; a reviewer leaves a rationale.  Neither
\* looks at what the row holds, and the card token is never written again.
WriteCommit(d, parts, scored) ==
  /\ rowLock[d] = "writer"
  /\ rowLock' = [rowLock EXCEPT ![d] = None]
  /\ data' = [data EXCEPT ![d] = @ \cup parts \cup {"rationale"}]
  /\ log' = IF scored THEN [log EXCEPT ![d] = "full"] ELSE log
  /\ rewritten' = [q \in Deletions |-> IF Started(q) /\ token[d] \in Scrubbed
                                        THEN rewritten[q] \cup {d} ELSE rewritten[q]]
  /\ UNCHANGED <<settings, token, logLock, requestVars, since, dailyVars, crashes>>

WriteRollback(d) ==
  /\ rowLock[d] = "writer"
  /\ rowLock' = [rowLock EXCEPT ![d] = None]
  /\ UNCHANGED <<settings, rowVars, logLock, requestVars, history, dailyVars, crashes>>

-----------------------------------------------------------------------------
(* process_deletion_request.                                               *)

\* request_deletion answers "queued" for any merchant and any token.
Request(q, e) ==
  /\ at[q] = "idle"
  /\ at' = [at EXCEPT ![q] = "queued"]
  /\ entity' = [entity EXCEPT ![q] = e]
  /\ UNCHANGED <<settings, rowVars, lockVars, known, history, dailyVars, crashes>>

\* A worker started with "-A workers.tasks" has not imported workers.retention:
\* the message is of an unregistered task and is thrown away.
Discard(q) ==
  /\ at[q] = "queued"
  /\ ~registered
  /\ at' = [at EXCEPT ![q] = "discarded"]
  /\ UNCHANGED <<settings, rowVars, lockVars, entity, known, history, dailyVars, crashes>>

Disabled(q) ==
  /\ at[q] = "queued"
  /\ registered
  /\ ~gdpr
  /\ at' = [at EXCEPT ![q] = "disabled"]
  /\ UNCHANGED <<settings, rowVars, lockVars, entity, known, history, dailyVars, crashes>>

\* Mutant: rows that have been scrubbed are not scrubbed again.
MatchesFresh(q, d) ==
  IF entity[q] = "merchant" THEN token[d] \in Cards ELSE token[d] = entity[q]

\* The WHERE of the first UPDATE: the merchant's rows, or those of the card.
Matches(q, d) == IF entity[q] = "merchant" THEN Inserted(d) ELSE token[d] = entity[q]

\* The transaction begins with the UPDATE of disputes.
Begin(q) ==
  /\ at[q] = "queued"
  /\ registered
  /\ gdpr
  /\ at' = [at EXCEPT ![q] = "disputes"]
  /\ known' = [known EXCEPT ![q] = {d \in Rows : Matches(q, d)}]
  /\ UNCHANGED <<settings, rowVars, lockVars, entity, history, dailyVars, crashes>>

\* Mutant: rows that are locked are left out (SKIP LOCKED).
PendingUnlocked(q) == {d \in known[q] : Matches(q, d) /\ rowLock[d] = None}

\* The rows the UPDATE has yet to change.
Pending(q) == {d \in known[q] : Matches(q, d) /\ rowLock[d] # q}

ScrubRow(q, d) ==
  /\ at[q] = "disputes"
  /\ d \in Pending(q)
  /\ rowLock[d] = None
  /\ rowLock' = [rowLock EXCEPT ![d] = q]
  /\ UNCHANGED <<settings, rowVars, logLock, requestVars, history, dailyVars, crashes>>

\* The score logs the second UPDATE matches: the merchant's, but none of a card,
\* since update_fraud_score stores "[redacted]" for the token.
LogsOf(q) == {d \in Rows : entity[q] = "merchant" /\ log[d] # "none"}

ScrubLogs(q) ==
  /\ at[q] = "disputes"
  /\ Pending(q) = {}
  /\ \A d \in LogsOf(q) : logLock[d] = None
  /\ logLock' = [d \in Rows |-> IF d \in LogsOf(q) THEN q ELSE logLock[d]]
  /\ at' = [at EXCEPT ![q] = "purging"]
  /\ UNCHANGED <<settings, rowVars, rowLock, entity, known, history, dailyVars, crashes>>

\* The Redis keys have been deleted or have been given up on (CardSequence), and
\* the transaction commits.  A card's rows keep their rationale.
Complete(q) ==
  /\ at[q] = "purging"
  /\ at' = [at EXCEPT ![q] = "completed"]
  /\ token' = [d \in Rows |-> IF rowLock[d] = q THEN "deleted" ELSE token[d]]
  /\ data' = [d \in Rows |-> IF rowLock[d] # q THEN data[d]
                             ELSE IF entity[q] = "merchant" THEN {} ELSE data[d] \ {"content"}]
  /\ log' = [d \in Rows |-> IF logLock[d] = q THEN "scrubbed" ELSE log[d]]
  /\ rowLock' = Release(q, rowLock)
  /\ logLock' = Release(q, logLock)
  /\ UNCHANGED <<settings, entity, known, history, dailyVars, crashes>>

\* Mutant: the session is given back with its transaction open.
AbortOpen(q, to) ==
  /\ at' = [at EXCEPT ![q] = to]
  /\ UNCHANGED <<settings, rowVars, lockVars, entity, known, history>>

\* The transaction rolls back and its request goes where `to` says.
Abort(q, to) ==
  /\ at' = [at EXCEPT ![q] = to]
  /\ known' = [known EXCEPT ![q] = {}]
  /\ since' = [since EXCEPT ![q] = {}]
  /\ rewritten' = [rewritten EXCEPT ![q] = {}]
  /\ rowLock' = Release(q, rowLock)
  /\ logLock' = Release(q, logLock)
  /\ UNCHANGED <<settings, rowVars, entity>>

\* Mutant: the task is retried, as often as it fails.
FailRetries(q) ==
  /\ at[q] \in Working
  /\ Abort(q, "queued")
  /\ UNCHANGED <<dailyVars, crashes>>

\* Any exception, the soft time limit and a failing commit included: the task
\* has no retry.
Fail(q) ==
  /\ at[q] \in Working
  /\ Abort(q, "failed")
  /\ UNCHANGED <<dailyVars, crashes>>

\* The message is delivered again, or dropped.
Lost(q) ==
  /\ at[q] \in Working
  /\ crashes < MaxCrashes
  /\ crashes' = crashes + 1
  /\ \E to \in {"queued", "failed"} : Abort(q, to)
  /\ UNCHANGED dailyVars

-----------------------------------------------------------------------------
(* enforce_pii_retention.                                                  *)

\* Which rows and score logs are older than pii_retention_days, and which rows
\* have an outcome, is left open: nothing in the program calls resolve_dispute.
\* The score logs that were found by their own age have their token replaced,
\* which is not in the model, since it never was the card's.
DailyLogs ==
  /\ daily = "idle"
  /\ registered
  /\ \E D \in SUBSET {d \in Rows : log[d] # "none" /\ logLock[d] = None} :
       logLock' = [d \in Rows |-> IF d \in D THEN "daily" ELSE logLock[d]]
  /\ \E D \in SUBSET {d \in Rows : Inserted(d) /\ token[d] # "expired"} : dailyKnown' = D
  /\ daily' = "disputes"
  /\ UNCHANGED <<settings, rowVars, rowLock, requestVars, history, crashes>>

\* The rows it has yet to change.
DailyPending == {d \in dailyKnown : token[d] # "expired" /\ rowLock[d] # "daily"}

DailyRow(d) ==
  /\ daily = "disputes"
  /\ d \in DailyPending
  /\ rowLock[d] = None
  /\ rowLock' = [rowLock EXCEPT ![d] = "daily"]
  /\ UNCHANGED <<settings, rowVars, logLock, requestVars, history, dailyVars, crashes>>

\* Mutant: the night's session is given back with its transaction open.
DailyEndOpen ==
  /\ daily' = "idle"
  /\ dailyKnown' = {}
  /\ UNCHANGED <<settings, log, lockVars, requestVars, history>>

\* Both UPDATEs are made and the transaction ends, either way.
DailyEnd ==
  /\ daily' = "idle"
  /\ dailyKnown' = {}
  /\ rowLock' = Release("daily", rowLock)
  /\ logLock' = Release("daily", logLock)
  /\ UNCHANGED <<settings, log, requestVars, history>>

DailyCommit ==
  /\ daily = "disputes"
  /\ DailyPending = {}
  /\ token' = [d \in Rows |-> IF rowLock[d] = "daily" THEN "expired" ELSE token[d]]
  /\ data' = [d \in Rows |-> IF rowLock[d] = "daily" THEN data[d] \ {"content"} ELSE data[d]]
  /\ DailyEnd
  /\ UNCHANGED crashes

\* Any failure; the next night scrubs again.
DailyAbort == DailyEnd /\ UNCHANGED <<token, data>>

DailyFails ==
  /\ daily = "disputes"
  /\ DailyAbort
  /\ UNCHANGED crashes

-----------------------------------------------------------------------------
(* PostgreSQL.                                                             *)

\* Retention's transaction x needs a lock that y holds.
Needs(x, y) ==
  \/ /\ x \in Deletions
     /\ at[x] = "disputes"
     /\ \/ \E d \in Pending(x) : rowLock[d] = y
        \/ Pending(x) = {} /\ \E d \in LogsOf(x) : logLock[d] = y
  \/ /\ x = "daily"
     /\ daily = "disputes"
     /\ \E d \in DailyPending : rowLock[d] = y

\* Each of these transactions needs what another of them holds.
Deadlocked(S) == S # {} /\ \A x \in S : \E y \in S \ {x} : Needs(x, y)

\* One of them is rolled back with an error.  A transaction that takes its score
\* logs one by one may end the same way: Fail and DailyFails.
BreakDeadlock ==
  /\ \E S \in SUBSET (Deletions \cup {"daily"}) :
       /\ Deadlocked(S)
       /\ \E x \in S : IF x = "daily" THEN DailyAbort ELSE Abort(x, "failed") /\ UNCHANGED dailyVars
  /\ UNCHANGED crashes

-----------------------------------------------------------------------------
WriterEnds(d) ==
  \/ \E parts \in {{}, {"content"}}, scored \in BOOLEAN : WriteCommit(d, parts, scored)
  \/ WriteRollback(d)

DeletionStep(q) ==
  \/ Discard(q) \/ Disabled(q) \/ Begin(q)
  \/ \E d \in Rows : ScrubRow(q, d)
  \/ ScrubLogs(q) \/ Complete(q)

DailyStep == (\E d \in Rows : DailyRow(d)) \/ DailyCommit

Next ==
  \/ \E d \in Rows : \/ \E c \in Cards : Insert(d, c)
                     \/ Write(d) \/ WriterEnds(d)
  \/ \E q \in Deletions : \/ \E e \in Entities : Request(q, e)
                          \/ DeletionStep(q) \/ Fail(q) \/ Lost(q)
  \/ DailyLogs \/ DailyStep \/ DailyFails
  \/ BreakDeadlock

Spec == Init /\ [][Next]_vars

(***************************************************************************)
(* A transaction that has begun ends, a message is taken from its queue,   *)
(* PostgreSQL finds deadlocks, and whoever waits for a lock that becomes   *)
(* free again and again gets it in the end, because waiting is in a queue. *)
(***************************************************************************)
Fairness ==
  /\ \A d \in Rows : WF_vars(WriterEnds(d))
  /\ \A q \in Deletions : SF_vars(DeletionStep(q))
  /\ SF_vars(DailyStep)
  /\ WF_vars(BreakDeadlock)

FairSpec == Spec /\ Fairness

-----------------------------------------------------------------------------
(* What is promised to whom asked for a deletion.                          *)

\* The state is well formed and locks are held by transactions under way.
TypeOK ==
  /\ gdpr \in BOOLEAN /\ registered \in BOOLEAN
  /\ token \in [Rows -> Cards \cup {"absent"} \cup Scrubbed]
  /\ data \in [Rows -> SUBSET {"content", "rationale"}]
  /\ log \in [Rows -> {"none", "full", "scrubbed"}]
  /\ rowLock \in [Rows -> Holders \cup {None}]
  /\ logLock \in [Rows -> Deletions \cup {"daily", None}]
  /\ at \in [Deletions -> {"idle", "queued"} \cup Working \cup Ends]
  /\ entity \in [Deletions -> Entities]
  /\ known \in [Deletions -> SUBSET Rows]
  /\ since \in [Deletions -> SUBSET Rows]
  /\ rewritten \in [Deletions -> SUBSET Rows]
  /\ daily \in {"idle", "disputes"}
  /\ dailyKnown \in SUBSET Rows
  /\ crashes \in 0..MaxCrashes
  /\ \A d \in Rows, q \in Deletions : q \in {rowLock[d], logLock[d]} => at[q] \in Working
  /\ \A d \in Rows : "daily" \in {rowLock[d], logLock[d]} => daily = "disputes"

\* After a request is "completed" no row has a token it was to remove, whatever
\* runs, reviewers, the daily scrub and other requests were doing to the rows,
\* but for rows that webhooks inserted after its UPDATE had begun.
TokenErased ==
  \A q \in Deletions : at[q] = "completed" =>
    \A d \in Rows \ since[q] : token[d] # entity[q] /\ (entity[q] = "merchant" => token[d] \notin Cards)

\* What a completed request found in its rows is gone, with what transactions that
\* held them when it came have committed since: it waits for those.  Text in them now
\* was committed by a transaction that updated its row after the row had been scrubbed
\* (`rewritten`).  That may be a run of the agent that was under way when the request
\* came, since a run updates its row only when it has its letter: this says what the
\* request removes, and not that nothing comes after it.
ContentErased ==
  \A q \in Deletions : at[q] = "completed" =>
    \A d \in Rows \ (since[q] \cup rewritten[q]) :
      /\ entity[q] = "merchant" => data[d] = {} /\ log[d] # "full"
      /\ d \in known[q] => "content" \notin data[d]

Retention == Deletions \cup {"daily"}

\* Whether retention's transaction x has begun, and whether it has a step to take.
UnderWay(x) == IF x = "daily" THEN daily = "disputes" ELSE at[x] \in Working
RowsToDo(x) == IF x = "daily" THEN DailyPending ELSE Pending(x)
CanGoOn(x) ==
  \/ x # "daily" /\ at[x] = "purging"
  \/ \E d \in RowsToDo(x) : rowLock[d] = None
  \/ /\ RowsToDo(x) = {}
     /\ x # "daily" => \A d \in LogsOf(x) : logLock[d] = None
Stuck == {x \in Retention : UnderWay(x) /\ ~CanGoOn(x)}

\* Retention's transactions and the writers never stand still together without
\* PostgreSQL noticing: when some of them are stuck, one of them waits for a writer
\* or for a transaction that can go on, or they are a deadlock it breaks.
WaitsAreSeen ==
  Stuck # {} =>
    \/ Deadlocked(Stuck)
    \/ \E x \in Stuck : Needs(x, "writer")
    \/ \E x \in Stuck, y \in Retention \ Stuck : Needs(x, y) /\ UnderWay(y) /\ CanGoOn(y)

\* While an UPDATE of a deletion request is under way nobody gives it more rows to
\* scrub: webhooks, writers, the daily scrub and other requests only take some away,
\* and what it has scrubbed stays its own until its transaction ends.
PendingShrinks ==
  [][\A q \in Deletions : at[q] = "disputes" /\ at'[q] = "disputes" =>
       Pending(q)' \subseteq Pending(q)]_vars

\* A request that was queued comes to an end, whatever it has to wait for.
DeletionEnds == \A q \in Deletions : at[q] = "queued" ~> at[q] \in Ends

-----------------------------------------------------------------------------
(* What a document says of deletion requests and the code does not do.     *)

\* request_deletion "queues an async task to scrub all PII for the given entity":
\* when the queue is done with a request without an error, the tokens are gone.
\* Workers that have not imported the task throw the request away, whether or not
\* deletions are enabled.
DeletionErases ==
  [][\A q \in Deletions : at[q] \notin Ends /\ at'[q] \in {"completed", "discarded"} =>
       \A d \in Rows \ since[q] :
         /\ token'[d] # entity[q]
         /\ entity[q] = "merchant" => token'[d] \notin Cards]_vars

=============================================================================
