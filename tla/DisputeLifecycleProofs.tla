----------------------- MODULE DisputeLifecycleProofs -----------------------
(***************************************************************************)
(* Safety of the dispute lifecycle for any number of requests, chargebacks *)
(* and lost workers and any retry limit.                                   *)
(***************************************************************************)
EXTENDS DisputeLifecycle, TLAPS

\* The table of set_decision, entry by entry.
LEMMA StatusTable ==
  /\ StatusOf("auto_submit") = "auto_submitted"
  /\ StatusOf("human_review") = "pending_review"
  /\ StatusOf("decline_dispute") = "expired"
BY DEF StatusOf

\* What committing a decision does to the row and the trail of its dispute.
LEMMA SetDecisionEffect ==
  ASSUME TypeOK, NEW d \in Disputes, NEW decision \in Decisions, NEW actor \in {"agent", "human"},
         SetDecision(d, decision, actor)
  PROVE  /\ status' \in [Disputes -> Statuses \cup {"absent"}]
         /\ audit' \in [Disputes -> SUBSET AuditEntries]
         /\ status'[d] = StatusOf(decision)
         /\ audit'[d] = audit[d] \cup {<<actor, decision>>}
         /\ \A e \in Disputes \ {d} : status'[e] = status[e] /\ audit'[e] = audit[e]
<1>1. StatusOf(decision) \in Statuses
  BY StatusTable DEF Decisions, Statuses
<1>2. <<actor, decision>> \in AuditEntries
  BY DEF AuditEntries
<1>3. audit[d] \cup {<<actor, decision>>} \in SUBSET AuditEntries
  BY <1>2 DEF TypeOK
<1> QED
  BY <1>1, <1>3 DEF TypeOK, SetDecision

\* The messages of a task: the first one is number 0, and the one a lost worker
\* leaves is numbered after it.
LEMMA RunIds ==
  /\ \A w \in Webhooks : First(w) \in Runs /\ First(w)[1] = w
  /\ \A m \in Runs : m[1] \in Webhooks /\ m[2] \in 0..MaxCrashes
  /\ \A m \in Runs, n \in 0..MaxCrashes :
       <<m[1], n>> \in Runs /\ <<m[1], n>>[1] = m[1] /\ <<m[1], n>>[2] = n
BY LifecycleAssumption DEF Runs, First

LEMMA SubmissionIds ==
  /\ \A r \in Reviews : First(r) \in Submissions /\ First(r)[1] = r
  /\ \A s \in Submissions : s[1] \in Reviews /\ s[2] \in 0..MaxCrashes
  /\ \A s \in Submissions, n \in 0..MaxCrashes :
       <<s[1], n>> \in Submissions /\ <<s[1], n>>[1] = s[1] /\ <<s[1], n>>[2] = n
BY LifecycleAssumption DEF Submissions, First

\* A message of process_dispute_task is about a committed row.
LEMMA RunRecord ==
  ASSUME IInv, NEW m \in Runs, process[m] # "none"
  PROVE  m[1] \in Webhooks /\ record[m[1]] \in Disputes /\ Committed(record[m[1]])
<1>1. m[1] \in Webhooks
  BY RunIds
<1>2. webhook[m[1]] \in {"accepted", "failed"} /\ Committed(record[m[1]])
  BY DEF IInv, RequestsInv
<1>3. record[m[1]] # None
  BY <1>1, <1>2 DEF IInv, RequestsInv
<1> QED BY <1>1, <1>2, <1>3 DEF IInv, TypeOK

\* A message of submit_dispute_task is about a dispute the agent had sent to review
\* and a reviewer has approved.
LEMMA SubmissionTarget ==
  ASSUME IInv, NEW s \in Submissions, submit[s] # "none"
  PROVE  /\ s[1] \in Reviews /\ target[s[1]] \in Disputes /\ Committed(target[s[1]])
         /\ AskedForReview(target[s[1]]) /\ ApprovalPublished(target[s[1]])
         /\ submit[First(s[1])] # "none"
<1>1. s[1] \in Reviews
  BY SubmissionIds
<1>2. /\ review[s[1]] \in {"updated", "done", "failed"} /\ choice[s[1]] = "approve"
      /\ submit[First(s[1])] # "none"
  BY DEF IInv, ReviewsInv
<1>3. target[s[1]] \in Disputes /\ AskedForReview(target[s[1]])
  BY <1>1, <1>2 DEF IInv, ReviewsInv, AskedForReview
<1>4. Committed(target[s[1]])
  BY <1>3 DEF IInv, AuditLineage, AskedForReview, Committed
<1> QED BY <1>1, <1>2, <1>3, <1>4 DEF ApprovalPublished

\* Message x is the one a worker leaves that dies between publishing the retry of m
\* and acknowledging m.
LeftBehind(x, m) ==
  /\ process[x] = "none" /\ process'[x] = "queued"
  /\ retries[x] = 0 /\ retries'[x] = retries[m] + 1
  /\ x[1] = m[1] /\ x[2] = crashes' /\ crashes' = crashes + 1
ResubmitLeftBehind(x, s) ==
  /\ submit[x] = "none" /\ submit'[x] = "queued"
  /\ resubmits[x] = 0 /\ resubmits'[x] = resubmits[s] + 1
  /\ x[1] = s[1] /\ x[2] = crashes' /\ crashes' = crashes + 1

\* An execution that ends before its time (it raises, or its worker dies) sends its
\* message back to the queue at the price of a retry or a worker, or ends the task;
\* of the other messages it touches at most one, which was not there before.
LEMMA RunCut ==
  ASSUME IInv, NEW m \in Runs, RunRaises(m) \/ WorkerLost(m) \/ RetryDoubled(m)
  PROVE  /\ InRun(m) /\ CutOff(m)
         /\ process' \in [Runs -> {"none", "queued"} \cup RunPCs \cup TaskEnds]
         /\ retries' \in [Runs -> 0..MaxRetries]
         /\ crashes' \in 0..MaxCrashes
         /\ verdict' = [verdict EXCEPT ![m] = None]
         /\ UNCHANGED <<requestVars, dbVars, reviewVars, submitVars>>
         /\ \/ process'[m] = "failed" /\ retries'[m] = retries[m] /\ crashes' \in {crashes, crashes + 1}
            \/ process'[m] = "queued" /\ retries'[m] = retries[m] + 1 /\ crashes' = crashes
            \/ process'[m] = "queued" /\ retries'[m] = retries[m] /\ crashes' = crashes + 1
         /\ \A x \in Runs \ {m} : \/ process'[x] = process[x] /\ retries'[x] = retries[x]
                                  \/ LeftBehind(x, m)
<1> USE RunIds DEF IInv, TypeOK, TaskEnds, RunPCs
<1>0. MaxRetries \in Nat /\ MaxCrashes \in Nat
  BY LifecycleAssumption
<1>1. CASE RunRaises(m)
  BY <1>0, <1>1 DEF RunRaises, MayRetry
<1>2. CASE WorkerLost(m)
  BY <1>0, <1>2 DEF WorkerLost
<1>3. CASE RetryDoubled(m)
  <2> DEFINE retry == <<m[1], crashes + 1>>
  <2>1. crashes + 1 \in 0..MaxCrashes /\ crashes' = crashes + 1
    BY <1>0, <1>3 DEF RetryDoubled
  <2>2. retry \in Runs /\ retry[1] = m[1] /\ retry[2] = crashes + 1
    BY <2>1
  <2>3. process[retry] = "none" /\ retries[retry] = 0
    BY <2>1, <2>2 DEF MessagesInv
  <2>4. InRun(m) /\ retry # m /\ retries[m] + 1 \in 0..MaxRetries
    <3>1. InRun(m) /\ retry # m
      BY <1>3, <2>3 DEF RetryDoubled, InRun
    <3>2. retries[m] \in 0..MaxRetries /\ retries[m] < MaxRetries
      BY <1>3 DEF RetryDoubled, MayRetry
    <3> QED BY <1>0, <3>1, <3>2
  <2>5. /\ process' = [process EXCEPT ![m] = "queued", ![retry] = "queued"]
        /\ retries' = [retries EXCEPT ![retry] = retries[m] + 1]
    BY <1>3 DEF RetryDoubled
  <2> HIDE DEF retry
  <2>6. process' \in [Runs -> {"none", "queued"} \cup RunPCs \cup TaskEnds] /\ retries' \in [Runs -> 0..MaxRetries]
    BY <2>2, <2>4, <2>5
  <2>7. process'[m] = "queued" /\ retries'[m] = retries[m]
    BY <2>2, <2>4, <2>5
  <2>8. \A x \in Runs \ {m} : \/ process'[x] = process[x] /\ retries'[x] = retries[x]
                              \/ LeftBehind(x, m)
    BY <2>1, <2>2, <2>3, <2>4, <2>5 DEF LeftBehind
  <2> QED BY <1>3, <2>1, <2>4, <2>6, <2>7, <2>8 DEF RetryDoubled
<1> QED BY <1>1, <1>2, <1>3

\* What it does to the other messages.
LEMMA RunCutOthers ==
  ASSUME IInv, NEW m \in Runs, RunRaises(m) \/ WorkerLost(m) \/ RetryDoubled(m),
         NEW x \in Runs \ {m}
  PROVE  \/ process'[x] = process[x] /\ retries'[x] = retries[x]
         \/ process[x] = "none" /\ process'[x] = "queued" /\ x[1] = m[1] /\ x[2] = crashes'
BY RunCut DEF LeftBehind

\* The same of submission tasks.
LEMMA SubmitCut ==
  ASSUME IInv, NEW s \in Submissions, SubmitRaises(s) \/ SubmitWorkerLost(s) \/ ResubmitDoubled(s)
  PROVE  /\ submit[s] = "running" /\ ProcessorAnswers(target[s[1]], "human")
         /\ submit' \in [Submissions -> {"none", "queued", "running"} \cup TaskEnds]
         /\ resubmits' \in [Submissions -> 0..MaxRetries]
         /\ crashes' \in 0..MaxCrashes
         /\ UNCHANGED <<requestVars, dbVars, processVars, reviewVars>>
         /\ \/ submit'[s] = "failed" /\ resubmits'[s] = resubmits[s] /\ crashes' \in {crashes, crashes + 1}
            \/ submit'[s] = "queued" /\ resubmits'[s] = resubmits[s] + 1 /\ crashes' = crashes
            \/ submit'[s] = "queued" /\ resubmits'[s] = resubmits[s] /\ crashes' = crashes + 1
         /\ \A x \in Submissions \ {s} : \/ submit'[x] = submit[x] /\ resubmits'[x] = resubmits[x]
                                         \/ ResubmitLeftBehind(x, s)
<1> USE SubmissionIds DEF IInv, TypeOK, TaskEnds
<1>0. MaxRetries \in Nat /\ MaxCrashes \in Nat
  BY LifecycleAssumption
<1>1. CASE SubmitRaises(s)
  <2>1. CASE MayRetry(resubmits[s])
    <3>1. resubmits[s] \in 0..MaxRetries /\ resubmits[s] < MaxRetries
      BY <2>1 DEF MayRetry
    <3>2. resubmits[s] + 1 \in 0..MaxRetries
      BY <1>0, <3>1
    <3> QED BY <1>1, <2>1, <3>2 DEF SubmitRaises
  <2>2. CASE ~MayRetry(resubmits[s])
    BY <1>1, <2>2 DEF SubmitRaises
  <2> QED BY <2>1, <2>2
<1>2. CASE SubmitWorkerLost(s)
  BY <1>0, <1>2 DEF SubmitWorkerLost
<1>3. CASE ResubmitDoubled(s)
  <2> DEFINE retry == <<s[1], crashes + 1>>
  <2>1. crashes + 1 \in 0..MaxCrashes /\ crashes' = crashes + 1
    BY <1>0, <1>3 DEF ResubmitDoubled
  <2>2. retry \in Submissions /\ retry[1] = s[1] /\ retry[2] = crashes + 1
    BY <2>1
  <2>3. submit[retry] = "none" /\ resubmits[retry] = 0
    BY <2>1, <2>2 DEF MessagesInv
  <2>4. submit[s] = "running" /\ retry # s /\ resubmits[s] + 1 \in 0..MaxRetries
    <3>1. submit[s] = "running" /\ retry # s
      BY <1>3, <2>3 DEF ResubmitDoubled
    <3>2. resubmits[s] \in 0..MaxRetries /\ resubmits[s] < MaxRetries
      BY <1>3 DEF ResubmitDoubled, MayRetry
    <3> QED BY <1>0, <3>1, <3>2
  <2>5. /\ submit' = [submit EXCEPT ![s] = "queued", ![retry] = "queued"]
        /\ resubmits' = [resubmits EXCEPT ![retry] = resubmits[s] + 1]
    BY <1>3 DEF ResubmitDoubled
  <2> HIDE DEF retry
  <2>6. /\ submit' \in [Submissions -> {"none", "queued", "running"} \cup TaskEnds]
        /\ resubmits' \in [Submissions -> 0..MaxRetries]
    BY <2>2, <2>4, <2>5
  <2>7. submit'[s] = "queued" /\ resubmits'[s] = resubmits[s]
    BY <2>2, <2>4, <2>5
  <2>8. \A x \in Submissions \ {s} : \/ submit'[x] = submit[x] /\ resubmits'[x] = resubmits[x]
                                     \/ ResubmitLeftBehind(x, s)
    BY <2>1, <2>2, <2>3, <2>4, <2>5 DEF ResubmitLeftBehind
  <2> QED BY <1>3, <2>1, <2>4, <2>6, <2>7, <2>8 DEF ResubmitDoubled
<1> QED BY <1>1, <1>2, <1>3

LEMMA SubmitCutOthers ==
  ASSUME IInv, NEW s \in Submissions, SubmitRaises(s) \/ SubmitWorkerLost(s) \/ ResubmitDoubled(s),
         NEW x \in Submissions \ {s}
  PROVE  \/ submit'[x] = submit[x] /\ resubmits'[x] = resubmits[x]
         \/ submit[x] = "none" /\ submit'[x] = "queued" /\ x[1] = s[1] /\ x[2] = crashes'
BY SubmitCut DEF ResubmitLeftBehind

-----------------------------------------------------------------------------
(* One lemma per conjunct of the inductive invariant: a step of Next       *)
(* preserves it.  Each goes through the actions that touch its variables   *)
(* and puts all the others into one last case.                             *)

\* The types survive every step: SetDecision is given a decision it knows
\* because a task that persists has one.
LEMMA TypeStep == IInv /\ [Next]_vars => TypeOK'
<1> SUFFICES ASSUME IInv, [Next]_vars PROVE TypeOK'
  OBVIOUS
<1> USE DEF IInv, TypeOK, requestVars, dbVars, processVars, reviewVars,
        submitVars, WebhookPCs, ReviewPCs, RunPCs, TaskEnds, Statuses, Decisions, Verdicts,
        AuditEntries, Disputes
<1>1. ASSUME NEW w \in Webhooks, WebhookStep(w) PROVE TypeOK'
  <2>1. CASE \E c \in Chargebacks : WebhookSelect(w, c)
    BY <2>1 DEF WebhookSelect, RowsWith
  <2>2. CASE WebhookInsert(w)
    BY <2>2 DEF WebhookInsert
  <2>3. CASE WebhookEnqueue(w)
    BY <2>3, RunIds DEF WebhookEnqueue
  <2>4. CASE WebhookFail(w)
    <3>1. process' = process \/ process' = [process EXCEPT ![First(w)] = "queued"]
      BY <2>4, RunIds DEF WebhookFail
    <3> QED BY <2>4, <3>1 DEF WebhookFail
  <2>5. CASE WebhookIgnored(w) \/ WebhookReuse(w)
    BY <2>5 DEF WebhookIgnored, WebhookReuse
  <2> QED
    BY <1>1, <2>1, <2>2, <2>3, <2>4, <2>5 DEF WebhookStep
<1>2. ASSUME NEW m \in Runs, PersistResult(m) PROVE TypeOK'
  <2>1. record[m[1]] \in Disputes /\ verdict[m] \in Decisions
    BY <1>2, RunRecord DEF PersistResult, RunsInv
  <2> QED
    BY <1>2, <2>1, SetDecisionEffect DEF PersistResult
<1>3. ASSUME NEW m \in Runs, StartRun(m) \/ Decide(m) \/ SubmitNode(m) \/ AckRun(m)
      PROVE  TypeOK'
  <2>1. CASE StartRun(m)
    BY <2>1 DEF StartRun
  <2>2. CASE Decide(m)
    BY <2>2 DEF Decide
  <2>3. CASE SubmitNode(m)
    <3>1. record[m[1]] \in Disputes
      BY <2>3, RunRecord DEF SubmitNode
    <3>2. accepted' \in [Disputes -> SUBSET {"agent", "human"}]
      BY <2>3, <3>1 DEF SubmitNode, ProcessorAnswers
    <3> QED BY <2>3, <3>2 DEF SubmitNode
  <2>4. CASE AckRun(m)
    BY <2>4 DEF AckRun
  <2> QED BY <1>3, <2>1, <2>2, <2>3, <2>4
<1>4. ASSUME NEW m \in Runs, RunRaises(m) \/ WorkerLost(m) \/ RetryDoubled(m) PROVE TypeOK'
  <2>1. /\ process' \in [Runs -> {"none", "queued"} \cup RunPCs \cup TaskEnds]
        /\ retries' \in [Runs -> 0..MaxRetries]
        /\ crashes' \in 0..MaxCrashes
        /\ verdict' = [verdict EXCEPT ![m] = None]
        /\ UNCHANGED <<requestVars, dbVars, reviewVars, submitVars>>
        /\ InRun(m) /\ CutOff(m)
    BY <1>4, RunCut
  <2>2. record[m[1]] \in Disputes
    BY <2>1, RunRecord DEF InRun
  <2>3. accepted' \in [Disputes -> SUBSET {"agent", "human"}]
    BY <2>1, <2>2 DEF CutOff, ProcessorAnswers
  <2> QED BY <2>1, <2>3
<1>6. ASSUME NEW r \in Reviews, NEW d \in Disputes, NEW v \in Verdicts, ReviewRead(r, d, v)
      PROVE  TypeOK'
  BY <1>6 DEF ReviewRead
<1>7. ASSUME NEW r \in Reviews, ReviewStep(r) PROVE TypeOK'
  <2>1. CASE ReviewUpdate(r)
    BY <2>1 DEF ReviewUpdate
  <2>2. CASE ReviewCommit(r)
    BY <2>2, SetDecisionEffect DEF ReviewCommit, ReviewsInv
  <2>3. CASE ReviewFail(r)
    BY <2>3 DEF ReviewFail
  <2> QED
    BY <1>7, <2>1, <2>2, <2>3 DEF ReviewStep
<1>8. ASSUME NEW s \in Submissions, SubmitStep(s) PROVE TypeOK'
  <2>1. CASE StartSubmit(s)
    BY <2>1 DEF StartSubmit
  <2>2. CASE Send(s)
    <3>1. target[s[1]] \in Disputes
      BY <2>2, SubmissionTarget DEF Send
    <3>2. accepted' \in [Disputes -> SUBSET {"agent", "human"}]
      BY <2>2, <3>1 DEF Send, ProcessorAnswers
    <3> QED BY <2>2, <3>2 DEF Send
  <2> QED BY <1>8, <2>1, <2>2 DEF SubmitStep
<1>9. ASSUME NEW s \in Submissions, SubmitRaises(s) \/ SubmitWorkerLost(s) \/ ResubmitDoubled(s)
      PROVE  TypeOK'
  <2>1. /\ submit' \in [Submissions -> {"none", "queued", "running"} \cup TaskEnds]
        /\ resubmits' \in [Submissions -> 0..MaxRetries]
        /\ crashes' \in 0..MaxCrashes
        /\ UNCHANGED <<requestVars, dbVars, processVars, reviewVars>>
        /\ submit[s] = "running" /\ ProcessorAnswers(target[s[1]], "human")
    BY <1>9, SubmitCut
  <2>2. accepted' \in [Disputes -> SUBSET {"agent", "human"}]
    BY <2>1, SubmissionTarget DEF ProcessorAnswers
  <2> QED BY <2>1, <2>2
<1>10. CASE UNCHANGED vars
  BY <1>10 DEF vars
<1> QED
  BY <1>1, <1>2, <1>3, <1>4, <1>6, <1>7, <1>8, <1>9, <1>10
     DEF Next, RunStep, Waiting

\* Once a row is committed it stays committed: nothing deletes a dispute.
LEMMA CommittedStays ==
  IInv /\ [Next]_vars => \A d \in Disputes : Committed(d) => Committed(d)'
<1> SUFFICES ASSUME IInv, [Next]_vars, NEW d \in Disputes, Committed(d) PROVE Committed(d)'
  OBVIOUS
<1> USE DEF IInv, TypeOK, Committed, requestVars, dbVars, Disputes
<1>1. CASE \E w \in Webhooks : WebhookInsert(w)
  BY <1>1 DEF WebhookInsert
<1>2. CASE \E m \in Runs : PersistResult(m)
  BY <1>2, StatusTable DEF PersistResult, SetDecision, RunsInv
<1>3. CASE \E r \in Reviews : ReviewCommit(r)
  BY <1>3, StatusTable DEF ReviewCommit, SetDecision
<1>4. CASE UNCHANGED status
  BY <1>4
<1> QED
  BY <1>1, <1>2, <1>3, <1>4
     DEF Next, WebhookStep, RunStep, ReviewStep, SubmitStep, Waiting, vars, WebhookIgnored,
         WebhookSelect, WebhookReuse, WebhookEnqueue, WebhookFail, StartRun, Decide, SubmitNode,
         AckRun, RunRaises, MayRetry, WorkerLost, RetryDoubled, ReviewRead, ReviewUpdate, ReviewFail, StartSubmit, Send,
         SubmitRaises, SubmitWorkerLost, ResubmitDoubled

\* Requests and rows stay in step: a request's own row appears with its commit,
\* and every other record it may hold is committed already.
LEMMA RequestsStep == IInv /\ [Next]_vars => RequestsInv'
<1> SUFFICES ASSUME IInv, [Next]_vars PROVE RequestsInv'
  OBVIOUS
<1> USE LifecycleAssumption, CommittedStays, RunIds
        DEF IInv, TypeOK, RequestsInv, requestVars, dbVars, processVars, Disputes
<1>1. ASSUME NEW w \in Webhooks, WebhookStep(w) PROVE RequestsInv'
  <2>1. CASE \E c \in Chargebacks : WebhookSelect(w, c)
    BY <2>1 DEF WebhookSelect, RowsWith, Committed
  <2>2. CASE WebhookInsert(w)
    BY <2>2 DEF WebhookInsert, Committed
  <2>3. CASE WebhookReuse(w)
    BY <2>3 DEF WebhookReuse, Committed
  <2>4. CASE WebhookEnqueue(w)
    BY <2>4 DEF WebhookEnqueue, Committed
  <2>5. CASE WebhookFail(w)
    <3>1. process' = process \/ process' = [process EXCEPT ![First(w)] = "queued"]
      BY <2>5 DEF WebhookFail
    <3>2. \A m \in Runs : process'[m] # "none" => m[1] = w \/ process[m] # "none"
      BY <3>1
    <3>3. record[w] # None /\ (webhook[w] = "committed" => Committed(record[w]))
      BY <2>5 DEF WebhookFail
    <3>4. process' # process => webhook[w] = "committed"
      BY <2>5 DEF WebhookFail
    <3> QED BY <2>5, <3>1, <3>2, <3>3, <3>4 DEF WebhookFail, Committed
  <2>6. CASE WebhookIgnored(w)
    BY <2>6 DEF WebhookIgnored, Committed
  <2> QED
    BY <1>1, <2>1, <2>2, <2>3, <2>4, <2>5, <2>6 DEF WebhookStep
<1>2. ASSUME NEW m \in Runs, PersistResult(m) PROVE RequestsInv'
  BY <1>2 DEF PersistResult, SetDecision, Committed
<1>3. ASSUME NEW m \in Runs, StartRun(m) \/ Decide(m) \/ SubmitNode(m) \/ AckRun(m)
      PROVE  RequestsInv'
  BY <1>3 DEF StartRun, Decide, SubmitNode, AckRun, Committed
<1>6. ASSUME NEW m \in Runs, RunRaises(m) \/ WorkerLost(m) \/ RetryDoubled(m)
      PROVE  RequestsInv'
  <2>1. InRun(m) /\ UNCHANGED <<requestVars, dbVars>>
    BY <1>6, RunCut
  <2>2. \A x \in Runs : process'[x] # "none" => process[x] # "none" \/ x[1] = m[1]
    BY <1>6, RunCut, RunCutOthers
  <2>3. \A x \in Runs : process[x] # "none" => process'[x] # "none"
    BY <1>6, RunCut, RunCutOthers
  <2> QED BY <2>1, <2>2, <2>3 DEF InRun, Committed
<1>4. ASSUME NEW r \in Reviews, ReviewCommit(r) PROVE RequestsInv'
  <2>1. Committed(target[r])
    BY <1>4 DEF ReviewCommit, ReviewsInv, AuditLineage, Committed
  <2> QED
    BY <1>4, <2>1 DEF ReviewCommit, SetDecision, Committed, ReviewsInv
<1>5. CASE UNCHANGED <<requestVars, process, status>>
  BY <1>5 DEF Committed
<1> QED
  BY <1>1, <1>2, <1>3, <1>4, <1>5, <1>6
     DEF Next, RunStep, ReviewStep, SubmitStep, Waiting, vars, ReviewRead, ReviewUpdate,
         ReviewFail, StartSubmit, Send, SubmitRaises, MayRetry, SubmitWorkerLost, ResubmitDoubled

\* At most one row per chargeback_id: a row is inserted only when no other holds
\* the id, and the id of a committed row never changes.
LEMMA UniqueStep == IInv /\ [Next]_vars => UniqueDispute'
<1> SUFFICES ASSUME IInv, [Next]_vars PROVE UniqueDispute'
  OBVIOUS
<1> USE LifecycleAssumption
        DEF IInv, TypeOK, RequestsInv, UniqueDispute, requestVars, dbVars, Disputes
<1>1. CASE \E w \in Webhooks, c \in Chargebacks : WebhookSelect(w, c)
  BY <1>1 DEF WebhookSelect, ChargebackId, Committed
<1>2. CASE \E w \in Webhooks : WebhookInsert(w)
  BY <1>2 DEF WebhookInsert, RowsWith, ChargebackId, Committed
<1>3. CASE \E m \in Runs : PersistResult(m)
  BY <1>3 DEF PersistResult, SetDecision, ChargebackId, Committed
<1>4. CASE \E r \in Reviews : ReviewCommit(r)
  <2>1. PICK r \in Reviews : ReviewCommit(r)
    BY <1>4
  <2>2. Committed(target[r])
    BY <2>1 DEF ReviewCommit, ReviewsInv, AuditLineage, Committed
  <2> QED
    BY <2>1, <2>2 DEF ReviewCommit, SetDecision, ChargebackId, Committed
<1>5. CASE UNCHANGED <<about, status>>
  BY <1>5 DEF ChargebackId, Committed
<1> QED
  BY <1>1, <1>2, <1>3, <1>4, <1>5
     DEF Next, WebhookStep, RunStep, ReviewStep, SubmitStep, Waiting, vars, WebhookIgnored,
         WebhookReuse, WebhookEnqueue, WebhookFail, StartRun, Decide, SubmitNode, AckRun,
         RunRaises, MayRetry, WorkerLost, RetryDoubled, ReviewRead, ReviewUpdate, ReviewFail, StartSubmit, Send,
         SubmitRaises, SubmitWorkerLost, ResubmitDoubled

\* A task's location goes with its decision, and what it persisted stays decided:
\* no transaction writes "received" but the insertion of a new row.
LEMMA RunsStep == IInv /\ [Next]_vars => RunsInv'
<1> SUFFICES ASSUME IInv, [Next]_vars PROVE RunsInv'
  OBVIOUS
<1> USE LifecycleAssumption, RunIds
        DEF IInv, TypeOK, RequestsInv, RunsInv, requestVars, dbVars, processVars, Disputes
<1>1. ASSUME NEW w \in Webhooks, WebhookStep(w) PROVE RunsInv'
  <2>1. CASE \E c \in Chargebacks : WebhookSelect(w, c)
    BY <2>1 DEF WebhookSelect
  <2>2. CASE WebhookInsert(w)
    BY <2>2 DEF WebhookInsert, RowsWith, Committed
  <2>3. CASE WebhookEnqueue(w)
    BY <2>3 DEF WebhookEnqueue
  <2>4. CASE WebhookFail(w)
    <3>1. process' = process \/ process' = [process EXCEPT ![First(w)] = "queued"]
      BY <2>4 DEF WebhookFail
    <3>2. process' # process => process[First(w)] = "none"
      BY <2>4 DEF WebhookFail
    <3> QED BY <2>4, <3>1, <3>2 DEF WebhookFail
  <2>5. CASE WebhookIgnored(w) \/ WebhookReuse(w)
    BY <2>5 DEF WebhookIgnored, WebhookReuse
  <2> QED
    BY <1>1, <2>1, <2>2, <2>3, <2>4, <2>5 DEF WebhookStep
<1>2. ASSUME NEW m \in Runs, PersistResult(m) PROVE RunsInv'
  BY <1>2, StatusTable DEF PersistResult, SetDecision
<1>3. ASSUME NEW m \in Runs, StartRun(m) \/ Decide(m) \/ SubmitNode(m) PROVE RunsInv'
  BY <1>3 DEF StartRun, Decide, SubmitNode
<1>4. ASSUME NEW m \in Runs, AckRun(m) PROVE RunsInv'
  BY <1>4 DEF AckRun, Decisions
<1>7. ASSUME NEW m \in Runs, RunRaises(m) \/ WorkerLost(m) \/ RetryDoubled(m)
      PROVE  RunsInv'
  <2>1. /\ verdict' = [verdict EXCEPT ![m] = None] /\ process'[m] \in {"queued", "failed"}
        /\ UNCHANGED <<requestVars, dbVars>>
    BY <1>7, RunCut
  <2>2. \A x \in Runs \ {m} : \/ process'[x] = process[x]
                              \/ process[x] = "none" /\ process'[x] = "queued"
    BY <1>7, RunCutOthers
  <2> QED BY <2>1, <2>2 DEF Decisions
<1>5. ASSUME NEW r \in Reviews, ReviewCommit(r) PROVE RunsInv'
  BY <1>5, StatusTable DEF ReviewCommit, SetDecision
<1>6. CASE UNCHANGED <<record, status, process, verdict>>
  BY <1>6
<1> QED
  BY <1>1, <1>2, <1>3, <1>4, <1>5, <1>6, <1>7
     DEF Next, RunStep, ReviewStep, SubmitStep, Waiting, vars, ReviewRead, ReviewUpdate,
         ReviewFail, StartSubmit, Send, SubmitRaises, MayRetry, SubmitWorkerLost, ResubmitDoubled

\* The audit trail of a dispute only grows.
LEMMA AuditGrows ==
  IInv /\ [Next]_vars => \A d \in Disputes : audit[d] \subseteq audit'[d]
<1> SUFFICES ASSUME IInv, [Next]_vars, NEW d \in Disputes PROVE audit[d] \subseteq audit'[d]
  OBVIOUS
<1> USE DEF IInv, TypeOK, dbVars, Disputes
<1>1. CASE \E w \in Webhooks : WebhookInsert(w)
  <2>1. PICK w \in Webhooks : WebhookInsert(w)
    BY <1>1
  <2>2. audit[w] = {}
    BY <2>1 DEF WebhookInsert, RequestsInv, AuditLineage, Committed
  <2> QED
    BY <2>1, <2>2 DEF WebhookInsert
<1>2. CASE \E m \in Runs : PersistResult(m)
  BY <1>2 DEF PersistResult, SetDecision
<1>3. CASE \E r \in Reviews : ReviewCommit(r)
  BY <1>3 DEF ReviewCommit, SetDecision
<1>4. CASE UNCHANGED audit
  BY <1>4
<1> QED
  BY <1>1, <1>2, <1>3, <1>4
     DEF Next, WebhookStep, RunStep, ReviewStep, SubmitStep, Waiting, vars, WebhookIgnored,
         WebhookSelect, WebhookReuse, WebhookEnqueue, WebhookFail, StartRun, Decide, SubmitNode,
         AckRun, RunRaises, MayRetry, WorkerLost, RetryDoubled, ReviewRead, ReviewUpdate, ReviewFail, StartSubmit, Send,
         SubmitRaises, SubmitWorkerLost, ResubmitDoubled

\* A review keeps what its check established, since the trail keeps the entry of
\* the agent, and its message is there from the UPDATE on.
LEMMA ReviewsStep == IInv /\ [Next]_vars => ReviewsInv'
<1> SUFFICES ASSUME IInv, [Next]_vars PROVE ReviewsInv'
  OBVIOUS
<1> USE LifecycleAssumption, AuditGrows, SubmissionIds
        DEF IInv, TypeOK, ReviewsInv, dbVars, reviewVars, submitVars, Disputes, Verdicts, ReviewPCs
<1>1. ASSUME NEW r \in Reviews, NEW d \in Disputes, NEW v \in Verdicts, ReviewRead(r, d, v)
      PROVE  ReviewsInv'
  BY <1>1 DEF ReviewRead, AuditLineage
<1>2. ASSUME NEW r \in Reviews, ReviewUpdate(r) PROVE ReviewsInv'
  BY <1>2 DEF ReviewUpdate
<1>3. ASSUME NEW r \in Reviews, ReviewCommit(r) PROVE ReviewsInv'
  BY <1>3 DEF ReviewCommit
<1>4. ASSUME NEW r \in Reviews, ReviewFail(r) PROVE ReviewsInv'
  BY <1>4 DEF ReviewFail
<1>5. ASSUME NEW s \in Submissions, SubmitStep(s) PROVE ReviewsInv'
  BY <1>5 DEF SubmitStep, StartSubmit, Send
<1>6. ASSUME NEW s \in Submissions, SubmitRaises(s) \/ SubmitWorkerLost(s) \/ ResubmitDoubled(s) PROVE ReviewsInv'
  <2>1. submit[s] = "running" /\ UNCHANGED <<dbVars, reviewVars>>
    BY <1>6, SubmitCut
  <2>2. \A x \in Submissions : submit'[x] # "none" => submit[x] # "none" \/ x[1] = s[1]
    BY <1>6, SubmitCut, SubmitCutOthers
  <2>3. \A x \in Submissions : submit[x] # "none" => submit'[x] # "none"
    BY <1>6, SubmitCut, SubmitCutOthers
  <2> QED BY <2>1, <2>2, <2>3
<1>7. CASE UNCHANGED <<reviewVars, submit>>
  BY <1>7
<1>8. ASSUME NEW m \in Runs, RunRaises(m) \/ WorkerLost(m) \/ RetryDoubled(m)
      PROVE  UNCHANGED <<reviewVars, submit>>
  BY <1>8, RunCut
<1> QED
  BY <1>1, <1>2, <1>3, <1>4, <1>5, <1>6, <1>7, <1>8
     DEF Next, WebhookStep, RunStep, ReviewStep, Waiting, vars, WebhookIgnored, WebhookSelect,
         WebhookInsert, WebhookReuse, WebhookEnqueue, WebhookFail, StartRun, Decide, SubmitNode,
         PersistResult, AckRun

\* The processor takes evidence from the submitter node after an automatic
\* decision, and from a submission task after an approval, and from nobody else.
LEMMA EvidenceStep == IInv /\ [Next]_vars => EvidenceInv'
<1> SUFFICES ASSUME IInv, [Next]_vars PROVE EvidenceInv'
  OBVIOUS
<1> USE SubmissionIds
        DEF IInv, TypeOK, EvidenceInv, reviewVars, submitVars, Disputes
<1>1. ASSUME NEW m \in Runs, SubmitNode(m) PROVE EvidenceInv'
  <2>1. record[m[1]] \in Disputes /\ AutoSubmit
    BY <1>1, RunRecord DEF SubmitNode, RunsInv
  <2> QED BY <1>1, <2>1 DEF SubmitNode, ProcessorAnswers
<1>9. ASSUME NEW m \in Runs, RunRaises(m) \/ WorkerLost(m) \/ RetryDoubled(m)
      PROVE  EvidenceInv'
  <2>1. CutOff(m) /\ UNCHANGED <<reviewVars, submitVars>>
    BY <1>9, RunCut
  <2>2. CASE UNCHANGED accepted
    BY <2>1, <2>2
  <2>3. CASE process[m] = "submitting" /\ ProcessorAnswers(record[m[1]], "agent")
    <3>1. record[m[1]] \in Disputes /\ AutoSubmit
      BY <2>3, RunRecord DEF RunsInv
    <3> QED BY <2>1, <2>3, <3>1 DEF ProcessorAnswers
  <2> QED BY <2>1, <2>2, <2>3 DEF CutOff
<1>2. ASSUME NEW s \in Submissions, Send(s) PROVE EvidenceInv'
  <2>1. target[s[1]] \in Disputes /\ submit[First(s[1])] # "none"
    BY <1>2, SubmissionTarget DEF Send
  <2>2. \A x \in Submissions : submit[x] # "none" => submit'[x] # "none"
    BY <1>2 DEF Send
  <2>3. \A d \in Disputes : "human" \in accepted'[d] => "human" \in accepted[d] \/ d = target[s[1]]
    BY <1>2, <2>1 DEF Send, ProcessorAnswers
  <2>4. \A d \in Disputes : "agent" \in accepted'[d] => "agent" \in accepted[d]
    BY <1>2, <2>1 DEF Send, ProcessorAnswers
  <2> QED BY <1>2, <2>1, <2>2, <2>3, <2>4 DEF Send
<1>3. ASSUME NEW s \in Submissions, SubmitRaises(s) \/ SubmitWorkerLost(s) \/ ResubmitDoubled(s)
      PROVE  EvidenceInv'
  <2>1. /\ submit[s] = "running" /\ ProcessorAnswers(target[s[1]], "human")
        /\ UNCHANGED reviewVars
    BY <1>3, SubmitCut
  <2>2. target[s[1]] \in Disputes /\ submit[First(s[1])] # "none"
    BY <2>1, SubmissionTarget
  <2>3. \A x \in Submissions : submit[x] # "none" => submit'[x] # "none"
    BY <1>3, SubmitCut, SubmitCutOthers
  <2>4. \A d \in Disputes : "human" \in accepted'[d] => "human" \in accepted[d] \/ d = target[s[1]]
    BY <2>1, <2>2 DEF ProcessorAnswers
  <2>5. \A d \in Disputes : "agent" \in accepted'[d] => "agent" \in accepted[d]
    <3>1. accepted' = accepted \/ accepted' = [accepted EXCEPT ![target[s[1]]] = @ \cup {"human"}]
      BY <2>1 DEF ProcessorAnswers
    <3> QED BY <2>2, <3>1
  <2> QED BY <2>1, <2>2, <2>3, <2>4, <2>5
<1>5. ASSUME NEW s \in Submissions, StartSubmit(s) PROVE EvidenceInv'
  BY <1>5 DEF StartSubmit
<1>6. ASSUME NEW r \in Reviews, ReviewStep(r) PROVE EvidenceInv'
  BY <1>6 DEF ReviewStep, ReviewUpdate, ReviewCommit, ReviewFail
<1>7. ASSUME NEW r \in Reviews, NEW d \in Disputes, NEW v \in Verdicts, ReviewRead(r, d, v)
      PROVE  EvidenceInv'
  BY <1>7 DEF ReviewRead, ReviewsInv
<1>8. CASE UNCHANGED <<target, submit, accepted>>
  BY <1>8
<1> QED
  BY <1>1, <1>2, <1>3, <1>5, <1>6, <1>7, <1>8, <1>9
     DEF Next, WebhookStep, RunStep, SubmitStep, Waiting, vars, WebhookIgnored, WebhookSelect,
         WebhookInsert, WebhookReuse, WebhookEnqueue, WebhookFail, StartRun, Decide,
         PersistResult, AckRun

\* A decision is committed with its audit entry, so the trail accounts for the
\* status of the row.
LEMMA LineageStep == IInv /\ [Next]_vars => AuditLineage'
<1> SUFFICES ASSUME IInv, [Next]_vars PROVE AuditLineage'
  OBVIOUS
<1> USE LifecycleAssumption DEF IInv, TypeOK, AuditLineage, dbVars, Disputes, Decisions
<1>1. ASSUME NEW w \in Webhooks, WebhookInsert(w) PROVE AuditLineage'
  BY <1>1 DEF WebhookInsert
<1>2. ASSUME NEW m \in Runs, PersistResult(m) PROVE AuditLineage'
  <2> DEFINE d == record[m[1]]
  <2>1. d \in Disputes /\ status[d] # "absent" /\ verdict[m] \in {"auto_submit", "human_review"}
    BY <1>2, RunRecord DEF PersistResult, RunsInv, Committed
  <2>2. /\ status'[d] = StatusOf(verdict[m])
        /\ audit'[d] = audit[d] \cup {<<"agent", verdict[m]>>}
        /\ \A e \in Disputes \ {d} : status'[e] = status[e] /\ audit'[e] = audit[e]
    BY <1>2, <2>1, SetDecisionEffect DEF PersistResult
  <2>3. audit[d] # {}
    BY <2>1
  <2> QED
    BY <2>1, <2>2, <2>3, StatusTable
<1>3. ASSUME NEW r \in Reviews, ReviewCommit(r) PROVE AuditLineage'
  <2> DEFINE d == target[r]
             decision == IF choice[r] = "approve" THEN "auto_submit" ELSE "decline_dispute"
  <2>1. d \in Disputes /\ <<"agent", "human_review">> \in audit[d]
    BY <1>3 DEF ReviewCommit, ReviewsInv
  <2>2. /\ status'[d] = StatusOf(decision)
        /\ audit'[d] = audit[d] \cup {<<"human", decision>>}
        /\ \A e \in Disputes \ {d} : status'[e] = status[e] /\ audit'[e] = audit[e]
    BY <1>3, <2>1, SetDecisionEffect DEF ReviewCommit
  <2> QED
    BY <2>1, <2>2, StatusTable
<1>4. CASE UNCHANGED dbVars
  BY <1>4
<1> QED
  BY <1>1, <1>2, <1>3, <1>4
     DEF Next, WebhookStep, RunStep, ReviewStep, SubmitStep, Waiting, vars, WebhookIgnored,
         WebhookSelect, WebhookReuse, WebhookEnqueue, WebhookFail, StartRun, Decide, SubmitNode,
         AckRun, RunRaises, MayRetry, WorkerLost, RetryDoubled, ReviewRead, ReviewUpdate, ReviewFail, StartSubmit, Send,
         SubmitRaises, SubmitWorkerLost, ResubmitDoubled

\* An approval enters the trail when its review commits, and by then the review
\* has published its message.
LEMMA ApprovalStep == IInv /\ [Next]_vars => ApprovalIsQueued'
<1> SUFFICES ASSUME IInv, [Next]_vars PROVE ApprovalIsQueued'
  OBVIOUS
<1> USE SubmissionIds
        DEF IInv, TypeOK, ApprovalIsQueued, dbVars, reviewVars, submitVars, Disputes
<1>1. ASSUME NEW w \in Webhooks, WebhookInsert(w) PROVE ApprovalIsQueued'
  BY <1>1 DEF WebhookInsert
<1>2. ASSUME NEW m \in Runs, PersistResult(m) PROVE ApprovalIsQueued'
  BY <1>2 DEF PersistResult, SetDecision
<1>3. ASSUME NEW r \in Reviews, ReviewCommit(r) PROVE ApprovalIsQueued'
  BY <1>3 DEF ReviewCommit, SetDecision, ReviewsInv
<1>4. ASSUME NEW r \in Reviews, ReviewUpdate(r) \/ ReviewFail(r) PROVE ApprovalIsQueued'
  BY <1>4 DEF ReviewUpdate, ReviewFail
<1>5. ASSUME NEW r \in Reviews, NEW d \in Disputes, NEW v \in Verdicts, ReviewRead(r, d, v)
      PROVE  ApprovalIsQueued'
  BY <1>5 DEF ReviewRead, ReviewsInv
<1>6. ASSUME NEW s \in Submissions, StartSubmit(s) \/ Send(s) PROVE ApprovalIsQueued'
  BY <1>6 DEF StartSubmit, Send
<1>7. ASSUME NEW s \in Submissions, SubmitRaises(s) \/ SubmitWorkerLost(s) \/ ResubmitDoubled(s)
      PROVE  ApprovalIsQueued'
  <2>1. \A x \in Submissions : submit[x] # "none" => submit'[x] # "none"
    BY <1>7, SubmitCut, SubmitCutOthers
  <2> QED BY <1>7, <2>1, SubmitCut
<1>8. CASE UNCHANGED <<audit, target, choice, submit>>
  BY <1>8
<1> QED
  BY <1>1, <1>2, <1>3, <1>4, <1>5, <1>6, <1>7, <1>8
     DEF Next, WebhookStep, RunStep, ReviewStep, SubmitStep, Waiting, vars, WebhookIgnored,
         WebhookSelect, WebhookReuse, WebhookEnqueue, WebhookFail, StartRun, Decide, SubmitNode,
         AckRun, RunRaises, MayRetry, WorkerLost, RetryDoubled

\* The agent's entry comes from a transaction whose task is then past it, and
\* the task leaves that place only to end, to be retried or to be lost.
LEMMA DecidedStep == IInv /\ [Next]_vars => DecidedByRun'
<1> SUFFICES ASSUME IInv, [Next]_vars PROVE DecidedByRun'
  OBVIOUS
<1> USE RunIds
        DEF IInv, TypeOK, DecidedByRun, requestVars, dbVars, processVars, Disputes
<1>1. ASSUME NEW w \in Webhooks, WebhookStep(w) PROVE DecidedByRun'
  <2>1. CASE \E c \in Chargebacks : WebhookSelect(w, c)
    BY <2>1 DEF WebhookSelect, RequestsInv
  <2>2. CASE WebhookInsert(w)
    BY <2>2 DEF WebhookInsert
  <2>3. CASE WebhookEnqueue(w)
    <3>1. process[First(w)] = "none" /\ process' = [process EXCEPT ![First(w)] = "queued"]
      BY <2>3 DEF WebhookEnqueue, RequestsInv
    <3>2. \A m \in Runs : process[m] # "none" => process'[m] = process[m]
      BY <3>1
    <3> QED BY <2>3, <3>2 DEF WebhookEnqueue
  <2>4. CASE WebhookFail(w)
    <3>1. process' = process \/ (process[First(w)] = "none" /\ process' = [process EXCEPT ![First(w)] = "queued"])
      BY <2>4 DEF WebhookFail, RequestsInv
    <3> QED BY <2>4, <3>1 DEF WebhookFail
  <2>5. CASE WebhookIgnored(w) \/ WebhookReuse(w)
    BY <2>5 DEF WebhookIgnored, WebhookReuse
  <2> QED
    BY <1>1, <2>1, <2>2, <2>3, <2>4, <2>5 DEF WebhookStep
<1>2. ASSUME NEW m \in Runs, PersistResult(m) PROVE DecidedByRun'
  BY <1>2 DEF PersistResult, SetDecision
<1>3. ASSUME NEW m \in Runs, StartRun(m) \/ Decide(m) \/ SubmitNode(m) \/ AckRun(m)
      PROVE  DecidedByRun'
  <2>1. UNCHANGED <<record, audit, retries, crashes>>
    BY <1>3 DEF StartRun, Decide, SubmitNode, AckRun
  <2>2. /\ \A x \in Runs : process[x] # "none" => process'[x] # "none"
        /\ \A x \in Runs : process[x] \in {"persisted", "done", "failed"} =>
                           process'[x] \in {"persisted", "done", "failed"}
    BY <1>3 DEF StartRun, Decide, SubmitNode, AckRun
  <2> QED BY <2>1, <2>2
<1>4. ASSUME NEW m \in Runs, RunRaises(m) \/ WorkerLost(m) \/ RetryDoubled(m)
      PROVE  DecidedByRun'
  <2>1. /\ UNCHANGED <<requestVars, dbVars>>
        /\ process'[m] = "failed" \/ (process'[m] = "queued" /\ (retries'[m] # 0 \/ crashes' # 0))
        /\ crashes # 0 => crashes' # 0
    BY <1>4, RunCut
  <2>2. \A x \in Runs \ {m} : process[x] # "none" => process'[x] = process[x] /\ retries'[x] = retries[x]
    BY <1>4, RunCut, RunCutOthers
  <2> QED BY <2>1, <2>2
<1>6. ASSUME NEW s \in Submissions, SubmitRaises(s) \/ SubmitWorkerLost(s) \/ ResubmitDoubled(s)
      PROVE  DecidedByRun'
  <2>1. UNCHANGED <<requestVars, dbVars, processVars>> /\ (crashes # 0 => crashes' # 0)
    BY <1>6, SubmitCut
  <2> QED BY <2>1
<1>7. ASSUME NEW r \in Reviews, ReviewCommit(r) PROVE DecidedByRun'
  BY <1>7 DEF ReviewCommit, SetDecision
<1>8. CASE UNCHANGED <<record, audit, process, retries, crashes>>
  BY <1>8
<1> QED
  BY <1>1, <1>2, <1>3, <1>4, <1>6, <1>7, <1>8
     DEF Next, RunStep, ReviewStep, SubmitStep, Waiting, vars, ReviewRead, ReviewUpdate,
         ReviewFail, StartSubmit, Send

\* A message that a lost worker leaves behind is numbered after it, and has used one
\* retry more than the message it came from; no other message comes from nowhere.
LEMMA MessagesStep == IInv /\ [Next]_vars => MessagesInv'
<1> SUFFICES ASSUME IInv, [Next]_vars PROVE MessagesInv'
  OBVIOUS
<1> USE RunIds, SubmissionIds
        DEF IInv, TypeOK, MessagesInv, processVars, submitVars
<1>0. crashes \in Nat /\ MaxCrashes \in Nat
  BY LifecycleAssumption
<1>1. ASSUME NEW w \in Webhooks, WebhookStep(w) PROVE MessagesInv'
  <2>1. UNCHANGED <<retries, submitVars, crashes>>
    BY <1>1 DEF WebhookStep, WebhookIgnored, WebhookSelect, WebhookInsert, WebhookReuse,
       WebhookEnqueue, WebhookFail
  <2>2. process' = process \/ process' = [process EXCEPT ![First(w)] = "queued"]
    BY <1>1 DEF WebhookStep, WebhookIgnored, WebhookSelect, WebhookInsert, WebhookReuse,
       WebhookEnqueue, WebhookFail
  <2>3. First(w)[2] = 0
    BY DEF First
  <2>4. \A m \in Runs : /\ process'[m] # "none" => process[m] # "none" \/ m[2] = 0
                        /\ process'[m] = "none" => process[m] = "none"
    BY <2>2, <2>3
  <2> QED BY <1>0, <2>1, <2>4
<1>2. ASSUME NEW m \in Runs, RunStep(m) PROVE MessagesInv'
  <2>1. UNCHANGED <<retries, submitVars, crashes>>
    BY <1>2 DEF RunStep, StartRun, Decide, SubmitNode, PersistResult, AckRun
  <2>2. process[m] # "none" /\ \E pc \in RunPCs \cup TaskEnds : process' = [process EXCEPT ![m] = pc]
    BY <1>2 DEF RunStep, StartRun, Decide, SubmitNode, PersistResult, AckRun, RunPCs, TaskEnds
  <2>3. \A x \in Runs : process'[x] = "none" <=> process[x] = "none"
    BY <2>2 DEF RunPCs, TaskEnds
  <2> QED BY <2>1, <2>3
<1>3. ASSUME NEW m \in Runs, RunRaises(m) \/ WorkerLost(m) \/ RetryDoubled(m)
      PROVE  MessagesInv'
  <2>1. /\ crashes' \in {crashes, crashes + 1} /\ UNCHANGED submitVars
        /\ process[m] # "none" /\ process'[m] # "none"
    BY <1>3, RunCut DEF InRun
  <2>2. \A x \in Runs \ {m} : \/ process'[x] = process[x] /\ retries'[x] = retries[x]
                              \/ process'[x] = "queued" /\ x[2] = crashes'
    BY <1>3, RunCutOthers
  <2>3. \A x \in Runs : /\ process'[x] # "none" => x[2] <= crashes'
                        /\ process'[x] = "none" => retries'[x] = 0
    <3> SUFFICES ASSUME NEW x \in Runs
                 PROVE  /\ process'[x] # "none" => x[2] <= crashes'
                        /\ process'[x] = "none" => retries'[x] = 0
      OBVIOUS
    <3>1. x[2] \in Nat
      BY <1>0
    <3>2. CASE x = m
      BY <1>0, <2>1, <3>1, <3>2
    <3>3. CASE x # m
      BY <1>0, <2>1, <2>2, <3>1, <3>3
    <3> QED BY <3>2, <3>3
  <2>4. \A x \in Submissions : submit'[x] # "none" => x[2] <= crashes'
    BY <1>0, <2>1
  <2> QED BY <2>1, <2>3, <2>4
<1>4. ASSUME NEW r \in Reviews, (\E d \in Disputes, v \in Verdicts : ReviewRead(r, d, v)) \/ ReviewStep(r)
      PROVE  MessagesInv'
  <2>1. UNCHANGED <<processVars, resubmits, crashes>>
    BY <1>4 DEF ReviewRead, ReviewStep, ReviewUpdate, ReviewCommit, ReviewFail
  <2>2. submit' = submit \/ submit' = [submit EXCEPT ![First(r)] = "queued"]
    BY <1>4 DEF ReviewRead, ReviewStep, ReviewUpdate, ReviewCommit, ReviewFail
  <2>3. First(r)[2] = 0
    BY DEF First
  <2>4. \A s \in Submissions : /\ submit'[s] # "none" => submit[s] # "none" \/ s[2] = 0
                               /\ submit'[s] = "none" => submit[s] = "none"
    BY <2>2, <2>3
  <2> QED BY <1>0, <2>1, <2>4
<1>5. ASSUME NEW s \in Submissions, SubmitStep(s) PROVE MessagesInv'
  <2>1. UNCHANGED <<processVars, resubmits, crashes>>
    BY <1>5 DEF SubmitStep, StartSubmit, Send
  <2>2. \A x \in Submissions : submit'[x] = "none" <=> submit[x] = "none"
    BY <1>5 DEF SubmitStep, StartSubmit, Send
  <2> QED BY <2>1, <2>2
<1>6. ASSUME NEW s \in Submissions, SubmitRaises(s) \/ SubmitWorkerLost(s) \/ ResubmitDoubled(s)
      PROVE  MessagesInv'
  <2>1. /\ crashes' \in {crashes, crashes + 1} /\ UNCHANGED processVars
        /\ submit[s] # "none" /\ submit'[s] # "none"
    BY <1>6, SubmitCut
  <2>2. \A x \in Submissions \ {s} : \/ submit'[x] = submit[x] /\ resubmits'[x] = resubmits[x]
                                     \/ submit'[x] = "queued" /\ x[2] = crashes'
    BY <1>6, SubmitCutOthers
  <2>3. \A x \in Submissions : /\ submit'[x] # "none" => x[2] <= crashes'
                               /\ submit'[x] = "none" => resubmits'[x] = 0
    <3> SUFFICES ASSUME NEW x \in Submissions
                 PROVE  /\ submit'[x] # "none" => x[2] <= crashes'
                        /\ submit'[x] = "none" => resubmits'[x] = 0
      OBVIOUS
    <3>1. x[2] \in Nat
      BY <1>0
    <3>2. CASE x = s
      BY <1>0, <2>1, <3>1, <3>2
    <3>3. CASE x # s
      BY <1>0, <2>1, <2>2, <3>1, <3>3
    <3> QED BY <3>2, <3>3
  <2>4. \A x \in Runs : process'[x] # "none" => x[2] <= crashes'
    BY <1>0, <2>1
  <2> QED BY <2>1, <2>3, <2>4
<1>7. CASE UNCHANGED vars
  BY <1>7 DEF vars
<1> QED BY <1>1, <1>2, <1>3, <1>4, <1>5, <1>6, <1>7 DEF Next, Waiting

-----------------------------------------------------------------------------
LEMMA InvNext == IInv /\ [Next]_vars => IInv'
BY TypeStep, RequestsStep, UniqueStep, RunsStep, MessagesStep, ReviewsStep, EvidenceStep, LineageStep,
   ApprovalStep, DecidedStep DEF IInv

\* The inductive invariant holds in every reachable state.
THEOREM Invariance == Spec => []IInv
<1>1. Init => IInv
  <2> SUFFICES ASSUME Init PROVE IInv
    OBVIOUS
  <2> USE LifecycleAssumption DEF Init, Disputes
  <2>1. TypeOK
    BY DEF TypeOK, Statuses, WebhookPCs, ReviewPCs
  <2>2. RequestsInv /\ UniqueDispute
    BY DEF RequestsInv, UniqueDispute, Committed
  <2>3. RunsInv /\ MessagesInv
    BY DEF RunsInv, MessagesInv, Decisions
  <2>4. ReviewsInv /\ EvidenceInv
    BY DEF ReviewsInv, EvidenceInv
  <2>5. AuditLineage /\ ApprovalIsQueued /\ DecidedByRun
    BY DEF AuditLineage, ApprovalIsQueued, DecidedByRun
  <2> QED
    BY <2>1, <2>2, <2>3, <2>4, <2>5 DEF IInv
<1> QED
  BY <1>1, InvNext, PTL DEF Spec

\* Every variable of the lifecycle stays in its range.
THEOREM TypeCorrect == Spec => []TypeOK
<1>1. IInv => TypeOK
  BY DEF IInv
<1> QED
  BY <1>1, Invariance, PTL

\* No race of webhook deliveries makes two rows for one chargeback_id.
THEOREM DisputesAreUnique == Spec => []UniqueDispute
<1>1. IInv => UniqueDispute
  BY DEF IInv
<1> QED
  BY <1>1, Invariance, PTL

\* The audit trail accounts for every committed status, and none of the
\* workflow's intermediate statuses is ever committed.
THEOREM StatusesAreAudited == Spec => []AuditLineage
<1>1. IInv => AuditLineage
  BY DEF IInv
<1> QED
  BY <1>1, Invariance, PTL

\* An approval on record has its submission message, even after crashes.
THEOREM ApprovalsAreQueued == Spec => []ApprovalIsQueued
<1>1. IInv => ApprovalIsQueued
  BY DEF IInv
<1> QED
  BY <1>1, Invariance, PTL

\* No task is queued for a row that is not committed, and no submission for a
\* dispute the agent had not sent to review.
THEOREM TasksAreKnown == Spec => []TasksOfKnownDisputes
<1>1. IInv => TasksOfKnownDisputes
  BY RunRecord, SubmissionTarget DEF AskedForReview, TasksOfKnownDisputes
<1> QED
  BY <1>1, Invariance, PTL

\* Accepted evidence has an approving review behind it, or the flag and the agent.
THEOREM HumanDecides == Spec => []HumanInTheLoop
<1>1. IInv => HumanInTheLoop
  <2> SUFFICES ASSUME IInv, NEW d \in Disputes, accepted[d] # {}, "agent" \notin accepted[d]
               PROVE  \E r \in Reviews : /\ target[r] = d
                                         /\ choice[r] = "approve"
                                         /\ review[r] \in {"updated", "done", "failed"}
    BY DEF IInv, EvidenceInv, HumanInTheLoop
  <2>1. "human" \in accepted[d]
    BY DEF IInv, TypeOK
  <2>2. PICK r \in Reviews : target[r] = d /\ submit[First(r)] # "none"
    BY <2>1 DEF IInv, EvidenceInv
  <2>3. First(r) \in Submissions /\ First(r)[1] = r
    BY SubmissionIds
  <2> QED BY <2>2, <2>3 DEF IInv, ReviewsInv
<1> QED
  BY <1>1, Invariance, PTL

\* A dispute waiting in "received" always has something that carries it on, or a
\* request or a task that died.
THEOREM NobodyIsStranded == Spec => []NotStranded
<1>1. IInv => NotStranded
  <2> SUFFICES ASSUME IInv, NEW d \in Disputes, status[d] = "received"
               PROVE  \E w \in Webhooks :
                        /\ record[w] = d
                        /\ \/ webhook[w] \in {"committed", "failed"}
                           \/ process[First(w)] \in {"queued", "deciding", "submitting", "persisting", "failed"}
    BY DEF NotStranded
  <2>1. record[d] = d /\ webhook[d] \in {"committed", "accepted", "failed"}
    BY DEF IInv, RequestsInv, Committed, Disputes
  <2>2. First(d) \in Runs /\ First(d)[1] = d
    BY RunIds DEF Disputes
  <2>3. webhook[d] = "accepted" => process[First(d)] \notin {"none", "persisted", "done"}
    BY <2>1, <2>2 DEF IInv, RequestsInv, RunsInv, Disputes
  <2>4. process[First(d)] \in {"none", "queued"} \cup RunPCs \cup TaskEnds
    BY <2>2 DEF IInv, TypeOK
  <2> QED
    BY <2>1, <2>3, <2>4 DEF RunPCs, TaskEnds, Disputes
<1> QED
  BY <1>1, Invariance, PTL

\* Only a second run of the workflow, or a second reviewer, changes the status of
\* a rejected dispute.
THEOREM RejectionIsFinal == Spec => RejectFinalUnlessRerun
<1>1. IInv /\ [Next]_vars =>
        [\A d \in Disputes : status[d] = "expired" /\ RanOnce(d) /\ NoOpenReview(d)
                               => status'[d] = "expired"]_vars
  <2> SUFFICES ASSUME IInv, Next, NEW d \in Disputes,
                      status[d] = "expired", RanOnce(d), NoOpenReview(d)
               PROVE  status'[d] = "expired"
    OBVIOUS
  <2> USE DEF IInv, TypeOK, dbVars, Disputes
  <2>1. ASSUME NEW w \in Webhooks, WebhookInsert(w) PROVE status'[d] = "expired"
    BY <2>1 DEF WebhookInsert, RowsWith, Committed
  <2>2. ASSUME NEW m \in Runs, PersistResult(m) PROVE status'[d] = "expired"
    <3>1. PICK x \in Runs : record[x[1]] = d /\ process[x] \in {"persisted", "done", "failed"}
      BY DEF AuditLineage, DecidedByRun, RanOnce, Decisions
    <3>2. record[m[1]] # d
      BY <2>2, <3>1 DEF RanOnce, PersistResult
    <3> QED
      BY <2>2, <3>2 DEF PersistResult, SetDecision
  <2>3. ASSUME NEW r \in Reviews, ReviewCommit(r) PROVE status'[d] = "expired"
    BY <2>3 DEF ReviewCommit, NoOpenReview, SetDecision
  <2>4. CASE UNCHANGED status
    BY <2>4
  <2> QED
    BY <2>1, <2>2, <2>3, <2>4
       DEF Next, WebhookStep, RunStep, ReviewStep, SubmitStep, Waiting, vars, WebhookIgnored,
           WebhookSelect, WebhookReuse, WebhookEnqueue, WebhookFail, StartRun, Decide, SubmitNode,
           AckRun, RunRaises, MayRetry, WorkerLost, RetryDoubled, ReviewRead, ReviewUpdate, ReviewFail, StartSubmit, Send,
           SubmitRaises, SubmitWorkerLost, ResubmitDoubled
<1> QED
  BY <1>1, Invariance, PTL DEF Spec, RejectFinalUnlessRerun

-----------------------------------------------------------------------------
(* The contract.                                                           *)

\* What a step has to leave alone, dispute by dispute, for the contract's two
\* functions to stay what they are.
LEMMA AskedSame ==
  ASSUME \A d \in Disputes : AskedForReview(d)' <=> AskedForReview(d)
  PROVE  UNCHANGED [d \in Disputes |-> AskedForReview(d)]
BY DEF AskedForReview

LEMMA ApprovedSame ==
  ASSUME \A d \in Disputes : ApprovalPublished(d)' <=> ApprovalPublished(d)
  PROVE  UNCHANGED [d \in Disputes |-> ApprovalPublished(d)]
BY DEF ApprovalPublished

\* The processor's answer to a submission is a delivery of the contract, if it is
\* anything, as long as no question or approval changes with it.
LEMMA DeliveryStep ==
  ASSUME IInv, NEW d \in Disputes, NEW who \in {"agent", "human"},
         ProcessorAnswers(d, who), UNCHANGED dbVars, Committed(d),
         who = "agent" => AutoSubmit, who = "human" => ApprovalPublished(d),
         UNCHANGED [e \in Disputes |-> ApprovalPublished(e)]
  PROVE  Contract!Next \/ UNCHANGED Contract!vars
<1>1. UNCHANGED [e \in Disputes |-> AskedForReview(e)]
  BY AskedSame DEF dbVars, AskedForReview
<1>2. CASE UNCHANGED accepted
  BY <1>1, <1>2 DEF Contract!vars, dbVars
<1>3. CASE accepted' = [accepted EXCEPT ![d] = @ \cup {who}]
  <2>1. Contract!Deliver(d, who)
    BY <1>1, <1>3 DEF Contract!Deliver, dbVars, Committed
  <2> QED BY <2>1 DEF Contract!Next
<1> QED BY <1>2, <1>3 DEF ProcessorAnswers

LEMMA ContractStep == IInv /\ [Next]_vars => Contract!Next \/ UNCHANGED Contract!vars
<1> SUFFICES ASSUME IInv, [Next]_vars PROVE Contract!Next \/ UNCHANGED Contract!vars
  OBVIOUS
<1> USE DEF IInv, TypeOK, Disputes
<1>1. ASSUME NEW w \in Webhooks, WebhookInsert(w) PROVE Contract!Next
  <2>1. UNCHANGED [d \in Disputes |-> AskedForReview(d)]
    <3>1. audit[w] = {} /\ status[w] = "absent"
      BY <1>1 DEF WebhookInsert, RequestsInv, AuditLineage, Committed
    <3> QED BY <1>1, <3>1, AskedSame DEF WebhookInsert, AskedForReview
  <2>2. UNCHANGED [d \in Disputes |-> ApprovalPublished(d)]
    BY <1>1, ApprovedSame DEF WebhookInsert, ApprovalPublished, reviewVars, submitVars
  <2>3. status[w] = "absent"
    BY <1>1 DEF WebhookInsert, RequestsInv, Committed
  <2>4. Contract!Open(w)
    BY <1>1, <2>1, <2>2, <2>3 DEF WebhookInsert, Contract!Open
  <2> QED BY <2>4 DEF Contract!Next
<1>2. ASSUME NEW m \in Runs, PersistResult(m) PROVE Contract!Next
  <2> DEFINE d == record[m[1]]
  <2>1. /\ d \in Disputes
        /\ status[d] # "absent"
        /\ verdict[m] \in {"auto_submit", "human_review"}
        /\ verdict[m] = "auto_submit" => AutoSubmit
    BY <1>2, RunRecord DEF PersistResult, RunsInv, Committed
  <2>2. UNCHANGED [e \in Disputes |-> ApprovalPublished(e)]
    BY <1>2, ApprovedSame DEF PersistResult, ApprovalPublished, reviewVars, submitVars
  <2>3. status' = [status EXCEPT ![d] = StatusOf(verdict[m])] /\ UNCHANGED accepted
    BY <1>2 DEF PersistResult, SetDecision
  <2>4. \A e \in Disputes : AskedForReview(e)' <=>
          AskedForReview(e) \/ (e = d /\ verdict[m] = "human_review")
    BY <1>2, <2>1 DEF PersistResult, SetDecision, AskedForReview
  <2>5. CASE verdict[m] = "auto_submit"
    <3>1. UNCHANGED [e \in Disputes |-> AskedForReview(e)]
      BY <2>4, <2>5, AskedSame
    <3>2. Contract!AgentSubmits(d)
      BY <2>1, <2>2, <2>3, <2>5, <3>1, StatusTable DEF Contract!AgentSubmits
    <3> QED BY <2>1, <3>2 DEF Contract!Next
  <2>6. CASE verdict[m] = "human_review"
    <3>1. [e \in Disputes |-> AskedForReview(e)]'
            = [[e \in Disputes |-> AskedForReview(e)] EXCEPT ![d] = TRUE]
      <4>1. \A e \in Disputes : AskedForReview(e)' = IF e = d THEN TRUE ELSE AskedForReview(e)
        <5> TAKE e \in Disputes
        <5>1. AskedForReview(e)' <=> AskedForReview(e) \/ e = d
          BY <2>4, <2>6
        <5>2. CASE e = d
          BY <5>1, <5>2 DEF AskedForReview
        <5>3. CASE e # d
          BY <5>1, <5>3 DEF AskedForReview
        <5> QED BY <5>2, <5>3
      <4> QED BY <2>1, <4>1
    <3>2. Contract!Ask(d)
      BY <2>1, <2>2, <2>3, <2>6, <3>1, StatusTable DEF Contract!Ask
    <3> QED BY <2>1, <3>2 DEF Contract!Next
  <2> QED BY <2>1, <2>5, <2>6
<1>3. ASSUME NEW m \in Runs, SubmitNode(m) PROVE Contract!Next \/ UNCHANGED Contract!vars
  <2>1. record[m[1]] \in Disputes /\ Committed(record[m[1]]) /\ AutoSubmit
    BY <1>3, RunRecord DEF SubmitNode, RunsInv
  <2>2. UNCHANGED [d \in Disputes |-> ApprovalPublished(d)]
    BY <1>3, ApprovedSame DEF SubmitNode, ApprovalPublished, reviewVars, submitVars
  <2> QED BY <1>3, <2>1, <2>2, DeliveryStep DEF SubmitNode
<1>4. ASSUME NEW s \in Submissions, Send(s) \/ SubmitRaises(s) \/ SubmitWorkerLost(s) \/ ResubmitDoubled(s)
      PROVE  Contract!Next \/ UNCHANGED Contract!vars
  <2>1. /\ submit[s] = "running" /\ ProcessorAnswers(target[s[1]], "human")
        /\ UNCHANGED <<dbVars, reviewVars>>
    BY <1>4, SubmitCut DEF Send
  <2>2. /\ target[s[1]] \in Disputes /\ Committed(target[s[1]])
        /\ ApprovalPublished(target[s[1]])
    BY <2>1, SubmissionTarget
  <2>3. \A r \in Reviews : submit'[First(r)] # "none" <=> submit[First(r)] # "none"
    <3>1. CASE Send(s)
      BY <3>1, SubmissionIds DEF Send
    <3>2. CASE SubmitRaises(s) \/ SubmitWorkerLost(s) \/ ResubmitDoubled(s)
      <4> SUFFICES ASSUME NEW r \in Reviews
                   PROVE  submit'[First(r)] # "none" <=> submit[First(r)] # "none"
        OBVIOUS
      <4>1. First(r) \in Submissions /\ First(r)[1] = r
        BY SubmissionIds
      <4>2. CASE First(r) = s
        BY <2>1, <3>2, <4>2, SubmitCut
      <4>3. CASE First(r) # s
        <5>1. submit[s] # "none" /\ submit[First(s[1])] # "none"
          BY <2>1, SubmissionTarget
        <5>2. s[1] = r => submit[First(r)] # "none"
          BY <5>1
        <5> QED BY <3>2, <4>1, <4>3, <5>2, SubmitCutOthers
      <4> QED BY <4>2, <4>3
    <3> QED BY <1>4, <3>1, <3>2
  <2>4. UNCHANGED [d \in Disputes |-> ApprovalPublished(d)]
    BY <2>1, <2>3, ApprovedSame DEF ApprovalPublished, reviewVars
  <2> QED BY <2>1, <2>2, <2>4, DeliveryStep
<1>10. ASSUME NEW m \in Runs, RunRaises(m) \/ WorkerLost(m) \/ RetryDoubled(m)
      PROVE  Contract!Next \/ UNCHANGED Contract!vars
  <2>1. CutOff(m) /\ UNCHANGED <<dbVars, reviewVars, submitVars>>
    BY <1>10, RunCut
  <2>2. UNCHANGED [d \in Disputes |-> ApprovalPublished(d)]
    BY <2>1, ApprovedSame DEF ApprovalPublished, reviewVars, submitVars
  <2>3. CASE UNCHANGED accepted
    <3>1. UNCHANGED [d \in Disputes |-> AskedForReview(d)]
      BY <2>1, AskedSame DEF AskedForReview, dbVars
    <3> QED BY <2>1, <2>2, <2>3, <3>1 DEF Contract!vars, dbVars
  <2>4. CASE process[m] = "submitting" /\ ProcessorAnswers(record[m[1]], "agent")
    <3>1. record[m[1]] \in Disputes /\ Committed(record[m[1]]) /\ AutoSubmit
      BY <2>4, RunRecord DEF RunsInv
    <3> QED BY <2>1, <2>2, <2>4, <3>1, DeliveryStep
  <2> QED BY <2>1, <2>3, <2>4 DEF CutOff
<1>5. ASSUME NEW r \in Reviews, ReviewUpdate(r) PROVE Contract!Next \/ UNCHANGED Contract!vars
  <2>1. target[r] \in Disputes /\ AskedForReview(target[r])
    BY <1>5 DEF ReviewUpdate, ReviewsInv, AskedForReview
  <2>2. UNCHANGED [d \in Disputes |-> AskedForReview(d)] /\ UNCHANGED <<status, accepted>>
    BY <1>5, AskedSame DEF ReviewUpdate, AskedForReview, dbVars
  <2>3. CASE choice[r] = "approve"
    <3>0. \A x \in Reviews : submit'[First(x)] # "none" <=> submit[First(x)] # "none" \/ x = r
      BY <1>5, <2>3, SubmissionIds DEF ReviewUpdate
    <3>1. \A d \in Disputes : ApprovalPublished(d)' <=> ApprovalPublished(d) \/ d = target[r]
      BY <1>5, <2>3, <3>0 DEF ReviewUpdate, ApprovalPublished
    <3>2. [d \in Disputes |-> ApprovalPublished(d)]'
            = [[d \in Disputes |-> ApprovalPublished(d)] EXCEPT ![target[r]] = TRUE]
      BY <2>1, <3>1 DEF ApprovalPublished
    <3>3. Contract!Approve(target[r])
      BY <2>1, <2>2, <3>2 DEF Contract!Approve
    <3> QED BY <2>1, <3>3 DEF Contract!Next
  <2>4. CASE choice[r] # "approve"
    <3>1. UNCHANGED [d \in Disputes |-> ApprovalPublished(d)]
      BY <1>5, <2>4, ApprovedSame DEF ReviewUpdate, ApprovalPublished
    <3> QED BY <2>2, <3>1 DEF Contract!vars
  <2> QED BY <2>3, <2>4
<1>6. ASSUME NEW r \in Reviews, ReviewCommit(r) PROVE Contract!Next
  <2>1. /\ target[r] \in Disputes
        /\ AskedForReview(target[r])
        /\ choice[r] = "approve" => ApprovalPublished(target[r])
    BY <1>6 DEF ReviewCommit, ReviewsInv, AskedForReview, ApprovalPublished
  <2>2. UNCHANGED [d \in Disputes |-> ApprovalPublished(d)] /\ UNCHANGED accepted
    BY <1>6, ApprovedSame DEF ReviewCommit, ApprovalPublished, submitVars
  <2>3. UNCHANGED [d \in Disputes |-> AskedForReview(d)]
    BY <1>6, <2>1, AskedSame DEF ReviewCommit, SetDecision, AskedForReview
  <2>4. CASE choice[r] = "approve"
    <3>1. Contract!RecordApproval(target[r])
      BY <1>6, <2>1, <2>2, <2>3, <2>4, StatusTable
         DEF ReviewCommit, SetDecision, Contract!RecordApproval
    <3> QED BY <2>1, <3>1 DEF Contract!Next
  <2>5. CASE choice[r] # "approve"
    <3>1. Contract!RecordRejection(target[r])
      BY <1>6, <2>1, <2>2, <2>3, <2>5, StatusTable
         DEF ReviewCommit, SetDecision, Contract!RecordRejection
    <3> QED BY <2>1, <3>1 DEF Contract!Next
  <2> QED BY <2>4, <2>5
<1>7. ASSUME NEW r \in Reviews, NEW d \in Disputes, NEW v \in Verdicts, ReviewRead(r, d, v)
      PROVE  UNCHANGED Contract!vars
  <2>1. submit[First(r)] = "none"
    BY <1>7, SubmissionIds DEF ReviewRead, ReviewsInv
  <2>2. UNCHANGED [e \in Disputes |-> ApprovalPublished(e)]
    BY <1>7, <2>1, ApprovedSame DEF ReviewRead, ApprovalPublished, submitVars
  <2>3. UNCHANGED [e \in Disputes |-> AskedForReview(e)]
    BY <1>7, AskedSame DEF ReviewRead, AskedForReview, dbVars
  <2> QED BY <1>7, <2>2, <2>3 DEF Contract!vars, ReviewRead, dbVars
<1>8. ASSUME NEW s \in Submissions, StartSubmit(s) PROVE UNCHANGED Contract!vars
  <2>1. UNCHANGED [d \in Disputes |-> ApprovalPublished(d)]
    <3>1. \A r \in Reviews : submit'[First(r)] # "none" <=> submit[First(r)] # "none"
      BY <1>8, SubmissionIds DEF StartSubmit
    <3> QED BY <1>8, <3>1, ApprovedSame DEF StartSubmit, ApprovalPublished, reviewVars
  <2>2. UNCHANGED [d \in Disputes |-> AskedForReview(d)]
    BY <1>8, AskedSame DEF StartSubmit, AskedForReview, dbVars
  <2> QED BY <1>8, <2>1, <2>2 DEF Contract!vars, StartSubmit, dbVars
<1>9. CASE UNCHANGED <<dbVars, target, choice, submit, accepted>>
  <2>1. UNCHANGED [d \in Disputes |-> ApprovalPublished(d)]
    BY <1>9, ApprovedSame DEF ApprovalPublished
  <2>2. UNCHANGED [d \in Disputes |-> AskedForReview(d)]
    BY <1>9, AskedSame DEF AskedForReview, dbVars
  <2> QED BY <1>9, <2>1, <2>2 DEF Contract!vars, dbVars
<1> QED
  BY <1>1, <1>2, <1>3, <1>4, <1>5, <1>6, <1>7, <1>8, <1>9, <1>10
     DEF Next, WebhookStep, RunStep, ReviewStep, SubmitStep, Waiting, vars, WebhookIgnored,
         WebhookSelect, WebhookReuse, WebhookEnqueue, WebhookFail, StartRun, Decide, AckRun,
         ReviewFail, reviewVars, submitVars

\* However requests race and workers die, each dispute's status, questions,
\* approvals and deliveries follow the contract.
THEOREM ContractKept == Spec => KeepsContract
<1>1. Init => Contract!Init
  <2> SUFFICES ASSUME Init PROVE Contract!Init
    OBVIOUS
  <2>1. \A d \in Disputes : ~AskedForReview(d) /\ ~ApprovalPublished(d)
    BY SubmissionIds DEF Init, AskedForReview, ApprovalPublished
  <2>2. [d \in Disputes |-> AskedForReview(d)] = [d \in Disputes |-> FALSE]
    <3>1. \A d \in Disputes : AskedForReview(d) = FALSE
      BY <2>1 DEF AskedForReview
    <3> QED BY <3>1
  <2>3. [d \in Disputes |-> ApprovalPublished(d)] = [d \in Disputes |-> FALSE]
    BY <2>1 DEF ApprovalPublished
  <2> QED BY <2>2, <2>3 DEF Init, Contract!Init
<1> QED
  BY <1>1, ContractStep, Invariance, PTL DEF Spec, KeepsContract, Contract!Spec

\* A step of the contract keeps every dispute accountable.
LEMMA AccountableStep ==
  ASSUME TypeOK, DecisionsAccountable, Contract!Next
  PROVE  DecisionsAccountable'
<1> SUFFICES ASSUME NEW d \in Disputes PROVE Contract!Accountable(d)'
  BY DEF DecisionsAccountable
<1> DEFINE Asked    == [x \in Disputes |-> AskedForReview(x)]
           Approved == [x \in Disputes |-> ApprovalPublished(x)]
<1>0. /\ AskedForReview(d) \in BOOLEAN /\ AskedForReview(d)' \in BOOLEAN
      /\ ApprovalPublished(d) \in BOOLEAN /\ ApprovalPublished(d)' \in BOOLEAN
  BY DEF AskedForReview, ApprovalPublished
<1>1. Asked[d] = AskedForReview(d) /\ Asked'[d] = AskedForReview(d)'
  OBVIOUS
<1>2. Approved[d] = ApprovalPublished(d) /\ Approved'[d] = ApprovalPublished(d)'
  OBVIOUS
<1>3. DOMAIN Asked = Disputes /\ DOMAIN Approved = Disputes
  OBVIOUS
<1>4. status \in [Disputes -> Statuses \cup {"absent"}] /\ accepted \in [Disputes -> SUBSET {"agent", "human"}]
  BY DEF TypeOK
<1>5. /\ Asked[d] => status[d] # "absent"
      /\ Approved[d] => Asked[d]
      /\ status[d] = "auto_submitted" => AutoSubmit \/ Approved[d]
      /\ status[d] = "expired" => Asked[d]
      /\ accepted[d] # {} => status[d] # "absent" /\ (AutoSubmit \/ Approved[d])
  BY <1>1, <1>2 DEF DecisionsAccountable, Contract!Accountable
<1>6. PICK e \in Disputes :
        \/ Contract!Open(e) \/ Contract!Ask(e) \/ Contract!AgentSubmits(e)
        \/ Contract!Approve(e) \/ Contract!RecordApproval(e) \/ Contract!RecordRejection(e)
        \/ \E who \in {"agent", "human"} : Contract!Deliver(e, who)
  BY DEF Contract!Next
<1> DEFINE Shows(s) == status' = [status EXCEPT ![e] = s] /\ UNCHANGED accepted
<1>7. \/ status[e] = "absent" /\ Shows("received") /\ UNCHANGED <<Asked, Approved>>
      \/ status[e] # "absent" /\ Shows("pending_review") /\ Asked' = [Asked EXCEPT ![e] = TRUE]
                              /\ UNCHANGED Approved
      \/ AutoSubmit /\ status[e] # "absent" /\ Shows("auto_submitted") /\ UNCHANGED <<Asked, Approved>>
      \/ Asked[e] /\ Approved' = [Approved EXCEPT ![e] = TRUE] /\ UNCHANGED <<status, Asked, accepted>>
      \/ Approved[e] /\ Shows("auto_submitted") /\ UNCHANGED <<Asked, Approved>>
      \/ Asked[e] /\ Shows("expired") /\ UNCHANGED <<Asked, Approved>>
      \/ \E who \in {"agent", "human"} :
           /\ status[e] # "absent"
           /\ who = "agent" => AutoSubmit
           /\ who = "human" => Approved[e]
           /\ accepted' = [accepted EXCEPT ![e] = @ \cup {who}]
           /\ UNCHANGED <<status, Asked, Approved>>
  BY <1>6 DEF Contract!Open, Contract!Ask, Contract!AgentSubmits, Contract!Approve,
              Contract!RecordApproval, Contract!RecordRejection, Contract!Deliver
<1> HIDE DEF Asked, Approved
<1>8. /\ Asked'[d] => status'[d] # "absent"
      /\ Approved'[d] => Asked'[d]
      /\ status'[d] = "auto_submitted" => AutoSubmit \/ Approved'[d]
      /\ status'[d] = "expired" => Asked'[d]
      /\ accepted'[d] # {} => status'[d] # "absent" /\ (AutoSubmit \/ Approved'[d])
  <2>1. CASE d # e
    BY <1>3, <1>4, <1>5, <1>7, <2>1
  <2>2. CASE d = e
    BY <1>3, <1>4, <1>5, <1>7, <2>2
  <2> QED BY <2>1, <2>2
<1> QED BY <1>1, <1>2, <1>8 DEF Contract!Accountable

\* Whatever requests, tasks and workers do, a status and evidence at the processor
\* have a human's approval behind them, unless the flag lets the agent decide.
THEOREM DecisionsHaveReasons == Spec => []DecisionsAccountable
<1>1. Contract!Init => DecisionsAccountable
  BY DEF Contract!Init, Contract!Accountable, DecisionsAccountable
<1>2. TypeOK /\ DecisionsAccountable /\ [Contract!Next]_Contract!vars => DecisionsAccountable'
  <2>1. TypeOK /\ DecisionsAccountable /\ UNCHANGED Contract!vars => DecisionsAccountable'
    BY DEF Contract!vars, Contract!Accountable, DecisionsAccountable
  <2> QED BY <2>1, AccountableStep
<1> QED BY <1>1, <1>2, TypeCorrect, ContractKept, PTL DEF KeepsContract, Contract!Spec

-----------------------------------------------------------------------------
(* The agent graph inside its task.                                        *)

\* The phases of the locations of a task.
LEMMA GraphPhaseFacts ==
  ASSUME NEW m \in Runs
  PROVE  /\ process[m] \in {"deciding", "submitting"} => GraphPhase(m) = process[m]
         /\ process[m] = "persisting" => GraphPhase(m) = "returned"
         /\ process[m] \notin {"deciding", "submitting", "persisting"} => GraphPhase(m) = "raised"
BY DEF GraphPhase

\* While a task awaits its graph, every step of the system is to that graph a step of
\* AgentRun or nothing: what the task does meanwhile, and a retry or a lost worker
\* that cuts the run off, is what AgentRun says a run may do.  RunKept of
\* DisputeWorkflowProofs is the other half: the graph does nothing else.
THEOREM TaskRunsGraph ==
  ASSUME IInv, [Next]_vars, NEW m \in Runs, AwaitsGraph(m)
  PROVE  Graph(m)!Next \/ UNCHANGED <<GraphPhase(m), verdict[m]>>
<1> USE DEF AwaitsGraph
<1>0. /\ process[m] \in {"deciding", "submitting"} /\ GraphPhase(m) = process[m]
      /\ m[1] \in Webhooks /\ record[m[1]] \in Disputes
      /\ webhook[m[1]] \in {"accepted", "failed"}
  BY GraphPhaseFacts, RunRecord DEF IInv, RequestsInv
<1>1. CASE Decide(m)
  <2>1. record' = record /\ accepted' = accepted /\ process[m] = "deciding"
    BY <1>1 DEF Decide, requestVars
  <2>2. \/ AutoSubmit /\ GraphPhase(m)' = "submitting" /\ verdict'[m] = "auto_submit"
        \/ GraphPhase(m)' = "returned" /\ verdict'[m] = "human_review"
    BY <1>1 DEF IInv, TypeOK, Decide, GraphPhase
  <2> QED
    BY <1>0, <2>1, <2>2 DEF Graph!Next, Graph!DecidesToSubmit, Graph!DecidesForReview
<1>2. CASE SubmitNode(m)
  <2>1. /\ process[m] = "submitting" /\ GraphPhase(m)' = "returned"
        /\ verdict'[m] = verdict[m] /\ record' = record
    BY <1>2 DEF IInv, TypeOK, SubmitNode, GraphPhase, requestVars
  <2>2. ("agent" \in accepted[record[m[1]]])' \in {"agent" \in accepted[record[m[1]]], TRUE}
    <3>1. CASE accepted' = accepted
      BY <2>1, <3>1
    <3>2. CASE accepted' = [accepted EXCEPT ![record[m[1]]] = @ \cup {"agent"}]
      <4>1. "agent" \in accepted'[record'[m[1]]]
        BY <1>0, <2>1, <3>2 DEF IInv, TypeOK
      <4> QED BY <4>1
    <3> QED BY <1>2, <3>1, <3>2 DEF SubmitNode, ProcessorAnswers
  <2> QED BY <1>0, <2>1, <2>2 DEF Graph!Next, Graph!Submits
<1>3. CASE RunRaises(m) \/ WorkerLost(m) \/ RetryDoubled(m)
  <2>1. /\ process'[m] \in {"queued", "failed"} /\ verdict'[m] = None
        /\ CutOff(m) /\ record' = record
    BY <1>3, RunCut DEF IInv, TypeOK, requestVars
  <2>2. GraphPhase(m)' = "raised"
    BY <2>1 DEF GraphPhase
  <2>3. ("agent" \in accepted[record[m[1]]])' \in
          {"agent" \in accepted[record[m[1]]],
           ("agent" \in accepted[record[m[1]]]) \/ GraphPhase(m) = "submitting"}
    <3>1. CASE accepted' = accepted
      BY <2>1, <3>1
    <3>2. CASE process[m] = "submitting" /\ accepted' = [accepted EXCEPT ![record[m[1]]] = @ \cup {"agent"}]
      <4>1. "agent" \in accepted'[record'[m[1]]]
        BY <1>0, <2>1, <3>2 DEF IInv, TypeOK
      <4>2. GraphPhase(m) = "submitting"
        BY <1>0, <3>2
      <4> QED BY <4>1, <4>2
    <3> QED BY <2>1, <3>1, <3>2 DEF CutOff, ProcessorAnswers
  <2> QED BY <1>0, <2>1, <2>2, <2>3 DEF Graph!Next, Graph!Raises
<1>4. CASE process'[m] = process[m] /\ verdict'[m] = verdict[m]
  BY <1>4 DEF GraphPhase
<1>5. \/ Decide(m) \/ SubmitNode(m) \/ RunRaises(m) \/ WorkerLost(m) \/ RetryDoubled(m)
      \/ process'[m] = process[m] /\ verdict'[m] = verdict[m]
  <2> SUFFICES ASSUME ~(Decide(m) \/ SubmitNode(m) \/ RunRaises(m) \/ WorkerLost(m) \/ RetryDoubled(m))
               PROVE  process'[m] = process[m] /\ verdict'[m] = verdict[m]
    OBVIOUS
  <2>1. ASSUME NEW w \in Webhooks, WebhookStep(w)
        PROVE  process'[m] = process[m] /\ verdict'[m] = verdict[m]
    <3>1. verdict' = verdict /\ (process' = process \/ process' = [process EXCEPT ![First(w)] = "queued"])
      BY <2>1 DEF WebhookStep, WebhookIgnored, WebhookSelect, WebhookInsert, WebhookReuse,
         WebhookEnqueue, WebhookFail, processVars
    <3>2. process' # process => w # m[1]
      BY <1>0, <2>1 DEF WebhookStep, WebhookIgnored, WebhookSelect, WebhookInsert, WebhookReuse,
         WebhookEnqueue, WebhookFail, processVars
    <3>3. process' # process => First(w) # m
      BY <3>2, RunIds
    <3>4. process \in [Runs -> {"none", "queued"} \cup RunPCs \cup TaskEnds]
      BY DEF IInv, TypeOK
    <3> QED BY <3>1, <3>3, <3>4
  <2>2. ASSUME NEW x \in Runs, RunStep(x)
        PROVE  process'[m] = process[m] /\ verdict'[m] = verdict[m]
    <3>1. x # m
      BY <1>0, <2>2 DEF RunStep, StartRun, PersistResult, AckRun
    <3> QED BY <2>2, <3>1 DEF IInv, TypeOK, RunStep, StartRun, Decide, SubmitNode, PersistResult, AckRun
  <2>3. ASSUME NEW x \in Runs, RunRaises(x) \/ WorkerLost(x) \/ RetryDoubled(x)
        PROVE  process'[m] = process[m] /\ verdict'[m] = verdict[m]
    <3>1. x # m
      BY <2>3
    <3>2. verdict' = [verdict EXCEPT ![x] = None]
      BY <2>3, RunCut
    <3>3. process'[m] = process[m] \/ process[m] = "none"
      BY <2>3, <3>1, RunCutOthers
    <3> QED BY <1>0, <3>1, <3>2, <3>3 DEF IInv, TypeOK
  <2>4. ASSUME NEW r \in Reviews, (\E d \in Disputes, v \in Verdicts : ReviewRead(r, d, v)) \/ ReviewStep(r)
        PROVE  process'[m] = process[m] /\ verdict'[m] = verdict[m]
    BY <2>4 DEF ReviewRead, ReviewStep, ReviewUpdate, ReviewCommit, ReviewFail, processVars
  <2>5. ASSUME NEW s \in Submissions, SubmitStep(s) \/ SubmitRaises(s) \/ SubmitWorkerLost(s) \/ ResubmitDoubled(s)
        PROVE  process'[m] = process[m] /\ verdict'[m] = verdict[m]
    BY <2>5, SubmitCut DEF SubmitStep, StartSubmit, Send, processVars
  <2>6. CASE UNCHANGED vars
    BY <2>6 DEF vars, processVars
  <2> QED BY <2>1, <2>2, <2>3, <2>4, <2>5, <2>6 DEF Next, Waiting
<1> QED BY <1>1, <1>2, <1>3, <1>4, <1>5

-----------------------------------------------------------------------------
(* What a message uses up: the part of TasksEnd that needs no fairness.    *)

\* What a message has left is a natural number.
LEMMA StepsLeftTyped ==
  ASSUME TypeOK
  PROVE  /\ \A m \in Runs : RunStepsLeft(m) \in Nat
         /\ \A s \in Submissions : SubmitStepsLeft(s) \in Nat
<1>1. ASSUME NEW m \in Runs PROVE RunStepsLeft(m) \in Nat
  <2>1. RunRank(process[m]) \in Nat
    BY DEF TypeOK, RunPCs, TaskEnds, RunRank
  <2>2. MaxRetries - retries[m] \in Nat /\ MaxCrashes - crashes \in Nat
    BY LifecycleAssumption DEF TypeOK
  <2> QED BY <2>1, <2>2 DEF RunStepsLeft
<1>2. ASSUME NEW s \in Submissions PROVE SubmitStepsLeft(s) \in Nat
  <2>1. SubmitRank(submit[s]) \in Nat
    BY DEF TypeOK, TaskEnds, SubmitRank
  <2>2. MaxRetries - resubmits[s] \in Nat /\ MaxCrashes - crashes \in Nat
    BY LifecycleAssumption DEF TypeOK
  <2> QED BY <2>1, <2>2 DEF SubmitStepsLeft
<1> QED BY <1>1, <1>2

\* How a message may move in a step: not at all, forward, or back to the queue at
\* the price of one retry or one worker.
RunMoves(m) ==
  \/ process'[m] = process[m] /\ retries'[m] = retries[m] /\ crashes' \in {crashes, crashes + 1}
  \/ /\ RunRank(process'[m]) < RunRank(process[m])
     /\ retries'[m] >= retries[m] /\ crashes' >= crashes
  \/ /\ process[m] \in RunPCs /\ process'[m] = "queued"
     /\ \/ retries'[m] = retries[m] + 1 /\ crashes' = crashes
        \/ retries'[m] = retries[m] /\ crashes' = crashes + 1
SubmitMoves(s) ==
  \/ submit'[s] = submit[s] /\ resubmits'[s] = resubmits[s] /\ crashes' \in {crashes, crashes + 1}
  \/ /\ SubmitRank(submit'[s]) < SubmitRank(submit[s])
     /\ resubmits'[s] >= resubmits[s] /\ crashes' >= crashes
  \/ /\ submit[s] = "running" /\ submit'[s] = "queued"
     /\ \/ resubmits'[s] = resubmits[s] + 1 /\ crashes' = crashes
        \/ resubmits'[s] = resubmits[s] /\ crashes' = crashes + 1

\* Each of these uses up what the message had.
LEMMA MovesUseUp ==
  ASSUME TypeOK, TypeOK', NEW m \in Runs, RunMoves(m)
  PROVE  RunUsesUp(m)
<1>1. /\ RunRank(process[m]) \in 0..6 /\ RunRank(process'[m]) \in 0..6
      /\ process[m] \in RunPCs => RunRank(process[m]) >= 1
      /\ process'[m] = "queued" => RunRank(process'[m]) = 5
  BY DEF TypeOK, RunPCs, TaskEnds, RunRank
<1>2. MaxRetries \in Nat /\ MaxCrashes \in Nat
  BY LifecycleAssumption
<1>3. /\ retries[m] \in 0..MaxRetries /\ crashes \in 0..MaxCrashes
      /\ retries'[m] \in 0..MaxRetries /\ crashes' \in 0..MaxCrashes
  BY DEF TypeOK
<1> DEFINE left == (MaxRetries - retries[m]) + (MaxCrashes - crashes)
<1>4. left \in Nat /\ left' \in Nat
      /\ RunStepsLeft(m) = 5 * left + RunRank(process[m])
      /\ RunStepsLeft(m)' = 5 * left' + RunRank(process'[m])
  BY <1>2, <1>3 DEF RunStepsLeft
<1>5. CASE process'[m] = process[m] /\ retries'[m] = retries[m] /\ crashes' \in {crashes, crashes + 1}
  <2>1. left' <= left
    BY <1>2, <1>3, <1>5
  <2> HIDE DEF left
  <2> QED BY <1>1, <1>4, <1>5, <2>1 DEF RunUsesUp
<1>6. CASE /\ RunRank(process'[m]) < RunRank(process[m])
           /\ retries'[m] >= retries[m] /\ crashes' >= crashes
  <2>1. left' <= left
    BY <1>2, <1>3, <1>6
  <2> HIDE DEF left
  <2> QED BY <1>1, <1>4, <1>6, <2>1 DEF RunUsesUp
<1>7. CASE /\ process[m] \in RunPCs /\ process'[m] = "queued"
           /\ \/ retries'[m] = retries[m] + 1 /\ crashes' = crashes
              \/ retries'[m] = retries[m] /\ crashes' = crashes + 1
  <2>1. left' = left - 1
    BY <1>2, <1>3, <1>7
  <2> HIDE DEF left
  <2> QED BY <1>1, <1>4, <1>7, <2>1 DEF RunUsesUp
<1> QED BY <1>5, <1>6, <1>7 DEF RunMoves

LEMMA SubmitMovesUseUp ==
  ASSUME TypeOK, TypeOK', NEW s \in Submissions, SubmitMoves(s)
  PROVE  SubmitUsesUp(s)
<1>1. /\ SubmitRank(submit[s]) \in 0..3 /\ SubmitRank(submit'[s]) \in 0..3
      /\ submit[s] = "running" => SubmitRank(submit[s]) = 1
      /\ submit'[s] = "queued" => SubmitRank(submit'[s]) = 2
  BY DEF TypeOK, TaskEnds, SubmitRank
<1>2. MaxRetries \in Nat /\ MaxCrashes \in Nat
  BY LifecycleAssumption
<1>3. /\ resubmits[s] \in 0..MaxRetries /\ crashes \in 0..MaxCrashes
      /\ resubmits'[s] \in 0..MaxRetries /\ crashes' \in 0..MaxCrashes
  BY DEF TypeOK
<1> DEFINE left == (MaxRetries - resubmits[s]) + (MaxCrashes - crashes)
<1>4. left \in Nat /\ left' \in Nat
      /\ SubmitStepsLeft(s) = 2 * left + SubmitRank(submit[s])
      /\ SubmitStepsLeft(s)' = 2 * left' + SubmitRank(submit'[s])
  BY <1>2, <1>3 DEF SubmitStepsLeft
<1>5. CASE submit'[s] = submit[s] /\ resubmits'[s] = resubmits[s] /\ crashes' \in {crashes, crashes + 1}
  <2>1. left' <= left
    BY <1>2, <1>3, <1>5
  <2> HIDE DEF left
  <2> QED BY <1>1, <1>4, <1>5, <2>1 DEF SubmitUsesUp
<1>6. CASE /\ SubmitRank(submit'[s]) < SubmitRank(submit[s])
           /\ resubmits'[s] >= resubmits[s] /\ crashes' >= crashes
  <2>1. left' <= left
    BY <1>2, <1>3, <1>6
  <2> HIDE DEF left
  <2> QED BY <1>1, <1>4, <1>6, <2>1 DEF SubmitUsesUp
<1>7. CASE /\ submit[s] = "running" /\ submit'[s] = "queued"
           /\ \/ resubmits'[s] = resubmits[s] + 1 /\ crashes' = crashes
              \/ resubmits'[s] = resubmits[s] /\ crashes' = crashes + 1
  <2>1. left' = left - 1
    BY <1>2, <1>3, <1>7
  <2> HIDE DEF left
  <2> QED BY <1>1, <1>4, <1>7, <2>1 DEF SubmitUsesUp
<1> QED BY <1>5, <1>6, <1>7 DEF SubmitMoves

\* Every step of the system moves every message of process_dispute_task so.
LEMMA RunsMove == IInv /\ [Next]_vars => \A m \in Runs : RunMoves(m)
<1> SUFFICES ASSUME IInv, [Next]_vars, NEW m \in Runs PROVE RunMoves(m)
  OBVIOUS
<1>0. TypeOK /\ TypeOK' /\ crashes \in Nat /\ retries[m] \in Nat
  BY InvNext, LifecycleAssumption DEF IInv, TypeOK
<1>1. CASE UNCHANGED <<process, retries>> /\ crashes' \in {crashes, crashes + 1}
  BY <1>1 DEF RunMoves
<1>2. ASSUME NEW w \in Webhooks, WebhookStep(w) PROVE RunMoves(m)
  <2>1. UNCHANGED <<retries, crashes>>
    BY <1>2 DEF WebhookStep, WebhookIgnored, WebhookSelect, WebhookInsert, WebhookReuse,
       WebhookEnqueue, WebhookFail, processVars
  <2>2. \/ process' = process
        \/ process[First(w)] = "none" /\ process' = [process EXCEPT ![First(w)] = "queued"]
    BY <1>2, RunIds DEF IInv, RequestsInv, WebhookStep, WebhookIgnored, WebhookSelect, WebhookInsert,
       WebhookReuse, WebhookEnqueue, WebhookFail, processVars
  <2>3. process'[m] = process[m] \/ (process[m] = "none" /\ process'[m] = "queued")
    BY <1>0, <2>2 DEF TypeOK
  <2>4. RunRank("queued") < RunRank("none")
    BY DEF RunRank
  <2> QED BY <1>0, <2>1, <2>3, <2>4 DEF RunMoves
<1>3. ASSUME NEW x \in Runs, RunStep(x) PROVE RunMoves(m)
  <2>1. UNCHANGED <<retries, crashes>>
    BY <1>3 DEF RunStep, StartRun, Decide, SubmitNode, PersistResult, AckRun
  <2>2. process'[m] = process[m] \/ RunRank(process'[m]) < RunRank(process[m])
    BY <1>0, <1>3 DEF TypeOK, RunStep, StartRun, Decide, SubmitNode, PersistResult, AckRun, RunRank
  <2> QED BY <1>0, <2>1, <2>2 DEF RunMoves
<1>4. ASSUME NEW x \in Runs, RunRaises(x) \/ WorkerLost(x) \/ RetryDoubled(x) PROVE RunMoves(m)
  <2>1. CASE m = x
    <3>1. /\ InRun(m)
          /\ \/ process'[m] = "failed" /\ retries'[m] = retries[m] /\ crashes' \in {crashes, crashes + 1}
             \/ process'[m] = "queued" /\ retries'[m] = retries[m] + 1 /\ crashes' = crashes
             \/ process'[m] = "queued" /\ retries'[m] = retries[m] /\ crashes' = crashes + 1
      BY <1>4, <2>1, RunCut
    <3>2. process[m] \in RunPCs /\ RunRank("failed") < RunRank(process[m])
      BY <3>1 DEF InRun, RunPCs, RunRank
    <3> QED BY <1>0, <3>1, <3>2 DEF RunMoves
  <2>2. CASE m # x
    <3>1. \/ process'[m] = process[m] /\ retries'[m] = retries[m]
          \/ process[m] = "none" /\ process'[m] = "queued"
      BY <1>4, <2>2, RunCutOthers
    <3>2. crashes' \in {crashes, crashes + 1}
      BY <1>4, RunCut
    <3>3. RunRank("queued") < RunRank("none")
      BY DEF RunRank
    <3>4. process[m] = "none" => retries'[m] >= retries[m]
      BY <1>0 DEF IInv, MessagesInv, TypeOK
    <3> QED BY <1>0, <3>1, <3>2, <3>3, <3>4 DEF RunMoves
  <2> QED BY <2>1, <2>2
<1>5. ASSUME NEW r \in Reviews, (\E d \in Disputes, v \in Verdicts : ReviewRead(r, d, v)) \/ ReviewStep(r)
      PROVE  RunMoves(m)
  <2>1. UNCHANGED <<process, retries, crashes>>
    BY <1>5 DEF ReviewRead, ReviewStep, ReviewUpdate, ReviewCommit, ReviewFail, processVars
  <2> QED BY <1>1, <2>1
<1>6. ASSUME NEW s \in Submissions, SubmitStep(s) \/ SubmitRaises(s) \/ SubmitWorkerLost(s) \/ ResubmitDoubled(s) PROVE RunMoves(m)
  <2>1. UNCHANGED <<process, retries>> /\ crashes' \in {crashes, crashes + 1}
    BY <1>6, SubmitCut DEF SubmitStep, StartSubmit, Send, processVars
  <2> QED BY <1>1, <2>1
<1>7. CASE UNCHANGED vars
  BY <1>1, <1>7 DEF vars, processVars
<1> QED BY <1>2, <1>3, <1>4, <1>5, <1>6, <1>7 DEF Next, Waiting

\* And every message of submit_dispute_task.
LEMMA SubmissionsMove == IInv /\ [Next]_vars => \A s \in Submissions : SubmitMoves(s)
<1> SUFFICES ASSUME IInv, [Next]_vars, NEW s \in Submissions PROVE SubmitMoves(s)
  OBVIOUS
<1>0. TypeOK /\ TypeOK' /\ crashes \in Nat /\ resubmits[s] \in Nat
  BY InvNext, LifecycleAssumption DEF IInv, TypeOK
<1>1. CASE UNCHANGED <<submit, resubmits>> /\ crashes' \in {crashes, crashes + 1}
  BY <1>1 DEF SubmitMoves
<1>2. ASSUME NEW w \in Webhooks, WebhookStep(w) PROVE SubmitMoves(s)
  <2>1. UNCHANGED <<submit, resubmits, crashes>>
    BY <1>2 DEF WebhookStep, WebhookIgnored, WebhookSelect, WebhookInsert, WebhookReuse,
       WebhookEnqueue, WebhookFail, submitVars
  <2> QED BY <1>1, <2>1
<1>3. ASSUME NEW m \in Runs, RunStep(m) \/ RunRaises(m) \/ WorkerLost(m) \/ RetryDoubled(m) PROVE SubmitMoves(s)
  <2>1. UNCHANGED <<submit, resubmits>> /\ crashes' \in {crashes, crashes + 1}
    BY <1>3, RunCut DEF RunStep, StartRun, Decide, SubmitNode, PersistResult, AckRun, submitVars
  <2> QED BY <1>1, <2>1
<1>4. ASSUME NEW r \in Reviews, (\E d \in Disputes, v \in Verdicts : ReviewRead(r, d, v)) \/ ReviewStep(r)
      PROVE  SubmitMoves(s)
  <2>1. UNCHANGED <<resubmits, crashes>>
    BY <1>4 DEF ReviewRead, ReviewStep, ReviewUpdate, ReviewCommit, ReviewFail, submitVars
  <2>2. \/ submit' = submit
        \/ submit[First(r)] = "none" /\ submit' = [submit EXCEPT ![First(r)] = "queued"]
    BY <1>4, SubmissionIds DEF IInv, ReviewsInv, ReviewRead, ReviewStep, ReviewUpdate, ReviewCommit,
       ReviewFail, submitVars
  <2>3. submit'[s] = submit[s] \/ (submit[s] = "none" /\ submit'[s] = "queued")
    BY <1>0, <2>2 DEF TypeOK
  <2>4. SubmitRank("queued") < SubmitRank("none")
    BY DEF SubmitRank
  <2> QED BY <1>0, <2>1, <2>3, <2>4 DEF SubmitMoves
<1>5. ASSUME NEW x \in Submissions, SubmitStep(x) PROVE SubmitMoves(s)
  <2>1. UNCHANGED <<resubmits, crashes>>
    BY <1>5 DEF SubmitStep, StartSubmit, Send
  <2>2. submit'[s] = submit[s] \/ SubmitRank(submit'[s]) < SubmitRank(submit[s])
    BY <1>0, <1>5 DEF TypeOK, SubmitStep, StartSubmit, Send, SubmitRank
  <2> QED BY <1>0, <2>1, <2>2 DEF SubmitMoves
<1>6. ASSUME NEW x \in Submissions, SubmitRaises(x) \/ SubmitWorkerLost(x) \/ ResubmitDoubled(x)
      PROVE  SubmitMoves(s)
  <2>1. CASE s = x
    <3>1. /\ submit[s] = "running"
          /\ \/ submit'[s] = "failed" /\ resubmits'[s] = resubmits[s] /\ crashes' \in {crashes, crashes + 1}
             \/ submit'[s] = "queued" /\ resubmits'[s] = resubmits[s] + 1 /\ crashes' = crashes
             \/ submit'[s] = "queued" /\ resubmits'[s] = resubmits[s] /\ crashes' = crashes + 1
      BY <1>6, <2>1, SubmitCut
    <3>2. SubmitRank("failed") < SubmitRank(submit[s])
      BY <3>1 DEF SubmitRank
    <3> QED BY <1>0, <3>1, <3>2 DEF SubmitMoves
  <2>2. CASE s # x
    <3>1. \/ submit'[s] = submit[s] /\ resubmits'[s] = resubmits[s]
          \/ submit[s] = "none" /\ submit'[s] = "queued"
      BY <1>6, <2>2, SubmitCutOthers
    <3>2. crashes' \in {crashes, crashes + 1}
      BY <1>6, SubmitCut
    <3>3. SubmitRank("queued") < SubmitRank("none")
      BY DEF SubmitRank
    <3>4. submit[s] = "none" => resubmits'[s] >= resubmits[s]
      BY <1>0 DEF IInv, MessagesInv, TypeOK
    <3> QED BY <1>0, <3>1, <3>2, <3>3, <3>4 DEF SubmitMoves
  <2> QED BY <2>1, <2>2
<1>7. CASE UNCHANGED vars
  BY <1>1, <1>7 DEF vars, submitVars
<1> QED BY <1>2, <1>3, <1>4, <1>5, <1>6, <1>7 DEF Next, Waiting

\* No interleaving of exceptions, retries, redelivered and doubled messages and lost
\* workers lets a message run for ever: what it has left is a natural number that
\* never grows, and shrinks whenever its task moves.
THEOREM TasksAreBounded ==
  Spec => /\ [](\A m \in Runs : RunStepsLeft(m) \in Nat)
          /\ [](\A s \in Submissions : SubmitStepsLeft(s) \in Nat)
          /\ TasksUseUp
<1>1. IInv => /\ \A m \in Runs : RunStepsLeft(m) \in Nat
              /\ \A s \in Submissions : SubmitStepsLeft(s) \in Nat
  BY StepsLeftTyped DEF IInv
<1>2. IInv /\ [Next]_vars =>
        (\A m \in Runs : RunUsesUp(m)) /\ (\A s \in Submissions : SubmitUsesUp(s))
  <2> SUFFICES ASSUME IInv, [Next]_vars
               PROVE  (\A m \in Runs : RunUsesUp(m)) /\ (\A s \in Submissions : SubmitUsesUp(s))
    OBVIOUS
  <2>1. TypeOK /\ TypeOK'
    BY InvNext DEF IInv
  <2>2. \A m \in Runs : RunUsesUp(m)
    BY <2>1, RunsMove, MovesUseUp
  <2>3. \A s \in Submissions : SubmitUsesUp(s)
    BY <2>1, SubmissionsMove, SubmitMovesUseUp
  <2> QED BY <2>2, <2>3
<1>3. IInv /\ [Next]_vars =>
        [(\A m \in Runs : RunUsesUp(m)) /\ (\A s \in Submissions : SubmitUsesUp(s))]_vars
  BY <1>2
<1> QED BY <1>1, <1>3, Invariance, PTL DEF Spec, TasksUseUp

-----------------------------------------------------------------------------
\* Nobody rewrites the audit trail or takes evidence back, and what goes out has
\* its reason before it goes.
THEOREM NothingIsRewritten == Spec => TrailAndEvidenceGrow
<1>1. IInv /\ [Next]_vars => \A d \in Disputes : EvidenceHasReason(d)
  <2> SUFFICES ASSUME IInv, [Next]_vars, NEW d \in Disputes PROVE EvidenceHasReason(d)
    OBVIOUS
  <2> USE DEF IInv, TypeOK, Disputes
  <2>1. audit[d] \subseteq audit'[d]
    BY AuditGrows
  <2>2. ASSUME NEW m \in Runs, SubmitNode(m) PROVE EvidenceHasReason(d)
    <3>1. record[m[1]] \in Disputes /\ Committed(record[m[1]]) /\ AutoSubmit
      BY <2>2, RunRecord DEF SubmitNode, RunsInv
    <3> QED BY <2>1, <2>2, <3>1 DEF SubmitNode, ProcessorAnswers, EvidenceHasReason
  <2>3. ASSUME NEW s \in Submissions, Send(s) \/ SubmitRaises(s) \/ SubmitWorkerLost(s) \/ ResubmitDoubled(s)
        PROVE  EvidenceHasReason(d)
    <3>1. submit[s] = "running" /\ ProcessorAnswers(target[s[1]], "human")
      BY <2>3, SubmitCut DEF Send
    <3>2. /\ target[s[1]] \in Disputes
          /\ Committed(target[s[1]]) /\ AskedForReview(target[s[1]]) /\ ApprovalPublished(target[s[1]])
      BY <3>1, SubmissionTarget
    <3>3. accepted' = accepted \/ accepted' = [accepted EXCEPT ![target[s[1]]] = @ \cup {"human"}]
      BY <3>1 DEF ProcessorAnswers
    <3> QED BY <2>1, <3>2, <3>3 DEF EvidenceHasReason
  <2>5. ASSUME NEW m \in Runs, RunRaises(m) \/ WorkerLost(m) \/ RetryDoubled(m)
        PROVE  EvidenceHasReason(d)
    <3>1. CutOff(m)
      BY <2>5, RunCut
    <3>2. CASE UNCHANGED accepted
      BY <2>1, <3>2 DEF EvidenceHasReason
    <3>3. CASE process[m] = "submitting" /\ ProcessorAnswers(record[m[1]], "agent")
      <4>1. record[m[1]] \in Disputes /\ Committed(record[m[1]]) /\ AutoSubmit
        BY <3>3, RunRecord DEF RunsInv
      <4>2. accepted' = accepted \/ accepted' = [accepted EXCEPT ![record[m[1]]] = @ \cup {"agent"}]
        BY <3>3 DEF ProcessorAnswers
      <4> QED BY <2>1, <4>1, <4>2 DEF EvidenceHasReason
    <3> QED BY <3>1, <3>2, <3>3 DEF CutOff
  <2>4. CASE UNCHANGED accepted
    BY <2>1, <2>4 DEF EvidenceHasReason
  <2> QED
    BY <2>2, <2>3, <2>4, <2>5
       DEF Next, WebhookStep, RunStep, ReviewStep, SubmitStep, Waiting, vars, WebhookIgnored,
           WebhookSelect, WebhookInsert, WebhookReuse, WebhookEnqueue, WebhookFail, StartRun,
           Decide, PersistResult, AckRun, ReviewRead, ReviewUpdate,
           ReviewCommit, ReviewFail, StartSubmit
<1>2. IInv /\ [Next]_vars => [\A d \in Disputes : EvidenceHasReason(d)]_vars
  BY <1>1
<1> QED BY <1>2, Invariance, PTL DEF Spec, TrailAndEvidenceGrow
=============================================================================
