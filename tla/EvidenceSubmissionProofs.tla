----------------------- MODULE EvidenceSubmissionProofs -----------------------
(***************************************************************************)
(* Proofs about EvidenceSubmission, for any runs, tasks, letters and       *)
(* retries.                                                                *)
(***************************************************************************)
EXTENDS EvidenceSubmission, TLAPS

\* The texts are told from None, and from each other where the code does.
LEMMA TextsFacts ==
  /\ None \notin Texts
  /\ Letters \subseteq Texts
  /\ Blank \in Texts
  /\ Placeholder \in Texts
  /\ Runs \subseteq Callers
  /\ Tasks \subseteq Callers
  /\ \A n \in Runs : n \notin Tasks
  /\ None \notin Callers \cup {"ok", "error"}
  /\ Blank \notin Letters
BY SubmissionAssumption DEF Texts, Callers

-----------------------------------------------------------------------------
(* Types.                                                                  *)

\* What each of the three ways to leave a connection alone or to use it does to
\* the types of the wire and the answers.
LEMMA PostType ==
  ASSUME TypeOK, NEW c \in Callers, NEW step \in Steps, NEW text \in Texts, Post(c, step, text)
  PROVE  wire' \in SUBSET Requests
BY DEF TypeOK, Post, Requests

LEMMA HangUpType ==
  ASSUME TypeOK, NEW c \in Callers, HangUp(c)
  PROVE  wire' \in SUBSET Requests /\ answer' \in [Callers -> {None, "ok", "error"}]
BY DEF TypeOK, HangUp, Requests

LEMMA ReplyType ==
  ASSUME TypeOK, NEW r \in wire, NEW a \in {"ok", "error"}, Reply(r, a)
  PROVE  wire' \in SUBSET Requests /\ answer' \in [Callers -> {None, "ok", "error"}]
BY DEF TypeOK, Reply, Requests

LEMMA TypeInit == Init => TypeOK
BY TextsFacts, SubmissionAssumption DEF Init, TypeOK, Callers

LEMMA TypeNext == TypeOK /\ [Next]_vars => TypeOK'
<1> SUFFICES ASSUME TypeOK, [Next]_vars PROVE TypeOK'
  OBVIOUS
<1> USE TextsFacts
<1>1. ASSUME NEW n \in Runs, RunStep(n) PROVE TypeOK'
  <2>1. ASSUME NEW l \in Letters, DraftAndSubmit(n, l) PROVE TypeOK'
    BY <2>1, PostType DEF DraftAndSubmit, TypeOK, Steps, rowVars, processorVars
  <2>2. ASSUME NEW l \in Letters \cup {Blank}, DraftForReview(n, l) PROVE TypeOK'
    BY <2>2 DEF DraftForReview, TypeOK, rowVars, processorVars
  <2>3. ASSUME Persist(n) PROVE TypeOK'
    BY <2>3 DEF Persist, TypeOK, TextOf, processorVars
  <2>4. ASSUME Drop(n) PROVE TypeOK'
    BY <2>4, HangUpType DEF Drop, TypeOK, rowVars, processorVars
  <2> QED BY <1>1, <2>1, <2>2, <2>3, <2>4 DEF RunStep
<1>2. ASSUME NEW t \in Tasks, Start(t) PROVE TypeOK'
  <2>1. TextOf(letter) \in Texts
    BY DEF TypeOK, TextOf
  <2>2. wire' \in SUBSET Requests
    BY <1>2, <2>1, PostType DEF Start, Steps
  <2> QED BY <1>2, <2>1, <2>2 DEF Start, TypeOK, Steps, rowVars, processorVars
<1>3. ASSUME NEW t \in Tasks, TaskLost(t) PROVE TypeOK'
  BY <1>3, HangUpType DEF TaskLost, TypeOK, rowVars, processorVars
<1>4. ASSUME NEW c \in Callers, CallStep(c) PROVE TypeOK'
  <2>1. ASSUME ReceiveSuccess(c) PROVE TypeOK'
    BY <2>1 DEF ReceiveSuccess, AfterCall, TypeOK, rowVars, processorVars
  <2>2. ASSUME ReceiveFirst(c) PROVE TypeOK'
    <3>1. wire' \in SUBSET Requests
      BY <2>2, PostType DEF ReceiveFirst, Steps, TypeOK
    <3> QED BY <2>2, <3>1 DEF ReceiveFirst, TypeOK, Steps, rowVars, processorVars
  <2>3. ASSUME ReceiveError(c) PROVE TypeOK'
    BY <2>3 DEF ReceiveError, AfterCall, TypeOK, rowVars, processorVars
  <2>4. ASSUME Raise(c) PROVE TypeOK'
    <3>1. wire' \in SUBSET Requests /\ answer' \in [Callers -> {None, "ok", "error"}]
      BY <2>4, HangUpType DEF Raise
    <3>2. retries' \in [Tasks -> 0..MaxRetries]
      BY <2>4, SubmissionAssumption DEF Raise, MayRetry, TypeOK, Callers
    <3> QED BY <2>4, <3>1, <3>2 DEF Raise, TypeOK, rowVars, processorVars
  <2> QED BY <1>4, <2>1, <2>2, <2>3, <2>4 DEF CallStep
<1>5. ASSUME Scrub PROVE TypeOK'
  BY <1>5 DEF Scrub, TypeOK, callVars, processorVars
<1>6. ASSUME ProcessorStep PROVE TypeOK'
  <2>1. ASSUME NEW r \in wire, Handle(r) PROVE TypeOK'
    <3>1. r.text \in Texts
      BY DEF TypeOK, Requests
    <3>2. saved' \in Texts \cup {None} /\ record' \in Texts \cup {None}
      BY <2>1, <3>1 DEF Handle, Effect, StripeTakes, SquareCreates, SquareSubmits, TextOf, TypeOK
    <3> QED BY <2>1, <3>2, ReplyType DEF Handle, TypeOK, rowVars, callVars
  <2>2. ASSUME NEW r \in wire, Repeat(r) PROVE TypeOK'
    BY <2>2, ReplyType DEF Repeat, TypeOK, rowVars, callVars, processorVars
  <2>3. ASSUME NEW r \in wire, Refuse(r) PROVE TypeOK'
    BY <2>3, ReplyType DEF Refuse, TypeOK, rowVars, callVars, processorVars
  <2>4. ASSUME ForgetKey PROVE TypeOK'
    BY <2>4 DEF ForgetKey, TypeOK, rowVars, callVars
  <2> QED BY <1>6, <2>1, <2>2, <2>3, <2>4 DEF ProcessorStep
<1>7. ASSUME UNCHANGED vars PROVE TypeOK'
  BY <1>7 DEF vars, rowVars, callVars, processorVars, TypeOK
<1> QED BY <1>1, <1>2, <1>3, <1>4, <1>5, <1>6, <1>7 DEF Next

\* Callers, row, wire and processor stay well formed and no task uses more than
\* its retries.
THEOREM TypeCorrect == Spec => []TypeOK
BY TypeInit, TypeNext, PTL DEF Spec
-----------------------------------------------------------------------------
(* The inductive invariant.                                                *)

LEMMA InvInit == Init => IInv
<1> SUFFICES ASSUME Init PROVE IInv
  OBVIOUS
<1>1. CallersInv
  BY TextsFacts DEF Init, CallersInv, Steps
<1>2. WireInv /\ TextsInv
  BY TextsFacts DEF Init, WireInv, TextsInv, Calling, Steps
<1>3. AnswersInv
  BY TextsFacts DEF Init, AnswersInv
<1> QED BY <1>1, <1>2, <1>3, TypeInit DEF IInv

\* The control of the callers.
LEMMA CallersNext == TypeOK /\ CallersInv /\ [Next]_vars => CallersInv'
<1> SUFFICES ASSUME TypeOK, CallersInv, [Next]_vars PROVE CallersInv'
  OBVIOUS
<1> USE TextsFacts
<1>1. ASSUME NEW n \in Runs, RunStep(n) PROVE CallersInv'
  <2>1. ASSUME NEW l \in Letters, DraftAndSubmit(n, l) PROVE CallersInv'
    BY <2>1 DEF DraftAndSubmit, CallersInv, TypeOK, Steps, rowVars
  <2>2. ASSUME NEW l \in Letters \cup {Blank}, DraftForReview(n, l) PROVE CallersInv'
    BY <2>2 DEF DraftForReview, CallersInv, TypeOK, Steps, rowVars
  <2>3. ASSUME Persist(n) PROVE CallersInv'
    <3>1. /\ \A m \in Runs : at'[m] \in Steps \cup {"persisting"} => draft'[m] \in Letters
          /\ \A m \in Runs : at'[m] \notin {"queued", "submitted", "refused", "failed", "lost"}
      BY <2>3 DEF Persist, CallersInv, TypeOK, Steps
    <3>2. \A t \in Tasks : at'[t] # "idle" => \E m \in Runs : at'[m] = "asked"
      BY <2>3 DEF Persist, CallersInv, TypeOK
    <3>3. TextOf(letter') \in filed' /\ (letter' # None => letter' \in filed')
      BY <2>3 DEF Persist, TextOf
    <3> QED BY <3>1, <3>2, <3>3 DEF CallersInv, TextOf
  <2>4. ASSUME Drop(n) PROVE CallersInv'
    BY <2>4 DEF Drop, CallersInv, TypeOK, Steps, rowVars
  <2> QED BY <1>1, <2>1, <2>2, <2>3, <2>4 DEF RunStep
<1>2. ASSUME NEW t \in Tasks, Start(t) PROVE CallersInv'
  BY <1>2 DEF Start, CallersInv, TypeOK, Steps, rowVars
<1>3. ASSUME NEW t \in Tasks, TaskLost(t) PROVE CallersInv'
  BY <1>3 DEF TaskLost, Calling, CallersInv, TypeOK, Steps, rowVars
<1>4. ASSUME NEW c \in Callers, CallStep(c) PROVE CallersInv'
  <2>1. ASSUME ReceiveSuccess(c) PROVE CallersInv'
    BY <2>1 DEF ReceiveSuccess, Succeeds, AfterCall, CallersInv, TypeOK, Steps, rowVars, Callers
  <2>2. ASSUME ReceiveFirst(c) PROVE CallersInv'
    BY <2>2 DEF ReceiveFirst, CallersInv, TypeOK, Steps, rowVars
  <2>3. ASSUME ReceiveError(c) PROVE CallersInv'
    BY <2>3 DEF ReceiveError, Calling, AfterCall, CallersInv, TypeOK, Steps, rowVars, Callers
  <2>4. ASSUME Raise(c) PROVE CallersInv'
    BY <2>4 DEF Raise, Calling, CallersInv, TypeOK, Steps, rowVars, Callers
  <2> QED BY <1>4, <2>1, <2>2, <2>3, <2>4 DEF CallStep
<1>5. ASSUME Scrub PROVE CallersInv'
  BY <1>5 DEF Scrub, CallersInv, TextOf, callVars
<1>6. ASSUME ProcessorStep PROVE CallersInv'
  BY <1>6 DEF ProcessorStep, Handle, Repeat, Refuse, ForgetKey, CallersInv, rowVars, callVars
<1>7. ASSUME UNCHANGED vars PROVE CallersInv'
  BY <1>7 DEF vars, rowVars, callVars, CallersInv
<1> QED BY <1>1, <1>2, <1>3, <1>4, <1>5, <1>6, <1>7 DEF Next

\* A text that is accounted for stays so: the row keeps its history, and a run
\* that commits has put its letter there.
LEMMA AccountedStays ==
  ASSUME TypeOK, CallersInv, [Next]_vars, NEW text, Accounted(text)
  PROVE  Accounted(text)'
<1> USE TextsFacts
<1>1. ASSUME NEW n \in Runs, RunStep(n) PROVE Accounted(text)'
  <2>1. ASSUME NEW l \in Letters, DraftAndSubmit(n, l) PROVE Accounted(text)'
    BY <2>1 DEF DraftAndSubmit, Accounted, TypeOK, Steps, rowVars
  <2>2. ASSUME NEW l \in Letters \cup {Blank}, DraftForReview(n, l) PROVE Accounted(text)'
    BY <2>2 DEF DraftForReview, Accounted, TypeOK, Steps, rowVars
  <2>3. ASSUME Persist(n) PROVE Accounted(text)'
    <3>1. CASE text \in filed
      BY <2>3, <3>1 DEF Persist, Accounted
    <3>2. CASE \E m \in Runs : draft[m] = text /\ at[m] \in Steps \cup {"persisting", "dropped"}
      <4>1. PICK m \in Runs : draft[m] = text /\ at[m] \in Steps \cup {"persisting", "dropped"}
        BY <3>2
      <4>2. CASE m # n
        BY <2>3, <4>1, <4>2 DEF Persist, Accounted, TypeOK
      <4>3. CASE m = n
        <5>1. draft[n] \in Letters
          BY <2>3, <4>1, <4>3 DEF Persist, CallersInv
        <5>2. letter' = text /\ text # None
          BY <2>3, <4>1, <4>3, <5>1 DEF Persist
        <5> QED BY <2>3, <5>2 DEF Persist, TextOf, Accounted
      <4> QED BY <4>2, <4>3
    <3> QED BY <3>1, <3>2 DEF Accounted
  <2>4. ASSUME Drop(n) PROVE Accounted(text)'
    <3>1. CASE text \in filed
      BY <2>4, <3>1 DEF Drop, Accounted, rowVars
    <3>2. CASE \E m \in Runs : draft[m] = text /\ at[m] \in Steps \cup {"persisting", "dropped"}
      BY <2>4, <3>2 DEF Drop, Accounted, TypeOK
    <3> QED BY <3>1, <3>2 DEF Accounted
  <2> QED BY <1>1, <2>1, <2>2, <2>3, <2>4 DEF RunStep
<1>2. ASSUME NEW t \in Tasks, Start(t) \/ TaskLost(t) PROVE Accounted(text)'
  BY <1>2 DEF Start, TaskLost, Accounted, TypeOK, rowVars
<1>4. ASSUME NEW c \in Callers, CallStep(c) PROVE Accounted(text)'
  <2>1. filed' = filed /\ draft' = draft
    BY <1>4 DEF CallStep, ReceiveSuccess, ReceiveFirst, ReceiveError, Raise, rowVars
  <2>2. \A m \in Runs : at'[m] # at[m] => at'[m] \in Steps \cup {"persisting", "dropped"}
    BY <1>4 DEF CallStep, ReceiveSuccess, ReceiveFirst, ReceiveError, Raise, AfterCall, TypeOK, Steps
  <2> QED BY <2>1, <2>2 DEF Accounted
<1>5. ASSUME Scrub PROVE Accounted(text)'
  BY <1>5 DEF Scrub, Accounted, callVars
<1>6. ASSUME ProcessorStep PROVE Accounted(text)'
  BY <1>6 DEF ProcessorStep, Handle, Repeat, Refuse, ForgetKey, Accounted, rowVars, callVars
<1>7. ASSUME UNCHANGED vars PROVE Accounted(text)'
  BY <1>7 DEF vars, rowVars, callVars, Accounted
<1> QED BY <1>1, <1>2, <1>4, <1>5, <1>6, <1>7 DEF Next

\* Whatever the processor stores was on the wire, and whatever is on the wire
\* its caller has just taken from its run or from the row.
LEMMA TextsNext == IInv /\ [Next]_vars => TextsInv'
<1> SUFFICES ASSUME IInv, [Next]_vars PROVE TextsInv'
  OBVIOUS
<1> USE TextsFacts DEF IInv
<1>0. \A text : Accounted(text) => Accounted(text)'
  BY AccountedStays
<1>1. ASSUME NEW n \in Runs, RunStep(n) PROVE TextsInv'
  <2>1. ASSUME NEW l \in Letters, DraftAndSubmit(n, l) PROVE TextsInv'
    <3>1. Accounted(l)'
      BY <2>1 DEF DraftAndSubmit, Accounted, TypeOK, Steps
    <3> QED BY <1>0, <2>1, <3>1 DEF DraftAndSubmit, TextsInv, Calling, TypeOK, processorVars
  <2>2. ASSUME NEW l \in Letters \cup {Blank}, DraftForReview(n, l) PROVE TextsInv'
    BY <1>0, <2>2 DEF DraftForReview, TextsInv, Calling, TypeOK, Steps, processorVars
  <2>3. ASSUME Persist(n) \/ Drop(n) PROVE TextsInv'
    BY <1>0, <2>3 DEF Persist, Drop, TextsInv, Calling, TypeOK, Steps, processorVars
  <2> QED BY <1>1, <2>1, <2>2, <2>3 DEF RunStep
<1>2. ASSUME NEW t \in Tasks, Start(t) PROVE TextsInv'
  <2>1. TextOf(letter) \in filed
    BY <1>2 DEF Start, CallersInv
  <2>2. Accounted(TextOf(letter))'
    BY <1>2, <2>1 DEF Start, Accounted, rowVars
  <2> QED BY <1>0, <1>2, <2>2 DEF Start, TextsInv, Calling, TypeOK, processorVars, rowVars
<1>3. ASSUME NEW t \in Tasks, TaskLost(t) PROVE TextsInv'
  BY <1>0, <1>3 DEF TaskLost, TextsInv, Calling, TypeOK, Steps, processorVars
<1>4. ASSUME NEW c \in Callers, CallStep(c) PROVE TextsInv'
  <2>1. saved' = saved /\ record' = record /\ draft' = draft
    BY <1>4 DEF CallStep, ReceiveSuccess, ReceiveFirst, ReceiveError, Raise, processorVars
  <2>2. \A b \in Callers : Calling(b)' => Calling(b)
    BY <1>4 DEF CallStep, ReceiveSuccess, ReceiveFirst, ReceiveError, Raise, AfterCall, Calling,
                TypeOK, Steps
  <2> QED BY <1>0, <2>1, <2>2 DEF TextsInv
<1>5. ASSUME Scrub PROVE TextsInv'
  BY <1>0, <1>5 DEF Scrub, TextsInv, Calling, callVars, processorVars
<1>6. ASSUME ProcessorStep PROVE TextsInv'
  <2>1. draft' = draft /\ at' = at
    BY <1>6 DEF ProcessorStep, Handle, Repeat, Refuse, ForgetKey, callVars
  <2>2. ASSUME NEW r \in wire, Handle(r) PROVE TextsInv'
    <3>1. Accounted(r.text)'
      <4>1. Accounted(r.text)
        BY DEF WireInv
      <4> QED BY <4>1, AccountedStays
    <3>2. saved' \in {saved, r.text} /\ record' \in {record, r.text, TextOf(saved)}
      BY <2>2 DEF Handle, Effect, StripeTakes, SquareCreates, SquareSubmits
    <3>3. record' = TextOf(saved) => record' = record \/ record' = r.text \/ saved # None
      BY <2>2 DEF Handle, Effect, StripeTakes, SquareCreates, SquareSubmits, AnswersInv
    <3> QED BY <1>0, <2>1, <3>1, <3>2, <3>3 DEF TextsInv, Calling, TextOf
  <2>3. ASSUME saved' \in {saved, None}, record' = record PROVE TextsInv'
    BY <1>0, <2>1, <2>3 DEF TextsInv, Calling
  <2> QED BY <1>6, <2>2, <2>3 DEF ProcessorStep, Repeat, Refuse, ForgetKey, processorVars
<1>7. ASSUME UNCHANGED vars PROVE TextsInv'
  BY <1>0, <1>7 DEF vars, callVars, processorVars, TextsInv, Calling
<1> QED BY <1>1, <1>2, <1>3, <1>4, <1>5, <1>6, <1>7 DEF Next
\* A caller posts once per connection and a connection given up on is closed.
LEMMA WireNext == IInv /\ [Next]_vars => WireInv'
<1> SUFFICES ASSUME IInv, [Next]_vars, NEW r \in wire'
             PROVE  /\ r.by # None => /\ r.step = at'[r.by]
                                      /\ r.text = draft'[r.by]
                                      /\ answer'[r.by] = None
                    /\ Accounted(r.text)'
  BY DEF WireInv
<1> USE TextsFacts DEF IInv
<1>0. \A text : Accounted(text) => Accounted(text)'
  BY AccountedStays
<1> DEFINE Good == /\ r.by # None => /\ r.step = at'[r.by]
                                     /\ r.text = draft'[r.by]
                                     /\ answer'[r.by] = None
                   /\ Accounted(r.text)'
<1>a. ASSUME NEW c \in Callers, NEW step \in Steps, NEW text \in Texts,
             Post(c, step, text), answer'[c] = None, at'[c] = step, draft'[c] = text,
             Accounted(text)',
             \A b \in Callers \ {c} : at'[b] = at[b] /\ draft'[b] = draft[b] /\ answer'[b] = answer[b],
             at[c] # at'[c], ~Calling(c) \/ answer[c] # None
      PROVE  Good
  <2>1. CASE r = [by |-> c, step |-> step, text |-> text]
    BY <1>a, <2>1
  <2>2. CASE r \in wire
    <3>1. r.by # c
      BY <1>a, <2>2 DEF WireInv, Calling, TypeOK, Requests
    <3> QED BY <1>0, <1>a, <2>2, <3>1 DEF WireInv, TypeOK, Requests
  <2> QED BY <1>a, <2>1, <2>2 DEF Post
<1>b. ASSUME NEW c \in Callers, HangUp(c), draft' = draft,
             \A b \in Callers \ {c} : at'[b] = at[b]
      PROVE  Good
  <2>1. PICK q \in wire : r = IF q.by = c THEN [by |-> None, step |-> q.step, text |-> q.text]
                              ELSE q
    BY <1>b DEF HangUp
  <2>2. Accounted(q.text)'
    BY <1>0 DEF WireInv
  <2>3. r.text = q.text /\ r.by # c
    BY <2>1
  <2>4. CASE q.by = c
    BY <2>1, <2>2, <2>4
  <2>5. CASE q.by # c
    BY <1>b, <2>1, <2>2, <2>5 DEF HangUp, WireInv, TypeOK, Requests
  <2> QED BY <2>4, <2>5
<1>c. ASSUME wire' \subseteq wire, draft' = draft,
             \A c \in Callers : at'[c] = at[c] \/ ~Calling(c) \/ answer[c] # None,
             \A c \in Callers : answer'[c] = answer[c] \/ (answer[c] # None)
      PROVE  Good
  <2>1. r \in wire /\ (r.by # None => r.by \in Callers)
    BY <1>c DEF TypeOK, Requests
  <2>2. r.by # None => answer[r.by] = None /\ Calling(r.by)
    BY <2>1 DEF WireInv, Calling, TypeOK, Requests
  <2> QED BY <1>0, <1>c, <2>1, <2>2 DEF WireInv
<1>1. ASSUME NEW n \in Runs, RunStep(n) PROVE Good
  <2>1. ASSUME NEW l \in Letters, DraftAndSubmit(n, l) PROVE Good
    <3>1. Accounted(l)'
      BY <2>1 DEF DraftAndSubmit, Accounted, TypeOK, Steps
    <3>2. answer[n] = None
      BY <2>1 DEF DraftAndSubmit, AnswersInv, Calling, Steps
    <3> QED BY <1>a, <2>1, <3>1, <3>2 DEF DraftAndSubmit, Calling, TypeOK, Steps
  <2>2. ASSUME NEW l \in Letters \cup {Blank}, DraftForReview(n, l) PROVE Good
    <3>1. r \in wire /\ r.by # n
      BY <2>2 DEF DraftForReview, WireInv, TypeOK, Requests, Steps
    <3> QED BY <1>0, <2>2, <3>1 DEF DraftForReview, WireInv, TypeOK, Requests
  <2>3. ASSUME Persist(n) PROVE Good
    BY <1>c, <2>3 DEF Persist, Calling, Steps, TypeOK
  <2>4. ASSUME Drop(n) PROVE Good
    BY <1>b, <2>4 DEF Drop, TypeOK
  <2> QED BY <1>1, <2>1, <2>2, <2>3, <2>4 DEF RunStep
<1>2. ASSUME NEW t \in Tasks, Start(t) PROVE Good
  <2>1. TextOf(letter) \in filed /\ TextOf(letter) \in Texts
    BY <1>2 DEF Start, CallersInv, TextOf, TypeOK
  <2>3. DEFINE text == TextOf(letter)
  <2>4. Accounted(text)'
    BY <1>2, <2>1 DEF Start, Accounted, rowVars
  <2>5. answer[t] = None /\ ~Calling(t)
    BY <1>2 DEF Start, AnswersInv, Calling, Steps
  <2>6. /\ Post(t, "first", text) /\ answer' = answer
        /\ at' = [at EXCEPT ![t] = "first"] /\ draft' = [draft EXCEPT ![t] = text]
    BY <1>2 DEF Start
  <2> QED BY <1>a, <1>2, <2>1, <2>4, <2>5, <2>6 DEF Calling, TypeOK, Steps, Start, rowVars
<1>3. ASSUME NEW t \in Tasks, TaskLost(t) PROVE Good
  BY <1>b, <1>3 DEF TaskLost, TypeOK
<1>4. ASSUME NEW c \in Callers, CallStep(c) PROVE Good
  <2>1. ASSUME ReceiveSuccess(c) \/ ReceiveError(c) PROVE Good
    BY <1>c, <2>1 DEF ReceiveSuccess, Succeeds, ReceiveError, TypeOK
  <2>2. ASSUME ReceiveFirst(c) PROVE Good
    <3>1. Accounted(draft[c])' /\ draft[c] \in Texts
      BY <1>0, <2>2 DEF ReceiveFirst, TextsInv, Calling, Steps, TypeOK
    <3> QED BY <1>a, <2>2, <3>1 DEF ReceiveFirst, TypeOK, Steps
  <2>3. ASSUME Raise(c) PROVE Good
    BY <1>b, <2>3 DEF Raise, TypeOK
  <2> QED BY <1>4, <2>1, <2>2, <2>3 DEF CallStep
<1>5. ASSUME Scrub PROVE Good
  BY <1>c, <1>5 DEF Scrub, callVars
<1>6. ASSUME ProcessorStep PROVE Good
  <2>1. ASSUME NEW q \in wire, NEW a \in {"ok", "error"}, Reply(q, a), UNCHANGED callVars
        PROVE  Good
    <3>1. r \in wire /\ r # q /\ draft' = draft /\ at' = at
      BY <2>1 DEF Reply, callVars
    <3>2. r.by = None \/ r.by # q.by
      <4>1. r \in Requests /\ q \in Requests
        BY <3>1 DEF TypeOK
      <4>2. SUFFICES ASSUME r.by # None, r.by = q.by PROVE r = q
        BY <3>1
      <4>3. r.step = q.step /\ r.text = q.text
        BY <3>1, <4>2 DEF WireInv
      <4> QED BY <4>1, <4>2, <4>3 DEF Requests
    <3>3. r.by # None => answer'[r.by] = answer[r.by]
      BY <2>1, <3>1, <3>2 DEF Reply, TypeOK, Requests
    <3> QED BY <1>0, <3>1, <3>3 DEF WireInv
  <2>2. ASSUME ForgetKey PROVE Good
    BY <1>c, <2>2 DEF ForgetKey, callVars
  <2> QED BY <1>6, <2>1, <2>2 DEF ProcessorStep, Handle, Repeat, Refuse
<1>7. ASSUME UNCHANGED vars PROVE Good
  BY <1>c, <1>7 DEF vars, callVars
<1> QED BY <1>1, <1>2, <1>3, <1>4, <1>5, <1>6, <1>7 DEF Next
\* An answer of success means what it says at the processor, because it belongs
\* to the request the caller waits for.
LEMMA AnswersNext == IInv /\ [Next]_vars => AnswersInv'
<1> SUFFICES ASSUME IInv, [Next]_vars PROVE AnswersInv'
  OBVIOUS
<1> USE TextsFacts DEF IInv
<1>1. ASSUME NEW n \in Runs, RunStep(n) PROVE AnswersInv'
  <2>1. ASSUME NEW l \in Letters, DraftAndSubmit(n, l) PROVE AnswersInv'
    <3>1. answer[n] = None
      BY <2>1 DEF DraftAndSubmit, AnswersInv, Calling, Steps
    <3> QED BY <2>1, <3>1 DEF DraftAndSubmit, Post, AnswersInv, Calling, TypeOK, Steps, processorVars
  <2>2. ASSUME NEW l \in Letters \cup {Blank}, DraftForReview(n, l) PROVE AnswersInv'
    <3>1. answer[n] = None
      BY <2>2 DEF DraftForReview, AnswersInv, Calling, Steps
    <3> QED BY <2>2, <3>1 DEF DraftForReview, AnswersInv, Calling, TypeOK, Steps, processorVars
  <2>3. ASSUME Persist(n) PROVE AnswersInv'
    <3>1. answer[n] = None
      BY <2>3 DEF Persist, AnswersInv, Calling, Steps
    <3> QED BY <2>3, <3>1 DEF Persist, AnswersInv, Calling, TypeOK, Steps, processorVars
  <2>4. ASSUME Drop(n) PROVE AnswersInv'
    BY <2>4 DEF Drop, HangUp, AnswersInv, Calling, TypeOK, Steps, processorVars
  <2> QED BY <1>1, <2>1, <2>2, <2>3, <2>4 DEF RunStep
<1>2. ASSUME NEW t \in Tasks, Start(t) PROVE AnswersInv'
  <2>1. answer[t] = None
    BY <1>2 DEF Start, AnswersInv, Calling, Steps
  <2> QED BY <1>2, <2>1 DEF Start, Post, AnswersInv, Calling, TypeOK, Steps, processorVars
<1>3. ASSUME NEW t \in Tasks, TaskLost(t) PROVE AnswersInv'
  BY <1>3 DEF TaskLost, HangUp, AnswersInv, Calling, TypeOK, Steps, processorVars
<1>4. ASSUME NEW c \in Callers, CallStep(c) PROVE AnswersInv'
  <2>1. ASSUME ReceiveSuccess(c) \/ ReceiveError(c) PROVE AnswersInv'
    BY <2>1 DEF ReceiveSuccess, ReceiveError, AfterCall, AnswersInv, Calling, TypeOK, Steps,
                processorVars
  <2>2. ASSUME ReceiveFirst(c) PROVE AnswersInv'
    BY <2>2 DEF ReceiveFirst, Post, AnswersInv, Calling, TypeOK, Steps, processorVars
  <2>3. ASSUME Raise(c) PROVE AnswersInv'
    BY <2>3 DEF Raise, HangUp, AnswersInv, Calling, TypeOK, Steps, processorVars
  <2> QED BY <1>4, <2>1, <2>2, <2>3 DEF CallStep
<1>5. ASSUME Scrub PROVE AnswersInv'
  BY <1>5 DEF Scrub, AnswersInv, Calling, callVars, processorVars
<1>6. ASSUME ProcessorStep PROVE AnswersInv'
  <2>1. ASSUME NEW r \in wire, NEW a \in {"ok", "error"}, Reply(r, a), UNCHANGED <<processor, callVars>>,
               processor = "stripe" => /\ saved' # None => record' = saved'
                                       /\ record # None => record' = record
                                       /\ a = "ok" => record' = r.text,
               processor = "square" => /\ saved # None => saved' = saved
                                       /\ record # None => record' = record
                                       /\ r.step = "first" /\ a = "ok" => saved' # None
                                       /\ r.step = "second" /\ a = "ok" => record' # None
        PROVE  AnswersInv'
    <3>1. r \in Requests
      BY DEF TypeOK
    <3>2. /\ at' = at /\ draft' = draft /\ processor' = processor /\ wire' \subseteq wire
          /\ \A c \in Callers : answer'[c] = answer[c] \/ (c = r.by /\ answer'[c] = a)
      <4>1. at' = at /\ draft' = draft /\ processor' = processor
        BY <2>1 DEF callVars
      <4>2. wire' \subseteq wire
        BY <2>1 DEF Reply
      <4>3. \A c \in Callers : answer'[c] = answer[c] \/ (c = r.by /\ answer'[c] = a)
        <5>1. CASE r.by = None
          BY <2>1, <5>1 DEF Reply
        <5>2. CASE r.by # None
          <6>1. answer' = [answer EXCEPT ![r.by] = a]
            BY <2>1, <5>2 DEF Reply
          <6> QED BY <6>1 DEF TypeOK
        <5> QED BY <5>1, <5>2
      <4> QED BY <4>1, <4>2, <4>3
    <3>3. \A c \in Callers : c = r.by => c # None /\ at[c] = r.step /\ draft[c] = r.text
      BY <3>1 DEF WireInv
    <3>4. \A c \in Callers : answer'[c] # None => Calling(c)'
      BY <3>1, <3>2, <3>3 DEF AnswersInv, Calling, Requests
    <3>5. CASE processor = "stripe"
      <4>1. \A c \in Callers : answer[c] = "ok" => record' = draft[c]
        BY <2>1, <3>5 DEF AnswersInv, TypeOK
      <4> QED BY <2>1, <3>2, <3>3, <3>4, <3>5, <4>1 DEF AnswersInv
    <3>6. CASE processor = "square"
      BY <2>1, <3>1, <3>2, <3>3, <3>4, <3>6 DEF AnswersInv, Requests, Steps
    <3> QED BY <3>5, <3>6 DEF TypeOK
  <2>2. ASSUME NEW r \in wire, Handle(r) PROVE AnswersInv'
    <3>1. r.text # None
      BY DEF TypeOK, Requests
    <3>2. CASE processor = "stripe"
      BY <2>1, <2>2, <3>1, <3>2 DEF Handle, Effect, StripeTakes, rowVars, callVars
    <3>3. CASE processor = "square"
      <4>1. r.step = "second" => saved # None
        BY <3>3 DEF AnswersInv
      <4>2. r.step = "first" => SquareCreates(r.text)
        BY <2>2, <3>3 DEF Handle, Effect
      <4>3. r.step = "second" => SquareSubmits
        BY <2>2, <3>3 DEF Handle, Effect
      <4>4. r.step \in Steps
        BY DEF TypeOK, Requests
      <4> QED BY <2>1, <2>2, <3>1, <3>3, <4>1, <4>2, <4>3, <4>4
              DEF Handle, SquareCreates, SquareSubmits, TextOf, Steps, rowVars, callVars
    <3> QED BY <3>2, <3>3 DEF TypeOK
  <2>3. ASSUME NEW r \in wire, Repeat(r) PROVE AnswersInv'
    <3>1. r.text # None /\ r.step \in Steps
      BY DEF TypeOK, Requests
    <3> QED BY <2>1, <2>3, <3>1
            DEF Repeat, Replays, AnswersInv, Steps, rowVars, callVars, processorVars
  <2>4. ASSUME NEW r \in wire, Refuse(r) PROVE AnswersInv'
    BY <2>1, <2>4 DEF Refuse, AnswersInv, rowVars, callVars, processorVars
  <2>5. ASSUME ForgetKey PROVE AnswersInv'
    BY <2>5 DEF ForgetKey, AnswersInv, Calling, callVars
  <2> QED BY <1>6, <2>2, <2>3, <2>4, <2>5 DEF ProcessorStep
<1>7. ASSUME UNCHANGED vars PROVE AnswersInv'
  BY <1>7 DEF vars, callVars, processorVars, AnswersInv, Calling
<1> QED BY <1>1, <1>2, <1>3, <1>4, <1>5, <1>6, <1>7 DEF Next

LEMMA InvNext == IInv /\ [Next]_vars => IInv'
BY TypeNext, CallersNext, WireNext, TextsNext, AnswersNext DEF IInv

LEMMA Invariance == Spec => []IInv
BY InvInit, InvNext, PTL DEF Spec

\* The processor's evidence was in the row or was sent by a run whose transaction
\* did not get there.
THEOREM EvidenceFiled == Spec => []EvidenceIsFiled
<1>1. IInv => EvidenceIsFiled
  BY DEF IInv, TextsInv, EvidenceIsFiled
<1> QED BY <1>1, Invariance, PTL

-----------------------------------------------------------------------------
(* The adapters implement SubmissionPromise.                               *)

LEMMA PromiseInit == Init => Promise!Init
BY DEF Init, Promise!Init

\* Only two kinds of steps show: the processor puts a text on record, or a
\* caller finds the answer of success to its last request.
LEMMA PromiseNext ==
  IInv /\ [Next]_vars => [Promise!Next]_<<processor = "stripe", record, reported>>
<1> SUFFICES ASSUME IInv, [Next]_vars
             PROVE  Promise!Next \/ UNCHANGED <<processor = "stripe", record, reported>>
  OBVIOUS
<1> USE TextsFacts DEF IInv
<1>0. processor' = processor
  BY DEF Next, RunStep, CallStep, ProcessorStep, DraftAndSubmit, DraftForReview, Persist, Drop,
         Start, TaskLost, ReceiveSuccess, ReceiveFirst, ReceiveError, Raise, Scrub, Handle,
         Repeat, Refuse, ForgetKey, vars
<1>1. ASSUME NEW c \in Callers, ReceiveSuccess(c) PROVE Promise!Next
  <2>1. draft[c] \in Texts
    BY DEF TypeOK
  <2>2. record # None /\ (processor = "stripe" => draft[c] = record)
    BY <1>1, <2>1 DEF ReceiveSuccess, Succeeds, AnswersInv, TypeOK
  <2> QED BY <1>0, <1>1, <2>1, <2>2 DEF ReceiveSuccess, processorVars, Promise!Next, Promise!Report
<1>2. ASSUME NEW r \in wire, Handle(r)
      PROVE  Promise!Next \/ UNCHANGED <<processor = "stripe", record, reported>>
  <2>1. record' # record => record = None /\ record' \in Texts
    BY <1>2 DEF Handle, Effect, StripeTakes, SquareCreates, SquareSubmits, TextOf, TypeOK, Requests
  <2> QED BY <1>0, <1>2, <2>1 DEF Handle, Promise!Next, Promise!Accept
<1>3. \/ \E c \in Callers : ReceiveSuccess(c)
      \/ \E r \in wire : Handle(r)
      \/ UNCHANGED <<record, reported>>
  BY DEF Next, RunStep, CallStep, ProcessorStep, DraftAndSubmit, DraftForReview, Persist, Drop,
         Start, TaskLost, ReceiveFirst, ReceiveError, Raise, Scrub, Repeat, Refuse, ForgetKey,
         vars, processorVars
<1> QED BY <1>0, <1>1, <1>2, <1>3

\* One text goes on record and stays, and success is answered only when it is
\* there, for the text itself where the processor compares.
THEOREM PromiseKept == Spec => KeepsPromise
BY PromiseInit, PromiseNext, Invariance, PTL DEF Spec, KeepsPromise, Promise!Spec

\* The promise is enough for a caller that was answered with success, so the
\* refinement gives it to the callers of the adapters.
THEOREM SuccessIsOnRecord == Spec => []ReportedIsOnRecord
<1>1. Promise!Init => ReportedIsOnRecord
  BY DEF Promise!Init, ReportedIsOnRecord
<1>2. ReportedIsOnRecord /\ [Promise!Next]_<<processor = "stripe", record, reported>> => ReportedIsOnRecord'
  <2> SUFFICES ASSUME ReportedIsOnRecord, [Promise!Next]_<<processor = "stripe", record, reported>>
               PROVE  ReportedIsOnRecord'
    OBVIOUS
  <2> USE DEF ReportedIsOnRecord
  <2>1. (processor = "stripe")' = (processor = "stripe")
    BY DEF Promise!Next, Promise!Accept, Promise!Report
  <2>2. CASE Promise!Accept
    BY <2>1, <2>2, SubmissionAssumption DEF Promise!Accept
  <2>3. CASE Promise!Report
    BY <2>1, <2>3 DEF Promise!Report
  <2>4. CASE UNCHANGED <<processor = "stripe", record, reported>>
    BY <2>1, <2>4
  <2> QED BY <2>2, <2>3, <2>4 DEF Promise!Next
<1>3. Promise!Spec => []ReportedIsOnRecord
  BY <1>1, <1>2, PTL DEF Promise!Spec
<1> QED BY <1>3, PromiseKept DEF KeepsPromise
=============================================================================
