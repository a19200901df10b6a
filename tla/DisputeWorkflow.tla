-------------------------- MODULE DisputeWorkflow ---------------------------
(***************************************************************************)
(* One run of the agent graph: scorer, evidence collector, evidence        *)
(* writer, decision engine and, after auto_submit only, submitter.  A node *)
(* is a step for each attempt at a call that is decorated with retry, and  *)
(* one for the rest; what the services it awaits may answer is the choice  *)
(* it makes.  The state dictionary keeps every key from initial_state on,  *)
(* so a result that is missing is None and not absent.  The soft time      *)
(* limit of the task may end the run at any of its awaits.                 *)
(***************************************************************************)
EXTENDS Evidence

CONSTANT None

ASSUME WorkflowAssumption ==
  None \notin Strengths \cup {"auto_submit", "human_review", "generated", "template", "empty"}

VARIABLES
  processor,    \* payment_processor of the chargeback
  autoSubmit,   \* settings.ff_auto_submit_disputes
  llmWriter,    \* settings.ff_llm_evidence_writer
  node,         \* the node that runs next, or how the run ended
  tries,        \* failed attempts at its call so far
  transaction,  \* what the scorer fetched: no transaction or one
  score,        \* its score: none or one
  items,        \* evidence_items
  strength,     \* evidence_strength
  letter,       \* where dispute_letter came from
  errors,       \* whether state["errors"] holds anything
  decision,
  sent          \* whether the processor accepted the evidence

settings == <<processor, autoSubmit, llmWriter>>
vars == <<settings, node, tries, transaction, score, items, strength, letter, errors, decision, sent>>

Processors == {"stripe", "square", "toast"}

Init ==
  /\ processor \in Processors
  /\ autoSubmit \in BOOLEAN
  /\ llmWriter \in BOOLEAN
  /\ node = "transaction_scorer"
  /\ tries = 0
  /\ transaction = {}
  /\ score = {}
  /\ items = {}
  /\ strength = None
  /\ letter = None
  /\ errors = FALSE
  /\ decision = None
  /\ sent = FALSE

\* The next node starts with attempts of its own.
GoTo(next) == node' = next /\ tries' = 0

\* What the adapters fetch.  Their data has no device signals and no order, and
\* the scorer builds its TransactionEvent without them; the sandbox mock of Toast
\* calls every transaction card-present.
Fetched ==
  {txn \in Transactions : /\ ~txn.located /\ ~txn.tipped /\ ~txn.itemized
                           /\ processor = "toast" => txn.present}

\* The checks raw_metadata may show: only the Stripe adapter fills it from the
\* processor's data.
Checks == IF processor = "stripe" THEN ProcessorChecks ELSE {}

-----------------------------------------------------------------------------
(* Attempts: @retry with stop_after_attempt(3), around fetch_transaction   *)
(* of Stripe and Square and around generate.  A failed attempt leaves no   *)
(* trace in the state.  The decorator of submit_dispute_evidence never     *)
(* sees an exception it would retry (EvidenceSubmission).                  *)

Attempts == 3

\* Mutant: no limit to the attempts.
FetchKeepsTrying ==
  /\ node \in {"transaction_scorer", "evidence_collector"}
  /\ processor # "toast"
  /\ tries' = (tries + 1) % Attempts
  /\ UNCHANGED <<settings, node, transaction, score, items, strength, letter, errors, decision, sent>>

\* A 5xx answer becomes a PaymentAdapterError that is retryable; 429, which
\* _is_retryable lists, becomes one that is not.
FetchAgain ==
  /\ node \in {"transaction_scorer", "evidence_collector"}
  /\ processor # "toast"
  /\ tries + 1 < Attempts
  /\ tries' = tries + 1
  /\ UNCHANGED <<settings, node, transaction, score, items, strength, letter, errors, decision, sent>>

\* Any exception of the provider's client is retried.
GenerateAgain ==
  /\ node = "evidence_writer"
  /\ llmWriter
  /\ score # {}
  /\ tries + 1 < Attempts
  /\ tries' = tries + 1
  /\ UNCHANGED <<settings, node, transaction, score, items, strength, letter, errors, decision, sent>>

-----------------------------------------------------------------------------
(* The nodes.                                                              *)

Scored ==
  /\ node = "transaction_scorer"
  /\ GoTo("evidence_collector")
  /\ \E txn \in Fetched, s \in Scores : transaction' = {txn} /\ score' = {s}
  /\ UNCHANGED <<settings, items, strength, letter, errors, decision, sent>>

\* The processor does not know the transaction, does not answer, answers with an
\* error at the last attempt or one that is not retried, or gives a token that
\* TransactionEvent refuses; Toast's production environment is not implemented.
ScorerFails ==
  /\ node = "transaction_scorer"
  /\ GoTo("evidence_collector")
  /\ errors' = TRUE
  /\ UNCHANGED <<settings, transaction, score, items, strength, letter, decision, sent>>

\* The collector asks the processor again; what goes wrong there costs its
\* checks only.
Collected ==
  /\ node = "evidence_collector"
  /\ GoTo("evidence_writer")
  /\ \E checks \in SUBSET Checks : items' = Collect(transaction, score, checks)
  /\ strength' = StrengthOf(items')
  /\ UNCHANGED <<settings, transaction, score, letter, errors, decision, sent>>

CollectorFails ==
  /\ node = "evidence_collector"
  /\ GoTo("evidence_writer")
  /\ errors' = TRUE
  /\ UNCHANGED <<settings, transaction, score, items, strength, letter, decision, sent>>

\* With the flag off the letter is the template.
WroteTemplate ==
  /\ node = "evidence_writer"
  /\ ~llmWriter
  /\ GoTo("decision_engine")
  /\ letter' = "template"
  /\ UNCHANGED <<settings, transaction, score, items, strength, errors, decision, sent>>

\* content or "": the model may answer nothing.
ModelAnswers == {"generated", "empty"}

\* The prompt quotes the score, so it takes one.
Wrote ==
  /\ node = "evidence_writer"
  /\ llmWriter
  /\ score # {}
  /\ GoTo("decision_engine")
  /\ letter' \in ModelAnswers
  /\ UNCHANGED <<settings, transaction, score, items, strength, errors, decision, sent>>

\* Any exception, the missing score included: the template, and an error.
WriterFallsBack ==
  /\ node = "evidence_writer"
  /\ llmWriter
  /\ GoTo("decision_engine")
  /\ letter' = "template"
  /\ errors' = TRUE
  /\ UNCHANGED <<settings, transaction, score, items, strength, decision, sent>>

\* Mutants: a run with errors may submit, the flag is not looked at, a dispute
\* without evidence is declined.
DecisionDespiteErrors ==
  IF (\A s \in score : s.band = "legitimate") /\ strength = "high" /\ letter # "empty" /\ autoSubmit
  THEN "auto_submit" ELSE "human_review"
DecisionWithoutFlag ==
  IF (\A s \in score : s.band = "legitimate") /\ strength = "high" /\ letter # "empty" /\ ~errors
  THEN "auto_submit" ELSE "human_review"
DecisionDeclines == IF strength = "insufficient" THEN "decline_dispute" ELSE "human_review"

\* The decision of the engine; only two of its branches differ in the decision.
Decision ==
  IF /\ \A s \in score : s.band = "legitimate"
     /\ strength = "high"
     /\ letter # "empty"
     /\ ~errors
     /\ autoSubmit
  THEN "auto_submit" ELSE "human_review"

\* Mutant: a plain edge to the submitter instead of the conditional one.
DecidedUnrouted ==
  /\ node = "decision_engine"
  /\ score # {}
  /\ decision' = Decision
  /\ node' = "dispute_submitter"
  /\ UNCHANGED <<settings, tries, transaction, score, items, strength, letter, errors, sent>>

\* route_after_decision goes on to the submitter after auto_submit only.
Decided ==
  /\ node = "decision_engine"
  /\ score # {}
  /\ decision' = Decision
  /\ node' = IF Decision = "auto_submit" THEN "dispute_submitter" ELSE "returned"
  /\ UNCHANGED <<settings, tries, transaction, score, items, strength, letter, errors, sent>>

\* Mutant: without a score the engine has nothing to decide on and returns.
EngineSkips ==
  /\ node = "decision_engine"
  /\ score = {}
  /\ node' = "returned"
  /\ UNCHANGED <<settings, tries, transaction, score, items, strength, letter, errors, decision, sent>>

\* state.get("fraud_score_result", {}) is None after a failure of the scorer, and
\* None has no get: the exception leaves the graph.
EngineRaises ==
  /\ node = "decision_engine"
  /\ score = {}
  /\ node' = "raised"
  /\ UNCHANGED <<settings, tries, transaction, score, items, strength, letter, errors, decision, sent>>

Submitted ==
  /\ node = "dispute_submitter"
  /\ node' = "returned"
  /\ sent' = TRUE
  /\ UNCHANGED <<settings, tries, transaction, score, items, strength, letter, errors, decision>>

\* Refused, or an exception after which the processor may have the evidence.
SubmissionFails ==
  /\ node = "dispute_submitter"
  /\ node' = "returned"
  /\ errors' = TRUE
  /\ sent' \in BOOLEAN
  /\ UNCHANGED <<settings, tries, transaction, score, items, strength, letter, decision>>

\* The nodes a run may end in: run_dispute_workflow returned the state, the engine
\* raised, or the exception of the time limit left the event loop.
Ends == {"returned", "raised", "interrupted"}

\* The soft time limit of the task strikes while the event loop waits for a service:
\* the exception leaves run_until_complete and not the node, and the state is lost.
\* Evidence that was being sent may arrive.  (Inside a node it is an exception like
\* the others, and one of the failures above.)
TimeLimit ==
  /\ node \notin Ends
  /\ node' = "interrupted"
  /\ sent' \in {sent, sent \/ node = "dispute_submitter"}
  /\ UNCHANGED <<settings, tries, transaction, score, items, strength, letter, errors, decision>>

Ended == node \in Ends /\ UNCHANGED vars

Next ==
  \/ FetchAgain \/ GenerateAgain
  \/ Scored \/ ScorerFails
  \/ Collected \/ CollectorFails
  \/ WroteTemplate \/ Wrote \/ WriterFallsBack
  \/ Decided \/ EngineRaises
  \/ Submitted \/ SubmissionFails
  \/ TimeLimit
  \/ Ended

\* Every attempt returns: the clients it awaits have timeouts.
Spec == Init /\ [][Next]_vars /\ WF_vars(Next)

-----------------------------------------------------------------------------
(* What the run promises to the task that executes it.                     *)

Nodes == {"transaction_scorer", "evidence_collector", "evidence_writer", "decision_engine",
          "dispute_submitter"} \cup Ends

\* The workflow state is well formed after every node.
TypeOK ==
  /\ processor \in Processors
  /\ autoSubmit \in BOOLEAN /\ llmWriter \in BOOLEAN
  /\ node \in Nodes
  /\ tries \in 0..(Attempts - 1)
  /\ transaction \in SUBSET Transactions
  /\ score \in SUBSET Scores
  /\ items \in SUBSET ItemTypes
  /\ strength \in Strengths \cup {None}
  /\ letter \in {"generated", "template", "empty", None}
  /\ errors \in BOOLEAN
  /\ decision \in {"auto_submit", "human_review", None}
  /\ sent \in BOOLEAN

\* What the card reader or the processor verified.
Verified == ProcessorChecks \cup {"card_present_verification"}

\* The agent submits on its own only with a verification made outside the
\* fraud model in hand and a letter that is not a fallback: a good score and a
\* quiet history, which are all that the model itself contributes, are not
\* enough for "high", and neither is a run in which any node failed.  With Square
\* and Toast, whose adapters pass on no checks, it takes a card-present payment.
AutoSubmitIsEarned ==
  decision = "auto_submit" =>
    /\ items \cap Verified # {}
    /\ processor # "stripe" => "card_present_verification" \in items
    /\ letter = IF llmWriter THEN "generated" ELSE "template"
    /\ autoSubmit

\* What _persist_workflow_result is handed always holds a decision.  A run that ends
\* without one has left no evidence with the processor, with one exception: the time
\* limit may strike in the submitter, and then the evidence of a decision that nobody
\* records is out.  An exception of a node never has this effect.
DecidesOrRaises ==
  /\ node = "returned" => decision # None
  /\ node = "raised" => decision = None /\ errors /\ ~sent
  /\ sent => decision = "auto_submit" /\ node \in {"returned", "interrupted"}

\* With ff_auto_submit_disputes off a run leaves the processor alone.
OffMeansReview == ~autoSubmit => ~sent /\ decision # "auto_submit"

\* The run as the task sees it.
Phase ==
  CASE node = "dispute_submitter" -> "submitting"
    [] node = "returned" -> "returned"
    [] node \in {"raised", "interrupted"} -> "raised"
    [] OTHER -> "deciding"

\* The decision as the task gets it: the state of a run that raised is lost.
Handed == IF Phase = "raised" THEN None ELSE decision

Run == INSTANCE AgentRun WITH
  flag <- autoSubmit, phase <- Phase, decision <- Handed, taken <- sent

\* However its nodes fail, their attempts are repeated, their results go missing and
\* the time limit strikes, the graph shows the task nothing but one run of AgentRun:
\* nothing is sent before the decision to send it, nor without the flag.
KeepsRun == Run!Spec

\* Every run comes to an end, whatever fails and is tried again, and whether or not
\* the time limit ever strikes.
RunEnds == <>(node \in Ends)

\* The steps a run may still take: every failed attempt and every node costs one.
NodesLeft ==
  [transaction_scorer |-> 5, evidence_collector |-> 4, evidence_writer |-> 3,
   decision_engine |-> 2, dispute_submitter |-> 1, returned |-> 0, raised |-> 0,
   interrupted |-> 0][node]
StepsLeft == Attempts * NodesLeft + (Attempts - 1 - tries)

\* No failure, attempt or node ever gives a run back what it has used up.
Advances == [][StepsLeft' < StepsLeft]_vars

-----------------------------------------------------------------------------
(* What the documents say of a scorer error and the code does not do.      *)

\* docs/ARCHITECTURE.md goes on with partial data after a scorer error, and
\* test_workflow_human_review_on_error expects human_review; the engine raises.
ScorerErrorIsReviewed == node \in {"returned", "raised"} /\ score = {} => decision = "human_review"

-----------------------------------------------------------------------------
(* The inductive invariant behind the promises: what each node leaves for  *)
(* the ones after it.                                                      *)

\* The strength is that of the items; a run without a score has recorded why;
\* a letter exists from the writer on and betrays a fallback by an error.
NodesInv ==
  /\ processor # "stripe" => items \cap ProcessorChecks = {}
  /\ strength # None => strength = StrengthOf(items)
  /\ node \notin {"transaction_scorer", "interrupted"} /\ score = {} => errors
  /\ node \in {"decision_engine", "dispute_submitter", "returned"} => letter # None
  /\ letter \in {"generated", "empty"} => llmWriter
  /\ llmWriter /\ letter = "template" => errors

\* The decision is there from the engine on, and only the submitter sends
\* anything, as the last node.
DecisionInv ==
  /\ node \in {"dispute_submitter", "returned"} => decision # None
  /\ decision # None => node \in {"dispute_submitter", "returned", "interrupted"}
  /\ node = "dispute_submitter" => decision = "auto_submit"
  /\ node = "raised" => errors
  /\ sent => decision = "auto_submit" /\ node \in {"returned", "interrupted"}

IInv == TypeOK /\ NodesInv /\ DecisionInv /\ AutoSubmitIsEarned
=============================================================================
