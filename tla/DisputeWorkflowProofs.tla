------------------------ MODULE DisputeWorkflowProofs -----------------------
(***************************************************************************)
(* What a run of the agent graph may do, whatever its flags and however   *)
(* often its calls are tried.                                              *)
(***************************************************************************)
EXTENDS DisputeWorkflow, FiniteSetTheorems, TLAPS

\* The types of evidence, and which of them are of high strength.
LEMMA ItemFacts ==
  /\ ItemTypes = {"card_present_verification", "geolocation_match", "low_fraud_risk_assessment",
                  "no_behavioral_anomalies", "avs_match", "cvv_match", "three_ds_authenticated",
                  "tip_present", "order_receipt"}
  /\ \A t \in ItemTypes : ItemStrength[t] = "high" <=> t \in Verified
<1>1. ItemTypes = {"card_present_verification", "geolocation_match", "low_fraud_risk_assessment",
                   "no_behavioral_anomalies", "avs_match", "cvv_match", "three_ds_authenticated",
                   "tip_present", "order_receipt"}
  BY DEF ItemTypes, ItemStrength
<1> QED
  BY <1>1 DEF ItemStrength, Verified, ProcessorChecks

\* The number of items of a strength is a number.
LEMMA CountIsNat ==
  ASSUME NEW S \in SUBSET ItemTypes, NEW s PROVE Count(S, s) \in Nat
<1> DEFINE T == {t \in S : ItemStrength[t] = s}
<1>1. \A x, y, z : IsFiniteSet({x, y, z})
  <2> SUFFICES ASSUME NEW x, NEW y, NEW z PROVE IsFiniteSet({x, y, z})
    OBVIOUS
  <2>1. IsFiniteSet({x}) /\ IsFiniteSet({y}) /\ IsFiniteSet({z})
    BY FS_Singleton, Zenon
  <2>2. IsFiniteSet(({x} \cup {y}) \cup {z})
    BY <2>1, FS_Union, Zenon
  <2>3. {x, y, z} = ({x} \cup {y}) \cup {z}
    OBVIOUS
  <2> QED
    BY <2>2, <2>3
<1>2. IsFiniteSet(ItemTypes)
  <2> DEFINE A == {"card_present_verification", "geolocation_match", "low_fraud_risk_assessment"}
             B == {"no_behavioral_anomalies", "avs_match", "cvv_match"}
             C == {"three_ds_authenticated", "tip_present", "order_receipt"}
  <2>1. IsFiniteSet(A) /\ IsFiniteSet(B) /\ IsFiniteSet(C)
    BY <1>1, Zenon
  <2>2. IsFiniteSet((A \cup B) \cup C)
    BY <2>1, FS_Union, Zenon
  <2>3. ItemTypes = (A \cup B) \cup C
    BY ItemFacts
  <2> QED
    BY <2>2, <2>3, Zenon
<1>3. IsFiniteSet(T)
  <2>1. T \subseteq ItemTypes
    OBVIOUS
  <2> QED
    BY <1>2, <2>1, FS_Subset, Zenon
<1> QED
  BY <1>3, FS_CardinalityType DEF Count

\* Items of which none is a verification are not "high" together.
LEMMA UnverifiedIsNotHigh ==
  ASSUME NEW S \in SUBSET ItemTypes, S \cap Verified = {} PROVE StrengthOf(S) # "high"
<1>1. {t \in S : ItemStrength[t] = "high"} = {}
  BY ItemFacts
<1>2. Count(S, "high") = 0
  BY <1>1, FS_EmptySet DEF Count
<1>3. \A s : Count(S, s) \in Nat
  BY CountIsNat
<1>4. \A m, l, i \in Nat : Assess(0, m, l, i) # "high"
  BY DEF Assess
<1> QED
  BY <1>2, <1>3, <1>4 DEF StrengthOf

\* The strength of any collection is one of the four.
LEMMA StrengthTyped == \A S : StrengthOf(S) \in Strengths
BY DEF StrengthOf, Assess, Strengths

\* What the collector gathers from any transaction and any score are items.
LEMMA CollectTyped ==
  ASSUME NEW txns \in SUBSET Transactions, NEW scores \in SUBSET Scores,
         NEW checks \in SUBSET ProcessorChecks
  PROVE  Collect(txns, scores, checks) \in SUBSET ItemTypes
<1>1. \A t \in txns : TransactionEvidence(t) \cup OrderEvidence(t) \subseteq ItemTypes
  BY ItemFacts DEF TransactionEvidence, OrderEvidence, ItemIf
<1>2. \A s \in scores : FraudEvidence(s) \subseteq ItemTypes
  BY ItemFacts DEF FraudEvidence, ItemIf
<1>3. checks \subseteq ItemTypes
  BY ItemFacts DEF ProcessorChecks
<1>4. UNION {TransactionEvidence(t) \cup OrderEvidence(t) : t \in txns} \subseteq ItemTypes
  BY <1>1
<1>5. UNION {FraudEvidence(s) : s \in scores} \subseteq ItemTypes
  BY <1>2
<1> QED
  BY <1>3, <1>4, <1>5 DEF Collect

\* Without checks of the processor there are none among the items.
LEMMA CollectedUnchecked ==
  ASSUME NEW txns, NEW scores PROVE Collect(txns, scores, {}) \cap ProcessorChecks = {}
<1>1. \A t \in txns : (TransactionEvidence(t) \cup OrderEvidence(t)) \cap ProcessorChecks = {}
  BY DEF TransactionEvidence, OrderEvidence, ItemIf, ProcessorChecks
<1>2. \A s \in scores : FraudEvidence(s) \cap ProcessorChecks = {}
  BY DEF FraudEvidence, ItemIf, ProcessorChecks
<1> QED
  BY <1>1, <1>2 DEF Collect

\* The decision is one of two, and auto_submit takes everything at once.
LEMMA DecisionFacts ==
  /\ Decision \in {"auto_submit", "human_review"}
  /\ Decision = "auto_submit" => strength = "high" /\ letter # "empty" /\ ~errors /\ autoSubmit
BY DEF Decision

-----------------------------------------------------------------------------
\* The types survive every node.
LEMMA TypeStep == IInv /\ [Next]_vars => TypeOK'
<1> SUFFICES ASSUME IInv, [Next]_vars PROVE TypeOK'
  OBVIOUS
<1> USE DEF settings, GoTo, Attempts, IInv, TypeOK, Nodes, Ends
<1>1. CASE Scored
  BY <1>1 DEF Scored, Fetched
<1>2. CASE ScorerFails
  BY <1>2 DEF ScorerFails
<1>3. CASE Collected
  BY <1>3, StrengthTyped, CollectTyped DEF Collected, Checks
<1>4. CASE CollectorFails
  BY <1>4 DEF CollectorFails
<1>5. CASE WroteTemplate \/ Wrote \/ WriterFallsBack
  <2>1. CASE WroteTemplate
    BY <2>1 DEF WroteTemplate
  <2>2. CASE Wrote
    BY <2>2 DEF Wrote, ModelAnswers
  <2>3. CASE WriterFallsBack
    BY <2>3 DEF WriterFallsBack
  <2> QED
    BY <1>5, <2>1, <2>2, <2>3
<1>6. CASE Decided
  BY <1>6, DecisionFacts DEF Decided
<1>7. CASE EngineRaises \/ Submitted \/ SubmissionFails
  BY <1>7 DEF EngineRaises, Submitted, SubmissionFails
<1>8. CASE UNCHANGED vars
  BY <1>8 DEF vars, settings
<1>9. CASE FetchAgain \/ GenerateAgain
  BY <1>9 DEF FetchAgain, GenerateAgain
<1>10. CASE TimeLimit
  BY <1>10 DEF TimeLimit
<1> QED
  BY <1>1, <1>2, <1>3, <1>4, <1>5, <1>6, <1>7, <1>8, <1>9, <1>10 DEF Next, Ended

\* What each node leaves for the next ones stays true to the end of the run.
LEMMA NodesStep == IInv /\ [Next]_vars => NodesInv'
<1> SUFFICES ASSUME IInv, [Next]_vars PROVE NodesInv'
  OBVIOUS
<1> USE WorkflowAssumption DEF settings, GoTo, IInv, TypeOK, Nodes, Ends, NodesInv, DecisionInv
<1>1. CASE Scored
  BY <1>1 DEF Scored
<1>2. CASE ScorerFails
  BY <1>2 DEF ScorerFails
<1>3. CASE Collected
  BY <1>3, CollectedUnchecked DEF Collected, Checks
<1>4. CASE CollectorFails
  BY <1>4 DEF CollectorFails
<1>5. CASE WroteTemplate
  BY <1>5 DEF WroteTemplate
<1>6. CASE Wrote
  BY <1>6 DEF Wrote, ModelAnswers
<1>7. CASE WriterFallsBack
  BY <1>7 DEF WriterFallsBack
<1>8. CASE Decided
  BY <1>8 DEF Decided
<1>9. CASE EngineRaises \/ Submitted \/ SubmissionFails
  BY <1>9 DEF EngineRaises, Submitted, SubmissionFails
<1>10. CASE UNCHANGED vars
  BY <1>10 DEF vars, settings
<1>11. CASE FetchAgain \/ GenerateAgain
  BY <1>11 DEF FetchAgain, GenerateAgain
<1>12. CASE TimeLimit
  BY <1>12 DEF TimeLimit
<1> QED
  BY <1>1, <1>2, <1>3, <1>4, <1>5, <1>6, <1>7, <1>8, <1>9, <1>10, <1>11, <1>12 DEF Next, Ended

\* The decision appears with the engine, and the evidence goes out after it.
LEMMA DecisionStep == IInv /\ [Next]_vars => DecisionInv'
<1> SUFFICES ASSUME IInv, [Next]_vars PROVE DecisionInv'
  OBVIOUS
<1> USE WorkflowAssumption DEF settings, GoTo, IInv, TypeOK, Nodes, Ends, NodesInv, DecisionInv
<1>1. CASE Scored \/ ScorerFails \/ Collected \/ CollectorFails
  BY <1>1 DEF Scored, ScorerFails, Collected, CollectorFails
<1>2. CASE WroteTemplate \/ Wrote \/ WriterFallsBack
  BY <1>2 DEF WroteTemplate, Wrote, WriterFallsBack
<1>3. CASE Decided
  BY <1>3, DecisionFacts DEF Decided
<1>4. CASE EngineRaises
  BY <1>4 DEF EngineRaises
<1>5. CASE Submitted \/ SubmissionFails
  BY <1>5 DEF Submitted, SubmissionFails
<1>6. CASE UNCHANGED vars
  BY <1>6 DEF vars, settings
<1>7. CASE FetchAgain \/ GenerateAgain
  BY <1>7 DEF FetchAgain, GenerateAgain
<1>8. CASE TimeLimit
  BY <1>8 DEF TimeLimit
<1> QED
  BY <1>1, <1>2, <1>3, <1>4, <1>5, <1>6, <1>7, <1>8 DEF Next, Ended

\* An automatic decision needs the strength "high", which needs a verification.
LEMMA EarnedStep == IInv /\ [Next]_vars => AutoSubmitIsEarned'
<1> SUFFICES ASSUME IInv, [Next]_vars PROVE AutoSubmitIsEarned'
  OBVIOUS
<1> USE WorkflowAssumption DEF settings, GoTo, IInv, TypeOK, Nodes, Ends, DecisionInv, AutoSubmitIsEarned
<1>1. CASE Decided
  <2> SUFFICES ASSUME decision' = "auto_submit" PROVE AutoSubmitIsEarned'
    OBVIOUS
  <2>1. strength = "high" /\ letter # "empty" /\ ~errors /\ autoSubmit
    BY <1>1, DecisionFacts DEF Decided
  <2>2. items \cap Verified # {}
    <3>1. StrengthOf(items) = "high"
      BY <2>1 DEF NodesInv, Strengths
    <3> QED
      BY <3>1, UnverifiedIsNotHigh
  <2>3. letter = IF llmWriter THEN "generated" ELSE "template"
    BY <1>1, <2>1 DEF Decided, NodesInv
  <2>4. processor # "stripe" => "card_present_verification" \in items
    BY <2>2 DEF NodesInv, Verified
  <2> QED
    BY <1>1, <2>1, <2>2, <2>3, <2>4 DEF Decided
<1>2. CASE Submitted \/ SubmissionFails
  BY <1>2 DEF Submitted, SubmissionFails
<1>3. CASE Scored \/ ScorerFails \/ Collected \/ CollectorFails
  BY <1>3 DEF Scored, ScorerFails, Collected, CollectorFails
<1>4. CASE WroteTemplate \/ Wrote \/ WriterFallsBack \/ EngineRaises
  BY <1>4 DEF WroteTemplate, Wrote, WriterFallsBack, EngineRaises
<1>5. CASE UNCHANGED vars
  BY <1>5 DEF vars, settings
<1>6. CASE FetchAgain \/ GenerateAgain
  BY <1>6 DEF FetchAgain, GenerateAgain
<1>7. CASE TimeLimit
  BY <1>7 DEF TimeLimit
<1> QED
  BY <1>1, <1>2, <1>3, <1>4, <1>5, <1>6, <1>7 DEF Next, Ended

-----------------------------------------------------------------------------
LEMMA InvNext == IInv /\ [Next]_vars => IInv'
BY TypeStep, NodesStep, DecisionStep, EarnedStep DEF IInv

\* The inductive invariant holds after every node.
THEOREM Invariance == Spec => []IInv
<1>1. Init => IInv
  <2> SUFFICES ASSUME Init PROVE IInv
    OBVIOUS
  <2>0. tries \in 0..(Attempts - 1)
    BY DEF Init, Attempts
  <2>1. TypeOK
    BY <2>0 DEF Init, TypeOK, Nodes
  <2>2. NodesInv
    BY WorkflowAssumption DEF Init, NodesInv
  <2>3. DecisionInv /\ AutoSubmitIsEarned
    BY WorkflowAssumption DEF Init, DecisionInv, AutoSubmitIsEarned
  <2> QED
    BY <2>1, <2>2, <2>3 DEF IInv
<1> QED
  BY <1>1, InvNext, PTL DEF Spec

\* The workflow state is well formed after every node.
THEOREM TypeCorrect == Spec => []TypeOK
<1>1. IInv => TypeOK
  BY DEF IInv
<1> QED
  BY <1>1, Invariance, PTL

\* The agent never submits on its own without a verification in the file and an
\* undisturbed run behind it.
THEOREM AutoSubmitEarned == Spec => []AutoSubmitIsEarned
<1>1. IInv => AutoSubmitIsEarned
  BY DEF IInv
<1> QED
  BY <1>1, Invariance, PTL

\* A run that returns has a decision, and one that an exception of a node ended has
\* sent nothing; only the time limit, if it strikes in the submitter, leaves evidence
\* of a decision that nobody records.
THEOREM RunsDecide == Spec => []DecidesOrRaises
<1>1. IInv => DecidesOrRaises
  BY WorkflowAssumption DEF settings, IInv, TypeOK, Nodes, Ends, DecisionInv, DecidesOrRaises
<1> QED
  BY <1>1, Invariance, PTL

\* With the flag off the agent sends nothing.
THEOREM OffIsOff == Spec => []OffMeansReview
<1>1. IInv => OffMeansReview
  BY WorkflowAssumption DEF IInv, DecisionInv, AutoSubmitIsEarned, OffMeansReview
<1> QED
  BY <1>1, Invariance, PTL
-----------------------------------------------------------------------------
(* The graph implements AgentRun.                                          *)

\* The nodes up to the letter are invisible; the engine decides or raises, the
\* submitter returns what was decided, and the time limit may end either phase.
LEMMA RunStep == IInv /\ [Next]_vars => [Run!Next]_<<autoSubmit, Phase, Handed, sent>>
<1> SUFFICES ASSUME IInv, [Next]_vars
             PROVE  Run!Next \/ UNCHANGED <<autoSubmit, Phase, Handed, sent>>
  OBVIOUS
<1> USE DEF settings, GoTo
<1>1. CASE Decided
  <2>1. Phase = "deciding" /\ autoSubmit' = autoSubmit /\ sent' = sent
    BY <1>1 DEF Decided, Phase
  <2>2. CASE Decision = "auto_submit"
    <3>1. Phase' = "submitting" /\ decision' = "auto_submit" /\ autoSubmit
      BY <1>1, <2>2, DecisionFacts DEF Decided, Phase
    <3>2. Handed' = "auto_submit"
      BY <3>1 DEF Handed
    <3> QED BY <2>1, <3>1, <3>2 DEF Run!Next, Run!DecidesToSubmit
  <2>3. CASE Decision = "human_review"
    <3>1. Phase' = "returned" /\ decision' = "human_review"
      BY <1>1, <2>3 DEF Decided, Phase
    <3>2. Handed' = "human_review"
      BY <3>1 DEF Handed
    <3> QED BY <2>1, <3>1, <3>2 DEF Run!Next, Run!DecidesForReview
  <2> QED BY <2>2, <2>3, DecisionFacts
<1>2. CASE EngineRaises
  <2>1. Phase = "deciding" /\ Phase' = "raised" /\ UNCHANGED <<autoSubmit, sent>>
    BY <1>2 DEF EngineRaises, Phase
  <2>2. Handed' = None
    BY <2>1 DEF Handed
  <2> QED BY <2>1, <2>2 DEF Run!Next, Run!Raises
<1>3. CASE Submitted \/ SubmissionFails
  <2>1. Phase = "submitting" /\ Phase' = "returned" /\ UNCHANGED <<autoSubmit, decision>>
    BY <1>3 DEF Submitted, SubmissionFails, Phase
  <2>2. ~sent
    BY <1>3 DEF Submitted, SubmissionFails, IInv, DecisionInv
  <2>3. sent \in BOOLEAN /\ sent' \in BOOLEAN
    BY InvNext DEF IInv, TypeOK
  <2>4. sent' \in {sent, TRUE}
    BY <2>2, <2>3
  <2>5. Handed' = Handed
    BY <2>1 DEF Handed
  <2> QED BY <2>1, <2>4, <2>5 DEF Run!Next, Run!Submits
<1>4. CASE TimeLimit
  <2>1. Phase' = "raised" /\ autoSubmit' = autoSubmit
    BY <1>4 DEF TimeLimit, Phase
  <2>2. Phase \in {"deciding", "submitting"} /\ (Phase = "submitting" <=> node = "dispute_submitter")
    BY <1>4 DEF TimeLimit, Ends, Phase
  <2>3. sent' \in {sent, sent \/ Phase = "submitting"}
    BY <1>4, <2>2 DEF TimeLimit
  <2>4. Handed' = None
    BY <2>1 DEF Handed
  <2> QED BY <2>1, <2>2, <2>3, <2>4 DEF Run!Next, Run!Raises
<1>5. CASE Scored \/ ScorerFails \/ Collected \/ CollectorFails
  BY <1>5 DEF Scored, ScorerFails, Collected, CollectorFails, Phase, Handed
<1>6. CASE WroteTemplate \/ Wrote \/ WriterFallsBack
  BY <1>6 DEF WroteTemplate, Wrote, WriterFallsBack, Phase, Handed
<1>7. CASE FetchAgain \/ GenerateAgain
  BY <1>7 DEF FetchAgain, GenerateAgain, Phase, Handed
<1>8. CASE UNCHANGED vars
  BY <1>8 DEF vars, Phase, Handed
<1> QED
  BY <1>1, <1>2, <1>3, <1>4, <1>5, <1>6, <1>7, <1>8 DEF Next, Ended

\* Whatever fails in it and whenever the time limit strikes, a run of the graph is
\* one run of AgentRun, for every processor and all settings of the flags.
THEOREM RunKept == Spec => KeepsRun
<1>1. Init => Run!Init
  BY DEF Init, Run!Init, Phase, Handed
<1> QED
  BY <1>1, RunStep, Invariance, PTL DEF Spec, KeepsRun, Run!Spec

-----------------------------------------------------------------------------
(* The variant of a run: the part of RunEnds that needs no fairness.       *)

\* The measure is a natural number, and 17 at the start.
LEMMA StepsLeftTyped ==
  /\ TypeOK => StepsLeft \in 0..17
  /\ Init => StepsLeft = 17
<1>1. ASSUME TypeOK PROVE StepsLeft \in 0..17
  <2>1. NodesLeft \in 0..5
    BY <1>1 DEF TypeOK, Nodes, Ends, NodesLeft
  <2>2. tries \in 0..2
    BY <1>1 DEF TypeOK, Attempts
  <2> QED BY <2>1, <2>2 DEF StepsLeft, Attempts
<1>2. ASSUME Init PROVE StepsLeft = 17
  <2>1. NodesLeft = 5
    BY <1>2 DEF Init, NodesLeft
  <2> QED BY <1>2, <2>1 DEF Init, StepsLeft, Attempts
<1> QED BY <1>1, <1>2

\* An attempt that failed uses up one of its node; a node uses up all of its own.
LEMMA AdvanceStep == IInv /\ Next => StepsLeft' < StepsLeft \/ UNCHANGED vars
<1> SUFFICES ASSUME IInv, Next PROVE StepsLeft' < StepsLeft \/ UNCHANGED vars
  OBVIOUS
<1>1. /\ tries \in 0..2 /\ tries' \in 0..2
      /\ NodesLeft \in 0..5 /\ NodesLeft' \in 0..5
  <2>1. TypeOK /\ TypeOK'
    BY InvNext DEF IInv
  <2> QED BY <2>1 DEF TypeOK, Attempts, Nodes, Ends, NodesLeft
<1>2. ASSUME NodesLeft' < NodesLeft PROVE StepsLeft' < StepsLeft
  <2>1. \A m, n \in 0..5, i, j \in 0..2 : m < n => 3 * m + (2 - i) < 3 * n + (2 - j)
    OBVIOUS
  <2>2. StepsLeft = 3 * NodesLeft + (2 - tries) /\ StepsLeft' = 3 * NodesLeft' + (2 - tries')
    BY <1>1 DEF StepsLeft, Attempts
  <2> QED BY <1>1, <1>2, <2>1, <2>2
<1>3. CASE FetchAgain \/ GenerateAgain
  <2>1. tries' = tries + 1 /\ node' = node
    BY <1>3 DEF FetchAgain, GenerateAgain
  <2> QED BY <1>1, <2>1 DEF StepsLeft, NodesLeft, Attempts
<1>4. CASE Scored \/ ScorerFails
  BY <1>2, <1>4 DEF Scored, ScorerFails, GoTo, NodesLeft
<1>5. CASE Collected \/ CollectorFails
  BY <1>2, <1>5 DEF Collected, CollectorFails, GoTo, NodesLeft
<1>6. CASE WroteTemplate \/ Wrote \/ WriterFallsBack
  BY <1>2, <1>6 DEF WroteTemplate, Wrote, WriterFallsBack, GoTo, NodesLeft
<1>7. CASE Decided \/ EngineRaises
  BY <1>2, <1>7 DEF Decided, EngineRaises, NodesLeft
<1>8. CASE Submitted \/ SubmissionFails
  BY <1>2, <1>8 DEF Submitted, SubmissionFails, NodesLeft
<1>9. CASE TimeLimit
  <2>1. node \in Nodes \ Ends /\ node' = "interrupted"
    BY <1>9 DEF TimeLimit, IInv, TypeOK
  <2> QED BY <1>2, <2>1 DEF Nodes, Ends, NodesLeft
<1> QED
  BY <1>3, <1>4, <1>5, <1>6, <1>7, <1>8, <1>9 DEF Next, Ended

\* A run takes 17 steps at most: each uses up at least one of StepsLeft, which
\* starts at 17 and is never negative, whatever the services answer.
THEOREM RunsAreShort == Spec => [](StepsLeft \in 0..17) /\ Advances
<1>1. Init => StepsLeft = 17
  BY StepsLeftTyped
<1>2. IInv => StepsLeft \in 0..17
  BY StepsLeftTyped DEF IInv
<1>3. IInv /\ [Next]_vars => [StepsLeft' < StepsLeft]_vars
  BY AdvanceStep
<1> QED
  BY <1>2, <1>3, Invariance, PTL DEF Spec, Advances
=============================================================================
