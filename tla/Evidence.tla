------------------------------ MODULE Evidence ------------------------------
(***************************************************************************)
(* EvidenceCollector: the evidence items of a chargeback and the strength  *)
(* of a collection of them.  An item is its type and the strength it is    *)
(* given; the floating-point ratio of assess_evidence_strength is compared *)
(* in integers (weight / (3n) >= 0.7 is 10 * weight >= 21 * n), which for  *)
(* correctly rounded division gives the same answers.                      *)
(***************************************************************************)
EXTENDS Integers, FiniteSets

Strengths == {"high", "medium", "low", "insufficient"}

\* The strength each type of item is created with.
ItemStrength ==
  [card_present_verification |-> "high",
   geolocation_match         |-> "medium",
   low_fraud_risk_assessment |-> "medium",
   no_behavioral_anomalies   |-> "medium",
   avs_match                 |-> "high",
   cvv_match                 |-> "high",
   three_ds_authenticated    |-> "high",
   tip_present               |-> "medium",
   order_receipt             |-> "low"]

ItemTypes == DOMAIN ItemStrength
ProcessorChecks == {"avs_match", "cvv_match", "three_ds_authenticated"}

\* Score bands: below 1 - 0.85, below 0.3, and the rest, where the score of a
\* failed inference (0.5) lies too.
Bands == {"legitimate", "low", "high"}

\* A transaction as the evidence sees it.
Transactions == [present : BOOLEAN, located : BOOLEAN, tipped : BOOLEAN, itemized : BOOLEAN]

\* A score as the evidence sees it.
Scores == [band : Bands, anomalies : BOOLEAN]

\* An item that is there under a condition.
ItemIf(condition, type) == IF condition THEN {type} ELSE {}

TransactionEvidence(txn) ==
  ItemIf(txn.present, "card_present_verification") \cup ItemIf(txn.located, "geolocation_match")

FraudEvidence(score) ==
  ItemIf(score.band # "high", "low_fraud_risk_assessment")
    \cup ItemIf(~score.anomalies, "no_behavioral_anomalies")

OrderEvidence(txn) ==
  ItemIf(txn.tipped, "tip_present") \cup ItemIf(txn.itemized, "order_receipt")

\* collect_evidence: txns and scores hold what there is (at most one each), checks
\* the processor's checks that passed, none when its fetch failed.
Collect(txns, scores, checks) ==
  (UNION {TransactionEvidence(txn) \cup OrderEvidence(txn) : txn \in txns})
    \cup (UNION {FraudEvidence(score) : score \in scores})
    \cup checks

\* Mutant: "high" from two thirds of the possible weight on.
AssessAtTwoThirds(high, medium, low, insufficient) ==
  LET n      == high + medium + low + insufficient
      weight == 3 * high + 2 * medium + low
  IN  IF 10 * weight >= 20 * n /\ n >= 3 THEN "high"
      ELSE IF 10 * weight >= 12 * n /\ n >= 2 THEN "medium"
      ELSE IF weight > 0 THEN "low"
      ELSE "insufficient"

\* Mutant: the weights the other way round.
AssessReversed(high, medium, low, insufficient) ==
  AssessAtTwoThirds(low, medium, high, insufficient)

\* assess_evidence_strength of so many items of each strength.
Assess(high, medium, low, insufficient) ==
  LET n      == high + medium + low + insufficient
      weight == 3 * high + 2 * medium + low
  IN  IF 10 * weight >= 21 * n /\ n >= 3 THEN "high"
      ELSE IF 10 * weight >= 12 * n /\ n >= 2 THEN "medium"
      ELSE IF weight > 0 THEN "low"
      ELSE "insufficient"

Count(items, strength) == Cardinality({t \in items : ItemStrength[t] = strength})

StrengthOf(items) ==
  Assess(Count(items, "high"), Count(items, "medium"), Count(items, "low"),
         Count(items, "insufficient"))
=============================================================================
