------------------------- MODULE EvidenceFileProofs -------------------------
(***************************************************************************)
(* The strength of an evidence file, for files of any size.                *)
(***************************************************************************)
EXTENDS EvidenceFile, TLAPS

\* Medium items weigh 2 of 3, below the 0.7 that "high" takes.
LEMMA NoHighWithoutHigh ==
  ASSUME NEW m \in Nat, NEW l \in Nat, NEW i \in Nat
  PROVE  Assess(0, m, l, i) # "high"
BY DEF Assess

\* One more item of weight 3 of 3 lifts the ratio or leaves it, and the count.
LEMMA HighItemLifts ==
  ASSUME NEW h \in Nat, NEW m \in Nat, NEW l \in Nat, NEW i \in Nat
  PROVE  Rank[Assess(h + 1, m, l, i)] >= Rank[Assess(h, m, l, i)]
<1> DEFINE n == h + m + l + i
           weight == 3 * h + 2 * m + l
           n1 == (h + 1) + m + l + i
           weight1 == 3 * (h + 1) + 2 * m + l
<1>1. n \in Nat /\ weight \in Nat /\ n1 = n + 1 /\ weight1 = weight + 3
  OBVIOUS
<1>2. /\ 10 * weight >= 21 * n => 10 * weight1 >= 21 * n1
      /\ 10 * weight >= 12 * n => 10 * weight1 >= 12 * n1
      /\ weight1 > 0
  BY <1>1
<1> HIDE DEF n, weight, n1, weight1
<1>3. Assess(h, m, l, i) = IF 10 * weight >= 21 * n /\ n >= 3 THEN "high"
                           ELSE IF 10 * weight >= 12 * n /\ n >= 2 THEN "medium"
                           ELSE IF weight > 0 THEN "low" ELSE "insufficient"
  BY DEF Assess, n, weight
<1>4. Assess(h + 1, m, l, i) = IF 10 * weight1 >= 21 * n1 /\ n1 >= 3 THEN "high"
                               ELSE IF 10 * weight1 >= 12 * n1 /\ n1 >= 2 THEN "medium"
                               ELSE IF weight1 > 0 THEN "low" ELSE "insufficient"
  BY DEF Assess, n1, weight1
<1> QED
  BY <1>1, <1>2, <1>3, <1>4 DEF Rank

\* The counts of a file stay within the bound.
THEOREM TypeCorrect == Spec => []TypeOK
<1>1. Init => TypeOK
  BY MaxItemsAssumption DEF Init, TypeOK, Strengths
<1>2. TypeOK /\ [Next]_file => TypeOK'
  BY MaxItemsAssumption DEF TypeOK, Next, AddItem, Size, Strengths
<1> QED
  BY <1>1, <1>2, PTL DEF Spec

\* A file is "high" only with a verification in it, however long it is.
THEOREM HighIsVerified == Spec => []HighNeedsVerification
<1>1. TypeOK => HighNeedsVerification
  <2> SUFFICES ASSUME TypeOK, file["high"] = 0 PROVE FileStrength # "high"
    BY MaxItemsAssumption DEF TypeOK, HighNeedsVerification, Strengths
  <2>1. file["medium"] \in Nat /\ file["low"] \in Nat /\ file["insufficient"] \in Nat
    BY MaxItemsAssumption DEF TypeOK, Strengths
  <2> QED
    BY <2>1, NoHighWithoutHigh DEF FileStrength
<1> QED
  BY <1>1, TypeCorrect, PTL

\* High evidence never weakens a file, however long it is.
THEOREM HighHelps == Spec => HighNeverWeakens
<1>1. TypeOK /\ [Next]_file =>
        [file'["high"] > file["high"] => Rank[FileStrength'] >= Rank[FileStrength]]_file
  <2> SUFFICES ASSUME TypeOK, NEW s \in Strengths, AddItem(s), file'["high"] > file["high"]
               PROVE  Rank[FileStrength'] >= Rank[FileStrength]
    BY DEF Next
  <2>1. \A t \in Strengths : file[t] \in Nat
    BY MaxItemsAssumption DEF TypeOK
  <2>2. s = "high"
    BY <2>1 DEF AddItem, TypeOK, Strengths
  <2>3. /\ file'["high"] = file["high"] + 1
        /\ \A t \in Strengths \ {"high"} : file'[t] = file[t]
    BY <2>2 DEF AddItem, TypeOK
  <2> QED
    BY <2>1, <2>3, HighItemLifts DEF FileStrength, Strengths
<1> QED
  BY <1>1, TypeCorrect, PTL DEF Spec, HighNeverWeakens
=============================================================================
