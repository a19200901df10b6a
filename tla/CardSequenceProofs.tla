-------------------------- MODULE CardSequenceProofs --------------------------
(***************************************************************************)
(* The sequence of a card stays the newest part of what was appended, for  *)
(* any number of concurrent scorings and any length.                       *)
(***************************************************************************)
EXTENDS CardSequence, FiniteSetTheorems, TLAPS

-----------------------------------------------------------------------------
(* What Newer and Newest return.                                           *)

\* Of the subsets of a finite set that a function gives for its elements there is
\* one that has no other as a strict subset.
LEMMA LeastSubset ==
  ASSUME NEW T, IsFiniteSet(T), T # {}, NEW f \in [T -> SUBSET T]
  PROVE  \E m \in T : \A e \in T : f[e] \subseteq f[m] => f[e] = f[m]
<1> DEFINE R == StrictSubsetOrdering(T)
           S == FiniteSubsetsOf(T)
           F == {f[e] : e \in T}
<1>1. IsWellFoundedOn(R, S)
  BY FS_StrictSubsetOrderingWellFounded
<1>2. F \subseteq S /\ F # {}
  BY FS_FiniteSubsetsOfFinite
<1>3. PICK X \in F : \A Y \in F : ~ (<<Y, X>> \in R)
  <2> HIDE DEF R, S, F
  <2> QED
    BY <1>1, <1>2, WFMin
<1>4. PICK m \in T : X = f[m]
  OBVIOUS
<1>5. ASSUME NEW e \in T, f[e] \subseteq f[m], f[e] # f[m] PROVE FALSE
  <2>1. <<f[e], X>> \in R
    BY <1>4, <1>5 DEF StrictSubsetOrdering
  <2> HIDE DEF R
  <2> QED
    BY <1>3, <2>1
<1> QED
  BY <1>5

\* A finite set of integers has a greatest element: the one whose set of newer ones
\* has no other as a strict subset.
LEMMA Greatest ==
  ASSUME NEW T, IsFiniteSet(T), T # {}
  PROVE  T \subseteq Int => \E m \in T : \A e \in T : e <= m
<1>1. PICK f : f = [r \in T |-> Newer(T, r)]
  OBVIOUS
<1>2. f \in [T -> SUBSET T]
  BY <1>1 DEF Newer
<1>3. PICK m \in T : \A e \in T : f[e] \subseteq f[m] => f[e] = f[m]
  BY <1>2, LeastSubset
<1> HAVE T \subseteq Int
<1>4. ASSUME NEW e \in T, e > m PROVE FALSE
  <2>1. ASSUME NEW x \in f[e] PROVE x \in f[m]
    <3>1. x \in T /\ x \in Int /\ e \in Int /\ m \in Int /\ x > e
      BY <1>1 DEF Newer
    <3> QED
      BY <1>1, <1>4, <3>1 DEF Newer
  <2>2. e \in f[m] /\ e \notin f[e]
    BY <1>1, <1>4 DEF Newer
  <2> QED
    BY <1>3, <2>1, <2>2
<1>5. \A e \in T : e \in Int
  OBVIOUS
<1> QED
  BY <1>4, <1>5

\* And a least one.
LEMMA Least ==
  ASSUME NEW T, IsFiniteSet(T), T # {}
  PROVE  T \subseteq Int => \E m \in T : \A e \in T : m <= e
<1>1. PICK f : f = [r \in T |-> {e \in T : e < r}]
  OBVIOUS
<1>2. f \in [T -> SUBSET T]
  BY <1>1
<1>3. PICK m \in T : \A e \in T : f[e] \subseteq f[m] => f[e] = f[m]
  BY <1>2, LeastSubset
<1> HAVE T \subseteq Int
<1>4. ASSUME NEW e \in T, e < m PROVE FALSE
  <2>1. ASSUME NEW x \in f[e] PROVE x \in f[m]
    <3>1. x \in T /\ x \in Int /\ e \in Int /\ m \in Int /\ x < e
      BY <1>1
    <3> QED
      BY <1>1, <1>4, <3>1
  <2>2. e \in f[m] /\ e \notin f[e]
    BY <1>1, <1>4
  <2> QED
    BY <1>3, <2>1, <2>2
<1>5. \A e \in T : e \in Int
  OBVIOUS
<1> QED
  BY <1>4, <1>5

\* Newer and Newest give finite parts of a finite set, and a later record has fewer
\* newer ones.
LEMMA Parts ==
  ASSUME NEW T, T \subseteq Int, IsFiniteSet(T), NEW n \in Nat
  PROVE  /\ Newest(T, n) \subseteq T /\ IsFiniteSet(Newest(T, n))
         /\ \A r \in Int : /\ IsFiniteSet(Newer(T, r))
                           /\ Cardinality(Newer(T, r)) \in Nat
         /\ \A r, e \in Int : r >= e => Cardinality(Newer(T, r)) <= Cardinality(Newer(T, e))
<1>1. Newest(T, n) \subseteq T /\ IsFiniteSet(Newest(T, n))
  BY FS_Subset DEF Newest
<1>2. \A r \in Int : Newer(T, r) \subseteq T
  BY DEF Newer
<1>3. \A r \in Int : IsFiniteSet(Newer(T, r)) /\ Cardinality(Newer(T, r)) \in Nat
  BY <1>2, FS_Subset, FS_CardinalityType
<1>4. ASSUME NEW r \in Int, NEW e \in Int, r >= e
      PROVE  Cardinality(Newer(T, r)) <= Cardinality(Newer(T, e))
  <2>1. \A x \in T : x \in Int /\ (x > r => x > e)
    BY <1>4
  <2>2. Newer(T, r) \in SUBSET Newer(T, e)
    BY <2>1 DEF Newer
  <2> QED
    BY <1>3, <2>2, FS_Subset
<1> QED
  BY <1>1, <1>3, <1>4

\* Newest(T, n) has at most n elements: they are its least one and those above it.
LEMMA NewestBounded ==
  ASSUME NEW T, T \subseteq Int, IsFiniteSet(T), NEW n \in Nat
  PROVE  Cardinality(Newest(T, n)) <= n
<1> DEFINE A == Newest(T, n)
<1>1. A \subseteq T /\ A \subseteq Int /\ IsFiniteSet(A)
  BY Parts
<1>2. CASE A = {}
  BY <1>2, FS_EmptySet
<1>3. CASE A # {}
  <2>1. PICK m \in A : \A e \in A : m <= e
    BY <1>1, <1>3, Least
  <2>2. Cardinality(Newer(T, m)) < n
    BY DEF Newest
  <2>3. A \in SUBSET (Newer(T, m) \cup {m})
    BY <1>1, <2>1 DEF Newer
  <2>4. IsFiniteSet(Newer(T, m)) /\ Cardinality(Newer(T, m)) \in Nat
    BY <1>1, Parts
  <2>5. /\ IsFiniteSet(Newer(T, m) \cup {m})
        /\ Cardinality(Newer(T, m) \cup {m}) <= Cardinality(Newer(T, m)) + 1
    BY <2>4, FS_AddElement
  <2>6. Cardinality(A) <= Cardinality(Newer(T, m) \cup {m})
    BY <2>3, <2>5, FS_Subset
  <2>7. Cardinality(A) \in Nat /\ Cardinality(Newer(T, m) \cup {m}) \in Nat
    BY <1>1, <2>5, FS_CardinalityType
  <2> QED
    BY <2>2, <2>4, <2>5, <2>6, <2>7
<1> QED
  BY <1>2, <1>3

\* A record with n newer ones has n newer ones in Newest(T, n), too.
LEMMA NewestSuffices ==
  ASSUME NEW T, T \subseteq Int, IsFiniteSet(T), NEW n \in Nat,
         NEW r \in Int, Cardinality(Newer(T, r)) >= n
  PROVE  Cardinality(Newer(Newest(T, n), r)) >= n
<1> DEFINE A == Newest(T, n)
<1>1. A \subseteq T /\ IsFiniteSet(A) /\ Cardinality(A) \in Nat
  BY Parts, FS_CardinalityType
<1>2. Newer(A, r) = A
  <2>1. ASSUME NEW e \in A PROVE e > r
    <3>1. Cardinality(Newer(T, e)) < n
      BY DEF Newest
    <3>2. e \in Int
      BY <1>1
    <3>3. /\ Cardinality(Newer(T, e)) \in Nat /\ Cardinality(Newer(T, r)) \in Nat
          /\ r >= e => Cardinality(Newer(T, r)) <= Cardinality(Newer(T, e))
      BY <3>2, Parts
    <3> QED
      BY <3>1, <3>2, <3>3
  <2> QED
    BY <2>1 DEF Newer
<1>3. CASE A = T
  BY <1>3
<1>4. CASE A # T
  <2>1. T \ A \subseteq Int /\ IsFiniteSet(T \ A) /\ T \ A # {}
    BY <1>1, <1>4, FS_Subset
  <2>2. PICK m \in T \ A : \A e \in T \ A : e <= m
    BY <2>1, Greatest
  <2>3. Cardinality(Newer(T, m)) \in Nat /\ ~ (Cardinality(Newer(T, m)) < n)
    BY Parts DEF Newest
  <2>4. ASSUME NEW x \in Newer(T, m) PROVE x \in A
    <3>1. x \in T /\ x \in Int /\ m \in Int /\ x > m
      BY DEF Newer
    <3> QED
      BY <2>2, <3>1
  <2>5. Cardinality(Newer(T, m)) <= Cardinality(A)
    <3>1. Newer(T, m) \in SUBSET A
      BY <2>4
    <3> QED
      BY <1>1, <3>1, FS_Subset
  <2> QED
    BY <1>1, <1>2, <2>3, <2>5
<1> QED
  BY <1>3, <1>4

-----------------------------------------------------------------------------
(* One lemma per conjunct of the inductive invariant.                      *)

\* Every step keeps the types.
LEMMA TypeStep == IInv /\ [Next]_vars => TypeOK'
<1> SUFFICES ASSUME IInv, [Next]_vars PROVE TypeOK'
  OBVIOUS
<1> USE SequenceAssumption DEF IInv, TypeOK, callVars, keyVars
<1>1. entries \subseteq Int /\ IsFiniteSet(entries)
  BY FS_Subset
<1>2. ASSUME NEW s \in Scorings, ReadSequence(s) PROVE TypeOK'
  <2>1. Newest(entries, SequenceLength) \subseteq Records
    BY DEF Newest
  <2> QED
    BY <1>2, <2>1 DEF ReadSequence
<1>3. ASSUME NEW s \in Scorings, Append(s) PROVE TypeOK'
  BY <1>3 DEF Append
<1>4. ASSUME NEW s \in Scorings, Trim(s) PROVE TypeOK'
  <2>1. entries' \subseteq entries
    BY <1>1, <1>4, Parts DEF Trim
  <2>2. entries # {} => entries' # {}
    <3> HAVE entries # {}
    <3>1. PICK m \in entries : \A e \in entries : e <= m
      BY <1>1, Greatest
    <3>2. \A e \in entries : e \in Int /\ ~ (e > m)
      BY <1>1, <3>1
    <3>3. Cardinality(Newer(entries, m)) = 0
      BY <3>2, FS_EmptySet DEF Newer
    <3>4. m \in Newest(entries, SequenceLength)
      BY <3>3 DEF Newest
    <3> QED
      BY <1>4, <3>4 DEF Trim
  <2> QED
    BY <1>4, <2>1, <2>2 DEF Trim
<1>5. ASSUME NEW s \in Scorings, Expire(s) PROVE TypeOK'
  BY <1>5 DEF Expire
<1>6. ASSUME NEW s \in Scorings, Abort(s) PROVE TypeOK'
  BY <1>6 DEF Abort
<1>7. ASSUME NEW q \in Deletions, DeleteSequence(q) PROVE TypeOK'
  <2>1. CASE KeyGone
    BY <1>7, <2>1 DEF DeleteSequence, KeyGone
  <2>2. CASE UNCHANGED keyVars
    BY <1>7, <2>2 DEF DeleteSequence
  <2> QED
    BY <1>7, <2>1, <2>2 DEF DeleteSequence
<1>8. CASE KeyExpires
  BY <1>8 DEF KeyExpires, KeyGone
<1>9. CASE UNCHANGED vars
  BY <1>9 DEF vars
<1> QED
  BY <1>2, <1>3, <1>4, <1>5, <1>6, <1>7, <1>8, <1>9 DEF Next, Quiet

\* Records come from scorings that have appended, and the sequence a scoring reads is
\* its own only after it was idle.
LEMMA CallsStep == IInv /\ [Next]_vars => CallsInv'
<1> SUFFICES ASSUME IInv, [Next]_vars PROVE CallsInv'
  OBVIOUS
<1> USE SequenceAssumption DEF IInv, TypeOK, CallsInv, Appended, callVars, keyVars
<1>1. ASSUME NEW s \in Scorings, ReadSequence(s) PROVE CallsInv'
  BY <1>1 DEF ReadSequence
<1>2. ASSUME NEW s \in Scorings, Append(s) PROVE CallsInv'
  BY <1>2 DEF Append
<1>3. ASSUME NEW s \in Scorings, Trim(s) PROVE CallsInv'
  <2>1. entries' \subseteq entries
    BY <1>3 DEF Trim, Newest
  <2> QED
    BY <1>3, <2>1 DEF Trim
<1>4. ASSUME NEW s \in Scorings, Expire(s) PROVE CallsInv'
  BY <1>4 DEF Expire
<1>5. ASSUME NEW s \in Scorings, Abort(s) PROVE CallsInv'
  BY <1>5 DEF Abort
<1>6. ASSUME NEW q \in Deletions, DeleteSequence(q) PROVE CallsInv'
  BY <1>6 DEF DeleteSequence, KeyGone
<1>7. CASE KeyExpires
  BY <1>7 DEF KeyExpires, KeyGone
<1>8. CASE UNCHANGED vars
  BY <1>8 DEF vars
<1> QED
  BY <1>1, <1>2, <1>3, <1>4, <1>5, <1>6, <1>7, <1>8 DEF Next, Quiet

\* What a scoring reads was appended by others, because it has not appended yet.
LEMMA SelfStep == IInv /\ [Next]_vars => SelfUnseen'
<1> SUFFICES ASSUME IInv, [Next]_vars PROVE SelfUnseen'
  OBVIOUS
<1> USE DEF IInv, TypeOK, SelfUnseen, Appended, callVars
<1>1. ASSUME NEW s \in Scorings, ReadSequence(s) PROVE SelfUnseen'
  <2>1. \A o \in Scorings : Appended(o) => Appended(o)'
    BY <1>1 DEF ReadSequence
  <2>2. txn[s] \in seen'[s] => txn[s] \in entries
    BY <1>1 DEF ReadSequence, Newest, CallsInv
  <2>3. txn[s] \in entries => \E o \in Scorings \ {s} : txn[o] = txn[s] /\ Appended(o)
    BY <1>1 DEF ReadSequence, CallsInv
  <2>4. \A o \in Scorings \ {s} : seen'[o] = seen[o]
    BY <1>1 DEF ReadSequence
  <2> QED
    BY <1>1, <2>1, <2>2, <2>3, <2>4 DEF ReadSequence
<1>2. ASSUME seen' = seen, txn' = txn, \A o \in Scorings : Appended(o) => Appended(o)'
      PROVE  SelfUnseen'
  BY <1>2
<1>3. ASSUME NEW s \in Scorings, Append(s) \/ Trim(s) \/ Expire(s) \/ Abort(s) PROVE SelfUnseen'
  BY <1>2, <1>3 DEF Append, Trim, Expire, Abort
<1>4. CASE UNCHANGED callVars
  BY <1>2, <1>4
<1> QED
  BY <1>1, <1>3, <1>4 DEF Next, Quiet, vars, DeleteSequence, KeyExpires

\* The scoring that created the key has yet to set its time to live.
LEMMA ExpiringStep == IInv /\ [Next]_vars => Expiring'
<1> SUFFICES ASSUME IInv, [Next]_vars PROVE Expiring'
  OBVIOUS
<1> USE DEF IInv, TypeOK, Expiring, callVars, keyVars
<1>1. ASSUME NEW s \in Scorings, ReadSequence(s) PROVE Expiring'
  BY <1>1 DEF ReadSequence
<1>2. ASSUME NEW s \in Scorings, Append(s) PROVE Expiring'
  BY <1>2 DEF Append
<1>3. ASSUME NEW s \in Scorings, Trim(s) PROVE Expiring'
  BY <1>3 DEF Trim, Newest
<1>4. ASSUME NEW s \in Scorings, Expire(s) PROVE Expiring'
  BY <1>4 DEF Expire
<1>5. ASSUME NEW s \in Scorings, Abort(s) PROVE Expiring'
  BY <1>5 DEF Abort
<1>6. ASSUME NEW q \in Deletions, DeleteSequence(q) PROVE Expiring'
  BY <1>6 DEF DeleteSequence, KeyGone
<1>7. CASE KeyExpires
  BY <1>7 DEF KeyExpires, KeyGone
<1>8. CASE UNCHANGED vars
  BY <1>8 DEF vars
<1> QED
  BY <1>1, <1>2, <1>3, <1>4, <1>5, <1>6, <1>7, <1>8 DEF Next, Quiet

\* A trim drops records with SequenceLength newer ones and leaves those in place.
LEMMA NewestStep == IInv /\ [Next]_vars => KeepsNewest'
<1> SUFFICES ASSUME IInv, [Next]_vars PROVE KeepsNewest'
  OBVIOUS
<1> USE SequenceAssumption DEF IInv, TypeOK, callVars, keyVars
<1>1. entries \subseteq Int /\ IsFiniteSet(entries) /\ dropped \subseteq Int
  BY FS_Subset
<1>2. ASSUME NEW s \in Scorings, Append(s) PROVE KeepsNewest'
  <2>1. SUFFICES ASSUME NEW r \in dropped
                 PROVE  Cardinality(Newer(entries \cup {txn[s]}, r)) >= SequenceLength
    BY <1>2 DEF Append, KeepsNewest
  <2>2. Newer(entries, r) \in SUBSET Newer(entries \cup {txn[s]}, r)
    BY DEF Newer
  <2>3. entries \cup {txn[s]} \subseteq Int /\ IsFiniteSet(entries \cup {txn[s]})
    BY <1>1, FS_AddElement
  <2>4. /\ IsFiniteSet(Newer(entries \cup {txn[s]}, r))
        /\ Cardinality(Newer(entries \cup {txn[s]}, r)) \in Nat
        /\ Cardinality(Newer(entries, r)) \in Nat
    BY <1>1, <2>3, Parts
  <2>5. Cardinality(Newer(entries, r)) <= Cardinality(Newer(entries \cup {txn[s]}, r))
    BY <2>2, <2>4, FS_Subset
  <2> QED
    BY <2>4, <2>5 DEF KeepsNewest
<1>3. ASSUME NEW s \in Scorings, Trim(s) PROVE KeepsNewest'
  <2>1. entries' = Newest(entries, SequenceLength) /\ dropped' = dropped \cup (entries \ entries')
    BY <1>3 DEF Trim
  <2>2. ASSUME NEW r \in dropped' PROVE Cardinality(Newer(entries, r)) >= SequenceLength
    <3>1. CASE r \in dropped
      BY <3>1 DEF KeepsNewest
    <3>2. CASE r \in entries \ entries'
      <4>1. ~ (Cardinality(Newer(entries, r)) < SequenceLength)
        BY <2>1, <3>2 DEF Newest
      <4>2. Cardinality(Newer(entries, r)) \in Nat
        BY <1>1, <3>2, Parts
      <4> QED
        BY <4>1, <4>2
    <3> QED
      BY <2>1, <2>2, <3>1, <3>2
  <2>3. dropped' \subseteq Int
    BY <1>1, <2>1
  <2>4. ASSUME NEW r \in dropped' PROVE Cardinality(Newer(entries', r)) >= SequenceLength
    BY <1>1, <2>1, <2>2, <2>3, NewestSuffices
  <2> QED
    BY <2>4 DEF KeepsNewest
<1>4. CASE KeyGone \/ UNCHANGED <<entries, dropped>>
  BY <1>4 DEF KeyGone, KeepsNewest
<1> QED
  BY <1>2, <1>3, <1>4
     DEF Next, Quiet, vars, ReadSequence, Expire, Abort, DeleteSequence, KeyExpires

\* A trim brings the key back to SequenceLength; each append adds one record, for
\* which the scoring is counted until it trims.
LEMMA LengthStep == IInv /\ [Next]_vars => BoundedLength'
<1> SUFFICES ASSUME IInv, [Next]_vars PROVE BoundedLength'
  OBVIOUS
<1> USE SequenceAssumption DEF IInv, TypeOK, callVars, keyVars
<1>1. entries \subseteq Int /\ IsFiniteSet(entries) /\ Cardinality(entries) \in Nat
  BY FS_Subset, FS_CardinalityType
<1>2. /\ IsFiniteSet(Untrimmed) /\ Cardinality(Untrimmed) \in Nat
      /\ IsFiniteSet(Untrimmed') /\ Cardinality(Untrimmed') \in Nat
  <2>1. Untrimmed \in SUBSET Scorings /\ Untrimmed' \in SUBSET Scorings
    BY DEF Untrimmed
  <2> QED
    BY <2>1, FS_Subset, FS_CardinalityType
<1>3. ASSUME NEW s \in Scorings, Append(s) PROVE BoundedLength'
  <2>1. s \notin Untrimmed /\ Untrimmed' = Untrimmed \cup {s}
    BY <1>3 DEF Append, Untrimmed, CallsInv
  <2>2. Cardinality(Untrimmed') = Cardinality(Untrimmed) + 1
    BY <1>2, <2>1, FS_AddElement
  <2>3. /\ IsFiniteSet(entries \cup {txn[s]})
        /\ Cardinality(entries \cup {txn[s]}) <= Cardinality(entries) + 1
    <3>1. /\ IsFiniteSet(entries \cup {txn[s]})
          /\ Cardinality(entries \cup {txn[s]}) =
               IF txn[s] \in entries THEN Cardinality(entries) ELSE Cardinality(entries) + 1
      <4> HIDE SequenceAssumption DEF IInv, TypeOK
      <4> QED
        BY <1>1, FS_AddElement
    <3> QED
      BY <1>1, <3>1
  <2>4. entries' = entries \cup {txn[s]} /\ Cardinality(entries') \in Nat
    BY <1>3, <2>3, FS_CardinalityType DEF Append
  <2> QED
    BY <1>1, <1>2, <2>2, <2>3, <2>4 DEF BoundedLength
<1>4. ASSUME NEW s \in Scorings, Trim(s) PROVE BoundedLength'
  <2>1. entries' = Newest(entries, SequenceLength)
    BY <1>4 DEF Trim
  <2>2. Cardinality(entries') <= SequenceLength
    BY <1>1, <2>1, NewestBounded
  <2>3. IsFiniteSet(entries')
    BY <1>1, <2>1, Parts
  <2>4. Cardinality(entries') \in Nat
    BY <2>3, FS_CardinalityType
  <2> QED
    BY <1>2, <2>2, <2>4 DEF BoundedLength
<1>5. ASSUME entries' = entries, Untrimmed \subseteq Untrimmed' PROVE BoundedLength'
  <2>1. Cardinality(Untrimmed) <= Cardinality(Untrimmed')
    <3>1. Untrimmed \in SUBSET Untrimmed'
      BY <1>5
    <3> QED
      BY <1>2, <3>1, FS_Subset
  <2> QED
    BY <1>1, <1>2, <1>5, <2>1 DEF BoundedLength
<1>6. ASSUME NEW s \in Scorings, ReadSequence(s) \/ Expire(s) \/ Abort(s) PROVE BoundedLength'
  <2>1. entries' = entries /\ Untrimmed \subseteq Untrimmed'
    BY <1>6 DEF ReadSequence, Expire, Abort, Untrimmed
  <2> QED
    BY <1>5, <2>1
<1>7. CASE KeyGone
  BY <1>2, <1>7, FS_EmptySet DEF KeyGone, BoundedLength
<1>8. CASE UNCHANGED <<entries, scoring, stray>>
  BY <1>5, <1>8 DEF Untrimmed
<1> QED
  BY <1>3, <1>4, <1>6, <1>7, <1>8 DEF Next, Quiet, vars, DeleteSequence, KeyExpires

-----------------------------------------------------------------------------
(* The theorems.                                                           *)

\* The invariant holds in every reachable state.
THEOREM Invariance == Spec => []IInv
<1>1. Init => IInv
  <2> SUFFICES ASSUME Init PROVE IInv
    OBVIOUS
  <2> USE SequenceAssumption DEF Init
  <2>1. TypeOK /\ CallsInv /\ KeepsNewest /\ SelfUnseen /\ Expiring
    BY DEF TypeOK, CallsInv, KeepsNewest, SelfUnseen, Expiring
  <2>2. Untrimmed = {}
    BY DEF Untrimmed
  <2>3. BoundedLength
    BY <2>2, FS_EmptySet DEF BoundedLength
  <2> QED
    BY <2>1, <2>3 DEF IInv
<1>2. IInv /\ [Next]_vars => IInv'
  BY TypeStep, CallsStep, SelfStep, ExpiringStep, NewestStep, LengthStep DEF IInv
<1> QED
  BY <1>1, <1>2, PTL DEF Spec

\* The state is well formed, and only a key that exists has a time to live.
THEOREM TypeCorrect == Spec => []TypeOK
BY Invariance, PTL DEF IInv

\* Concurrent trims never take one of the last SequenceLength records.
THEOREM NewestAreKept == Spec => []KeepsNewest
BY Invariance, PTL DEF IInv

\* The key is as long as SequenceLength, the scorings under way and the aborted ones
\* allow.
THEOREM LengthIsBounded == Spec => []BoundedLength
BY Invariance, PTL DEF IInv

\* A transaction is not part of the history it is scored with, unless it was scored
\* before.
THEOREM SelfIsUnseen == Spec => []SelfUnseen
BY Invariance, PTL DEF IInv

\* A key without a time to live is about to get one or was left by an aborted scoring.
THEOREM KeysExpire == Spec => []Expiring
BY Invariance, PTL DEF IInv
=============================================================================
