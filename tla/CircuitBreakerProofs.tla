----------------------- MODULE CircuitBreakerProofs -------------------------
(***************************************************************************)
(* The circuit breaker for every number of callers, threshold and number   *)
(* of test calls.                                                          *)
(***************************************************************************)
EXTENDS CircuitBreaker, TLAPS

\* Every step keeps the inductive invariant.
LEMMA Inductive == IInv /\ [Next]_vars => IInv'
<1> SUFFICES ASSUME IInv, [Next]_vars PROVE IInv'
  OBVIOUS
<1> USE BreakerAssumption DEF IInv, TypeOK, ClosedBelowThreshold, RecoveryInv
<1>1. CASE Cool
  BY <1>1 DEF Cool
<1>2. ASSUME NEW c \in Callers, Admit(c) PROVE IInv'
  <2>1. CASE state = "closed"
    BY <1>2, <2>1 DEF Admit
  <2>2. CASE state = "open"
    <3>1. state' = "half_open" /\ halfOpenCalls' = 1 /\ running' # {}
      BY <1>2, <2>2 DEF Admit
    <3> QED
      BY <1>2, <2>2, <3>1 DEF Admit
  <2>3. CASE state = "half_open"
    BY <1>2, <2>3 DEF Admit
  <2> QED
    BY <2>1, <2>2, <2>3
<1>3. ASSUME NEW c \in Callers, Refuse(c) PROVE IInv'
  BY <1>3 DEF Refuse, vars
<1>4. ASSUME NEW c \in Callers, Succeed(c) PROVE IInv'
  <2>1. CASE state = "closed"
    BY <1>4, <2>1 DEF Succeed
  <2>2. CASE state = "open"
    BY <1>4, <2>2 DEF Succeed
  <2>3. CASE state = "half_open"
    BY <1>4, <2>3 DEF Succeed
  <2> QED
    BY <2>1, <2>2, <2>3
<1>5. ASSUME NEW c \in Callers, Fail(c) PROVE IInv'
  <2>1. /\ failures' \in 0..FailureThreshold
        /\ failures = FailureThreshold => failures' = FailureThreshold
    BY <1>5 DEF Fail
  <2>2. state' = IF failures' = FailureThreshold THEN "open" ELSE state
    BY <1>5 DEF Fail
  <2>3. /\ running' \subseteq Callers
        /\ cooled' = FALSE
        /\ halfOpenCalls' = halfOpenCalls
        /\ lapses' = lapses
    BY <1>5 DEF Fail
  <2>4. TypeOK'
    BY <2>1, <2>2, <2>3
  <2>5. ClosedBelowThreshold'
    BY <2>1, <2>2
  <2>6. RecoveryInv'
    <3>1. CASE state = "closed"
      BY <2>1, <2>2, <2>3, <3>1
    <3>2. CASE state # "closed"
      BY <2>1, <2>2, <2>3, <3>2
    <3> QED
      BY <3>1, <3>2
  <2> QED
    BY <2>4, <2>5, <2>6
<1>6. ASSUME NEW c \in Callers, Cancel(c) PROVE IInv'
  BY <1>6 DEF Cancel
<1>7. CASE UNCHANGED vars
  BY <1>7 DEF vars
<1> QED
  BY <1>1, <1>2, <1>3, <1>4, <1>5, <1>6, <1>7 DEF Next

\* The inductive invariant of the breaker holds throughout.
THEOREM Invariance == Spec => []IInv
<1>1. Init => IInv
  BY BreakerAssumption DEF Init, IInv, TypeOK, ClosedBelowThreshold, RecoveryInv
<1> QED
  BY <1>1, Inductive, PTL DEF Spec

\* The fields of the breaker stay in their ranges, the counter of test calls included;
\* how many test calls run at once is not bounded by it.
THEOREM TypeCorrect == Spec => []TypeOK
<1>1. IInv => TypeOK
  BY DEF IInv
<1> QED
  BY <1>1, Invariance, PTL

\* A closed breaker never has reached its threshold.
THEOREM ClosedIsHealthy == Spec => []ClosedBelowThreshold
<1>1. IInv => ClosedBelowThreshold
  BY DEF IInv
<1> QED
  BY <1>1, Invariance, PTL

\* Only a cancelled call or a late success can leave the breaker stuck half open.
THEOREM StuckOnlyAfterLapse == Spec => []WedgedOnlyAfterLapse
<1>1. IInv => WedgedOnlyAfterLapse
  BY DEF IInv, RecoveryInv, Wedged, WedgedOnlyAfterLapse
<1> QED
  BY <1>1, Invariance, PTL

\* A breaker that is stuck half open refuses every call from then on.
THEOREM StuckForGood == Spec => WedgedForGood
<1>1. IInv /\ Wedged /\ [Next]_vars => Wedged'
  <2> SUFFICES ASSUME IInv, Wedged, [Next]_vars PROVE Wedged'
    OBVIOUS
  <2> USE DEF Wedged
  <2>1. CASE Cool \/ UNCHANGED vars
    BY <2>1 DEF Cool, vars
  <2>2. ASSUME NEW c \in Callers, Admit(c) PROVE FALSE
    BY <2>2, BreakerAssumption DEF Admit, IInv, TypeOK
  <2>3. ASSUME NEW c \in Callers, Refuse(c) PROVE Wedged'
    BY <2>3 DEF Refuse, vars
  <2>4. ASSUME NEW c \in Callers, Succeed(c) \/ Fail(c) \/ Cancel(c) PROVE FALSE
    BY <2>4 DEF Succeed, Fail, Cancel
  <2> QED
    BY <2>1, <2>2, <2>3, <2>4 DEF Next
<1> QED
  BY <1>1, Invariance, PTL DEF Spec, WedgedForGood
=============================================================================
