--------------------------- MODULE CircuitBreaker ---------------------------
(***************************************************************************)
(* CircuitBreaker.call: concurrent calls of one dependency.  The blocks    *)
(* under the lock await nothing, so each is one step; between them a call  *)
(* waits for the dependency while others come and go, and the state it was *)
(* admitted in may be long over when it returns.                           *)
(***************************************************************************)
EXTENDS Naturals

CONSTANTS
  Callers,            \* the coroutines that may be inside call() at a time
  FailureThreshold,
  HalfOpenMaxCalls

ASSUME BreakerAssumption ==
  /\ FailureThreshold \in Nat \ {0}
  /\ HalfOpenMaxCalls \in Nat \ {0}

VARIABLES
  state,
  failures,       \* _failure_count up to the threshold: what is above compares alike
  halfOpenCalls,
  cooled,         \* whether recovery_timeout has passed since _last_failure_time
  running,        \* the callers whose func is running
  lapses          \* history: what has happened to calls that the breaker overlooks

vars == <<state, failures, halfOpenCalls, cooled, running, lapses>>

Init ==
  /\ state = "closed"
  /\ failures = 0
  /\ halfOpenCalls = 0
  /\ cooled = TRUE
  /\ running = {}
  /\ lapses = {}

Cool ==
  /\ ~cooled
  /\ cooled' = TRUE
  /\ UNCHANGED <<state, failures, halfOpenCalls, running, lapses>>

\* Mutant: the slots of the last recovery are not given back.
AdmitWithOldSlots(c) ==
  /\ c \notin running
  /\ \/ state = "closed" /\ UNCHANGED <<state, halfOpenCalls>>
     \/ /\ state = "open" /\ cooled
        /\ state' = "half_open"
        /\ halfOpenCalls' = halfOpenCalls + 1
     \/ /\ state = "half_open" /\ halfOpenCalls < HalfOpenMaxCalls
        /\ halfOpenCalls' = halfOpenCalls + 1
        /\ UNCHANGED state
  /\ running' = running \cup {c}
  /\ UNCHANGED <<failures, cooled, lapses>>

\* The first block: a closed breaker lets everyone in; an open one that has
\* cooled turns half open with fresh slots, of which this call takes one; a half
\* open one lets in as many as it has slots.
Admit(c) ==
  /\ c \notin running
  /\ \/ state = "closed" /\ UNCHANGED <<state, halfOpenCalls>>
     \/ /\ state = "open" /\ cooled
        /\ state' = "half_open"
        /\ halfOpenCalls' = 1
     \/ /\ state = "half_open" /\ halfOpenCalls < HalfOpenMaxCalls
        /\ halfOpenCalls' = halfOpenCalls + 1
        /\ UNCHANGED state
  /\ running' = running \cup {c}
  /\ UNCHANGED <<failures, cooled, lapses>>

\* CircuitBreakerOpenError.
Refuse(c) ==
  /\ c \notin running
  /\ \/ state = "open" /\ ~cooled
     \/ state = "half_open" /\ halfOpenCalls >= HalfOpenMaxCalls
  /\ UNCHANGED vars

\* Mutant: a recovery forgets to clear the failures before it.
SucceedKeepingFailures(c) ==
  /\ c \in running
  /\ running' = running \ {c}
  /\ failures' = IF state = "half_open" THEN failures ELSE 0
  /\ state' = IF state = "half_open" THEN "closed" ELSE state
  /\ lapses' = IF state = "open" THEN lapses \cup {"late_success"} ELSE lapses
  /\ UNCHANGED <<halfOpenCalls, cooled>>

\* func returned: the failures are forgotten, in whatever state the breaker is
\* by now, and a half open breaker closes, whoever it is that returned.
Succeed(c) ==
  /\ c \in running
  /\ running' = running \ {c}
  /\ failures' = 0
  /\ state' = IF state = "half_open" THEN "closed" ELSE state
  /\ lapses' = IF state = "open" THEN lapses \cup {"late_success"} ELSE lapses
  /\ UNCHANGED <<halfOpenCalls, cooled>>

\* Mutant: only a closed breaker opens.
FailWhenClosed(c) ==
  /\ c \in running
  /\ running' = running \ {c}
  /\ failures' = IF failures < FailureThreshold THEN failures + 1 ELSE failures
  /\ state' = IF state = "closed" /\ failures' = FailureThreshold THEN "open" ELSE state
  /\ cooled' = FALSE
  /\ UNCHANGED <<halfOpenCalls, lapses>>

\* func raised an Exception.
Fail(c) ==
  /\ c \in running
  /\ running' = running \ {c}
  /\ failures' = IF failures < FailureThreshold THEN failures + 1 ELSE failures
  /\ state' = IF failures' = FailureThreshold THEN "open" ELSE state
  /\ cooled' = FALSE
  /\ UNCHANGED <<halfOpenCalls, lapses>>

\* The caller is cancelled in func, by a timeout around call() for one.
\* CancelledError is no Exception: neither block runs.
Cancel(c) ==
  /\ c \in running
  /\ running' = running \ {c}
  /\ lapses' = lapses \cup {"cancelled"}
  /\ UNCHANGED <<state, failures, halfOpenCalls, cooled>>

Next ==
  \/ Cool
  \/ \E c \in Callers : Admit(c) \/ Refuse(c) \/ Succeed(c) \/ Fail(c) \/ Cancel(c)

Spec == Init /\ [][Next]_vars

-----------------------------------------------------------------------------
\* The fields of the breaker stay in their ranges: its counter of test calls does not
\* pass its slots.  The test calls that run may be more than that: a failure opens the
\* breaker again and the next recovery counts from 0, with the old ones still running.
TypeOK ==
  /\ state \in {"closed", "open", "half_open"}
  /\ failures \in 0..FailureThreshold
  /\ halfOpenCalls \in 0..HalfOpenMaxCalls
  /\ cooled \in BOOLEAN
  /\ running \subseteq Callers
  /\ lapses \subseteq {"late_success", "cancelled"}

\* A closed breaker has not yet seen the failures it takes to open: the threshold
\* is never passed unnoticed, and a breaker closes with a clean count, however
\* late the calls return that were let in before it opened.
ClosedBelowThreshold == state = "closed" => failures < FailureThreshold

\* A half open breaker whose slots are used up refuses every call, and only a call
\* still running can move it on.
Wedged == state = "half_open" /\ halfOpenCalls >= HalfOpenMaxCalls /\ running = {}

\* The breaker is never stuck for good unless a call was cancelled, or one let in
\* before it opened succeeded after that.
WedgedOnlyAfterLapse == Wedged => lapses # {}

\* Nothing leads out of there, time least of all: recovery_timeout is looked at in
\* the open state only, so that every later call is refused.
WedgedForGood == [](Wedged => []Wedged)

-----------------------------------------------------------------------------
(* The inductive invariant: without a lapse the count of an open or half   *)
(* open breaker is at the threshold, so that the failure of any call opens *)
(* it, and a half open breaker has a call to wait for.                     *)
RecoveryInv ==
  lapses = {} => /\ state # "closed" => failures = FailureThreshold
                 /\ state = "half_open" => running # {}

IInv == TypeOK /\ ClosedBelowThreshold /\ RecoveryInv
=============================================================================
