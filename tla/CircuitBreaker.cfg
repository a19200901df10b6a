\* Four callers, two failures to open, two test calls at a time.
CONSTANTS
  Callers = {c1, c2, c3, c4}
  FailureThreshold = 2
  HalfOpenMaxCalls = 2
SPECIFICATION Spec
INVARIANTS
  TypeOK
  ClosedBelowThreshold
  WedgedOnlyAfterLapse
