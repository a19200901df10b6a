\* One delivery of a chargeback whose payload has no id to look up (Square), and one
\* reviewer; one retry and one lost worker, so that a retry may leave two messages.
\* No symmetry: it is not sound for liveness.
CONSTANTS
  Webhooks = {w1}
  Reviews = {r1}
  Chargebacks = {c1}
  Keyed = {}
  MaxRetries = 1
  MaxCrashes = 1
  AutoSubmit = TRUE
  None = None
SPECIFICATION FairSpec
PROPERTIES
  TasksUseUp
  TasksEnd
  AcceptedIsDecided
