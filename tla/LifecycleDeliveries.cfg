\* Two deliveries of one chargeback, two reviewers who contend with the workers for
\* its row, one lost worker; what raises is not tried again (LifecycleLiveness).
CONSTANTS
  Webhooks = {w1, w2}
  Reviews = {r1, r2}
  Chargebacks = {c1}
  Keyed = {c1}
  MaxRetries = 0
  MaxCrashes = 1
  AutoSubmit = TRUE
  None = None
SPECIFICATION Spec
SYMMETRY Symmetry
INVARIANTS
  TypeOK
  UniqueDispute
  TasksOfKnownDisputes
  AuditLineage
  NotStranded
  ApprovalIsQueued
  HumanInTheLoop
PROPERTIES
  RejectFinalUnlessRerun
  KeepsContract
