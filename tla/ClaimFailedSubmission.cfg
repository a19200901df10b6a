\* A submission the processor refuses.
CONSTANTS
  Webhooks = {w1}
  Reviews = {r1}
  Chargebacks = {c1}
  Keyed = {c1}
  MaxRetries = 0
  MaxCrashes = 0
  AutoSubmit = TRUE
  None = None
SPECIFICATION Spec
INVARIANT FailedSubmissionReviewed
