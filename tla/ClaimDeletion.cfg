\* One row and one request.
CONSTANTS
  Rows = {d1}
  Cards = {k1}
  Deletions = {q1}
  MaxCrashes = 0
  None = None
SPECIFICATION Spec
PROPERTY DeletionErases
