\* Two rows, one card, one request and the daily scrub.
CONSTANTS
  Rows = {d1, d2}
  Cards = {k1}
  Deletions = {q1}
  MaxCrashes = 1
  None = None
SPECIFICATION FairSpec
INVARIANTS
  TypeOK
  TokenErased
  ContentErased
  WaitsAreSeen
PROPERTY
  DeletionEnds
