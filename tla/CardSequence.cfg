\* Four scorings of a card's transactions, of the same one or not, and a deletion.
CONSTANTS
  Scorings = {s1, s2, s3, s4}
  Deletions = {q1}
  Records = {1, 2, 3}
  SequenceLength = 2
SYMMETRY Symmetry
SPECIFICATION Spec
INVARIANTS
  TypeOK
  KeepsNewest
  BoundedLength
  SelfUnseen
  Expiring
