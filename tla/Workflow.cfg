\* Every run of the graph, for all four settings of the two flags.
CONSTANT None = None
SPECIFICATION Spec
INVARIANTS
  TypeOK
  AutoSubmitIsEarned
  DecidesOrRaises
PROPERTY KeepsRun RunEnds
