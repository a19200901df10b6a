\* Two runs of the agent and one task with a retry, two letters.
CONSTANTS
  Runs = {n1, n2}
  Tasks = {t1}
  Letters = {l1, l2}
  Blank = Blank
  Placeholder = Placeholder
  MaxRetries = 1
  None = None
SPECIFICATION Spec
INVARIANTS
  TypeOK
  EvidenceIsFiled
PROPERTY KeepsPromise
