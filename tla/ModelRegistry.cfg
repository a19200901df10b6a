\* Two activations of two versions, a scoring, an API process and a Celery worker,
\* with every model file missing, refused by onnxruntime or good.
CONSTANTS
  Processes = {p1, p2}
  Api = {p1}
  Activations = {a1, a2}
  Scorings = {s1}
  Versions = {v1, v2}
  Default = v1
  DefaultFile = f0
  MaxRestarts = 1
  None = None
SPECIFICATION Spec
INVARIANTS
  TypeOK
  OneActive
  LabelNamesModel
  ServedWasActivated
PROPERTY StaysReady
