\* A change of an entity that the listener is looking at.
CONSTANTS
  f1 = f1
  Fields = {f1}
  Values = {v1, v2}
  Compound = {}
  Signatures <- OneSignature
  Updates = {u1}
  CreateVersions = {1}
  UpdateVersions = {1}
  Given <- WholeStatuses
  None = None
SPECIFICATION SpecHistory
SYMMETRY SymmetryAll
INVARIANTS CompletedWasSet
CHECK_DEADLOCK FALSE
