\* Two changes of an entity with one field.
CONSTANTS
  f1 = f1
  v1 = v1
  Fields = {f1}
  Values = {v1, v2}
  Compound = {}
  Signatures <- OneSignature
  Updates = {u1, u2}
  CreateVersions = {0, 1}
  UpdateVersions = {1, 2}
  Given <- OneStatus
  None = None
SPECIFICATION Spec
SYMMETRY SymmetryUpdates
INVARIANTS TypeOK OnlySuperseded
PROPERTIES DeletedStaysDeleted
CHECK_DEADLOCK FALSE
