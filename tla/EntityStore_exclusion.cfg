\* Creations without a spec version, deletions, and statuses replaced whole.
CONSTANTS
  Requests = {r1, r2, r3, r4}
  Fields = {f1}
  Values = {v1, v2}
  Ops = {"create", "delete", "replace_status"}
  CreateVersions <- CreateVersionsDefault
  UpdateVersions = {1}
  SpecOnly = FALSE
  None = None
  IdentityHash = IdentityHash
SPECIFICATION Spec
SYMMETRY SymmetryAll
PROPERTIES CreationInserts StatusSeenBeforeOverwrite
CHECK_DEADLOCK FALSE
