\* Three requests of any kind.
CONSTANTS
  Requests = {r1, r2, r3}
  Fields = {f1}
  Values = {v1, v2}
  Ops = {"create", "update", "delete", "replace_status", "update_status"}
  CreateVersions <- CreateVersionsAll
  UpdateVersions = {1, 2}
  SpecOnly = FALSE
  None = None
  IdentityHash = IdentityHash
SPECIFICATION Spec
SYMMETRY SymmetryAll
INVARIANTS TypeOK SpecHistory BuriedBeforeGone LiveIsNotBuried SpeclessFollowsBurial
CHECK_DEADLOCK FALSE
