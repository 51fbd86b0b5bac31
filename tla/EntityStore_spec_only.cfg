\* Two concurrent updates of a spec-only entity.
CONSTANTS
  Requests = {r1, r2}
  Fields = {f1}
  Values = {v1, v2}
  Ops = {"update"}
  CreateVersions <- CreateVersionsDefault
  UpdateVersions = {1, 2}
  SpecOnly = TRUE
  None = None
  IdentityHash = IdentityHash
SPECIFICATION Spec
SYMMETRY SymmetryAll
INVARIANTS SpecOnlyHasNoDiff
CHECK_DEADLOCK FALSE
