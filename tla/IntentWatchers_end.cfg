\* One change of an entity with one field, seen to its end.
CONSTANTS
  f1 = f1
  v1 = v1
  Fields = {f1}
  Values = {v1, v2}
  Compound = {}
  Signatures <- OneSignature
  Updates = {u1}
  CreateVersions = {1}
  UpdateVersions = {1}
  Given <- WholeStatuses
  None = None
SPECIFICATION FairSpec
PROPERTIES WatchersEnd
CHECK_DEADLOCK FALSE
