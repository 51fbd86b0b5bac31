\* Two callers, two entities, one diff.
CONSTANTS
  Keys = {k1, k2}
  Diffs = {d1}
  Editors = {e1, e2}
  NoDoc = NoDoc
  Hash <- MCHash
SPECIFICATION FairSpec
INVARIANTS TypeOK HashMatchesEntries CopyIsEditOfItsHash
PROPERTIES AtomicEdits LockFree
