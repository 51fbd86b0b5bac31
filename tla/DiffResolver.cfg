\* Two diffs of one entity, among other entities.
CONSTANTS
  d1 = d1
  d2 = d2
  Diffs = {d1, d2}
  DiffLists <- TwoSignatures
  Marked = Marked
  None = None
  Strategy = "random"
  OtherEntities = TRUE
  MaxDelay = 1
  MaxReruns = 1
SPECIFICATION FairSpec
INVARIANTS TypeOK FlightIsWatched ListBounded
PROPERTIES EveryDiffIsCalled
