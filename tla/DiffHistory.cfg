\* Two diffs of the only entity.
CONSTANTS
  d1 = d1
  d2 = d2
  Diffs = {d1, d2}
  DiffLists <- TwoSignatures
  Marked = Marked
  None = None
  Strategy = "random"
  OtherEntities = FALSE
  MaxDelay = 1
  MaxReruns = 0
SPECIFICATION SpecHistory
PROPERTIES DelayAwaited
