SPECIFICATION Spec
CONSTANTS
  Sizes = {3}
  SummarySize = 1
  PrunedSize = 1
  Window = 8
  Limit = 6
  KeepRecent = 3
  PruneBudget = 3
  MaxEntries = 5
CHECK_DEADLOCK FALSE
INVARIANT
  RecentSurvive
