SPECIFICATION PackSpec
CONSTANTS
  Messages = {"m1", "m2", "m3"}
  None = "nobody"
  Gated = TRUE
  HasBundle = TRUE
  CanFail = TRUE
  CanDelete = TRUE
  CanManage = TRUE
  MaxRestarts = 1
  Sessions = {1, 2, 3}
  Bundled = {3}
  MaxGens = 4
  MaxSockets = 2
  Children = {1, 2}
  MaxConnects = 2
  MaxEvictions = 1
  Callers = {1, 2}
  Namespaces <- TwoNames
  Mapped <- TwoNames
  Values = {"default", "w"}
  Bad = "bad"
  MaxOps = 3
  Workers = {1, 2}
  CanWrite <- WritesAllowed
  MaxTasks = 3
  MaxDeps = 2
  Elevators = {1, 2}
  CallsAtOnce = 2
  MaxCalls = 4
  MaxDeaths = 1
  TimerFires = TRUE
  Ids = {"c1", "c2"}
  CanInterleave = FALSE
  MaxParts = 3
  Sizes = {2, 3}
  SummarySize = 1
  PrunedSize = 1
  Window = 8
  Limit = 6
  KeepRecent = 3
  PruneBudget = 3
  MaxEntries = 4
  Models <- TwoModels
  MaxMessages = 5
CHECK_DEADLOCK FALSE
INVARIANTS
  StreamingIsCurrent
  MessagesKept
  HistoryCovered
  TasksCanProceed
  ReelevateWaits
  ListsAreDisposed
  SnapshotIsStored
  SubagentReports
  StreamDelivered
  RequestValid
