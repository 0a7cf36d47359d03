SPECIFICATION PackSpec
CONSTANTS
  Timers = {"t1"}
  Prompts = {"p1"}
  Callbacks = {}
  Declared = {}
  None = None
  Period = 2
  Delay = 1
  Lifetime = 2
  Retention = 1
  MaxClock = 3
  CanFail = TRUE
  CanEvict = FALSE
CHECK_DEADLOCK FALSE
INVARIANT
  RunningIsExecuting
PROPERTIES
  EveryMessageSettles
  DueIsHandled
  PoisonLeaves
  RemoteWorkEnds
  Reconnects
