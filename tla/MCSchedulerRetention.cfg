SPECIFICATION Spec
CONSTANTS
  Timers = {}
  Prompts = {p1}
  Callbacks = {}
  Declared = {}
  None = None
  Period = 1
  Delay = 1
  Lifetime = 4
  Retention = 1
  MaxClock = 4
  CanFail = FALSE
  CanEvict = FALSE
CHECK_DEADLOCK FALSE
INVARIANTS
  LatestRunKept
