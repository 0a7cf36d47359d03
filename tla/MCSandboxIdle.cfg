SPECIFICATION Spec
CONSTANTS
  Sessions = {1}
  CallsAtOnce = 2
  MaxCalls = 3
  MaxDeaths = 0
  TimerFires = FALSE
CHECK_DEADLOCK FALSE
INVARIANT
  ElevatedHasTimer
