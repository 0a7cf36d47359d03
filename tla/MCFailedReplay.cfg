SPECIFICATION Spec
CONSTANTS
  Models <- PlainModel
  MaxMessages = 3
CHECK_DEADLOCK FALSE
INVARIANTS
  FailedNotReplayed
