SPECIFICATION Spec
CONSTANTS
  Prompts = {p1, p2}
  Steers = {s1}
  FollowUps = {}
  Sequential = FALSE
  OneAtATime = TRUE
  MaxIterations = 2
  MaxRetries = 1
  MaxCalls = 1
  MaxLog = 6
CHECK_DEADLOCK FALSE
INVARIANTS
  ResultsFollowCalls
