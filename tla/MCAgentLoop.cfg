SPECIFICATION FairSpec
CONSTANTS
  Prompts = {p1}
  Steers = {s1, s2}
  FollowUps = {f1}
  Sequential = FALSE
  OneAtATime = TRUE
  MaxIterations = 2
  MaxRetries = 1
  MaxCalls = 2
  MaxLog = 4
CHECK_DEADLOCK FALSE
INVARIANTS
  CallsAnswered
  HistoriesAgree
PROPERTIES
  MailboxSpec
  RunEnds
