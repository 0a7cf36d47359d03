SPECIFICATION PackSpec
CONSTANTS
  Inbounds = {"m1", "m2", "m3"}
  AccountOf <- Accounted
  SenderOf <- OneSender
  Keys <- Buckets
  LimitOf <- Limits
  MinuteTicks = 3
  HourTicks = 6
  MaxClock = 14
  Lengths = {5}
  MAX_MESSAGE_LENGTH = 2
  MAX_CHUNKS = 2
  SuffixLength = 1
  Nobody = "nobody"
  MaxAdmin = 1
  MaxTurns = 1
  MaxRestarts = 1
  MaxTasks = 2
  Versions = {"v1", "v2", "v3"}
  Hosts <- Deployments
  Poison = {"v2"}
  Rebuilt <- Rebuilds
  Turns = {"t1", "t2"}
  Surfaces = {"s1"}
  MaxFailures = 2
  MaxChanges = 1
  Sessions = {1, 2, 3}
  Sockets = {"c1", "c2"}
  Peers = {"p1"}
  NoId = NoId
  TicksPerSecond = 2
  TicksPerDay = 4
  LastTick = 5
  CanClear = TRUE
  CanHibernate = TRUE
  MaxBroadcasts = 4
  MaxSqlOps = 4
  MAX_INFERENCE_ITERATIONS_PER_TURN = 2
  MaxDeltas = 1
  MaxCalls = 2
  CanExpire = TRUE
  Chats = {1, 2}
  UserOps = {"prompt", "queue", "switch"}
  PageLimit = 1
  MaxMsgs = 3
  MaxMoves = 2
CHECK_DEADLOCK FALSE
INVARIANTS
  GuardedDispatch
  BundleTurnAnswered
  DeliveredRowGone
  BrowserCatchesUp
  ChannelAnswers
  RateBounded
PROPERTY
  SessionsKept
