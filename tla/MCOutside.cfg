SPECIFICATION PackSpec
CONSTANTS
  Timers = {t1}
  Prompts = {p1}
  Callbacks = {b1}
  Declared = {t1}
  None = None
  Period = 2
  Delay = 1
  Lifetime = 3
  Retention = 1
  MaxClock = 4
  CanFail = TRUE
  CanEvict = TRUE
  Calls = {1, 2}
  Builds = {"b"}
  Failing = {"copy", "point", "rm"}
  MaxId = 3
  Sessions = {1, 2}
  Overlap = {"calls"}
  ServiceFails = TRUE
  MaxBrowsers = 3
  MaxRestarts = 1
  MinutesPerHour = 2
  HoursPerDay = 3
  Days = {0, 1, 2}
  Zones <- SteadyOrBack
  MaxFrom = 10
  MaxIterations = 12
  Syncs = {1}
  Tools = {2}
  Requests = {3}
  MaxVersion = 3
  MaxEdits = 1
  MaxOps = 5
  MaxTurns = 2
CHECK_DEADLOCK FALSE
INVARIANTS
  AlarmCovers
  OccurrenceAtMostOnce
  NoOccurrenceSkipped
  AppsServable
  BrowsersAccounted
PROPERTY
  SkillsKept
PROPERTY
  FilesKept
