SPECIFICATION AnalyticsSpec
CONSTANTS
  DaysPerMonth = 2
  CohortDays = {1}
  CohortLookback = 1
  FloorDays = 2
  RetentionDays = 1
  DayRollupMonths = 1
  MaxSlot = 8
  ViewSlots = {1, 4, 6}
  TakeBackSlots = {5}
  ZoneSlots = {4}
  MaxZoneChanges = 1
  MaxExports = 2
  Builders = {p1, p2}
  MaxBuilds = 2
  MaxBuildersLost = 2
  Calls = {p1, p2}
  Events = {x1, x2}
  MaxSubjects = 2
  MaxConsentOps = 2
  QueueSize = 1
  BatchSize = 2
  LiveMinutes = 2
  ActiveMinutes = 1
  LiveMaxSessions = 1
  LiveSessions = {x1, x2}
  LiveQueueSize = 2
  MaxMinute = 3
  MaxLiveEvents = 3
  SaltReplicas = {r1, r2, r3}
  MaxDay = 3
  MaxSalts = 3
SYMMETRY Symmetry
INVARIANTS ExportsInvariant ConsentInvariant LiveInvariant
PROPERTIES RollupsCorrect
CHECK_DEADLOCK FALSE
