SPECIFICATION ReplicasSpec
CONSTANTS
  Jobs = {"privacy_requests", "analytics_retention"}
  Replicas = {p1, p2}
  NoReplica = NoReplica
  Minute = 1
  Hour = 2
  MaxClock = 3
  MaxForced = 1
  MaxFaults = 1
  Members = {u1, u2}
  Custom = {"editor"}
  Instances = {i1, i2}
  RoleCalls = {c1, c2}
  NoMember = NoMember
  MaxRoleOps = 2
INVARIANTS SchedulerInvariant
PROPERTIES ScheduledJobStarts RolesCorrect
CHECK_DEADLOCK FALSE
