SPECIFICATION DeliverySpec
CONSTANTS
  Events = {e1, e2}
  TxEvents = {e1}
  Relays = {p1, p2}
  BatchSize = 2
  MaxAttempts = 3
  MaxFaults = 2
  NoteEvents = {x1}
  NoteUsers = {u1, u2}
  NoteWorkers = {p1, p2}
  Streams = {s1}
  ImpTarget = u1
  NoEvent = NoEvent
  NoUser = NoUser
  MaxPerUser = 1
  Buffer = 1
  MaxCopies = 2
  MaxNoteFaults = 1
  MaxOpens = 1
  HttpReqs = {p1, p2}
  SlotLimits = {1, 2}
  AuditQueueSize = 1
  AuditBatchSize = 2
  MaxAuditTries = 2
  MaxAuditFaults = 2
  Subs = {y1, y2}
  Workers = {w1}
  Editors = {ed1}
  Contents = {a, b}
  SendBatch = 1
  SendAttempts = 2
  MaxClock = 2
  MaxSends = 2
  MaxChanges = 1
SYMMETRY Symmetry
INVARIANTS NotificationsInvariant AuditInvariant IssueInvariant
PROPERTIES OutboxCorrect IssueSteps
CHECK_DEADLOCK FALSE
