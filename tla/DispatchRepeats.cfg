SPECIFICATION IssueSpec
CONSTANTS
  Subs = {s1, s2}
  Workers = {w1}
  Editors = {ed1}
  Contents = {a, b}
  SendBatch = 1
  SendAttempts = 2
  MaxClock = 2
  MaxSends = 2
  MaxChanges = 1
PROPERTIES SentAreSkipped
CHECK_DEADLOCK FALSE
