SPECIFICATION OperationsSpec
CONSTANTS
  ImpIDs = {i1, i2}
  ImpReqs = {r1, r2}
  NoImp = NoImp
  Permissions = {"edit"}
  MaxFamilies = 2
  MaxImpOps = 2
  MaxRequests = 2
  Askers = {a1}
  Processors = {p1, p2}
  MaxTries = 2
  MaxPuts = 2
  MaxLost = 1
INVARIANTS ImpersonationInvariant PrivacyInvariant
PROPERTIES LapsedIsClosed RequestsSettle
CHECK_DEADLOCK FALSE
