SPECIFICATION Spec
CONSTANTS
  Events = {e1}
  TxEvents = {e1}
  Relays = {r1}
  Copies = {c1, c2}
  BatchSize = 1
  MaxAttempts = 1
  MaxFaults = 1
  MaxRetries = 1
  BreakerFailures = 2
  MaxCrashes = 1
INVARIANTS AppliedAtMostOnce TrialIsAlone NothingLost PipelineSound
PROPERTIES EventuallySettled
CHECK_DEADLOCK FALSE
