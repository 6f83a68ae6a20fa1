SPECIFICATION Spec
CONSTANTS
  QueueName = {"orders", "dead"}
  MessageId = {m1}
  Replica = {n1, n2}
  Session = {x1, x2}
  Configs <- ConfigsDLQ
  AutoDLQ = {"orders"}
  Deletable = {}
  MaxAttemptsInput = {1}
  Delay = {}
  LeaseDuration = {1}
  HeartbeatTimeout = 0
  ExtendStep = 1
  MaxExtension = 1
  MaxRenewals = 0
  Extension = {0}
  RetentionPeriod = 1
  BatchSize = 2
  SerialWriters = FALSE
  ClockLag = 1
  MaxTime = 3
  MaxRows = 2
  MaxClaims = 3
INVARIANTS OneOwner
PROPERTIES AttemptEndsOnce LiveLeaseIsSafe FollowsLifecycle
CHECK_DEADLOCK FALSE
