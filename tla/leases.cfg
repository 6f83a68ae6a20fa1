SPECIFICATION Spec
CONSTANTS
  QueueName = {"orders"}
  MessageId = {m1, m2}
  Replica = {n1}
  Session = {}
  Configs <- ConfigsExclusive
  AutoDLQ = {}
  Deletable = {}
  MaxAttemptsInput = {2}
  Delay = {}
  LeaseDuration = {1, 2}
  HeartbeatTimeout = 1
  ExtendStep = 2
  MaxExtension = 3
  MaxRenewals = 2
  Extension = {0, 1}
  RetentionPeriod = 1
  BatchSize = 2
  SerialWriters = TRUE
  ClockLag = 0
  MaxTime = 5
  MaxRows = 2
  MaxClaims = 3
INVARIANTS LeaseWithinPolicy ExclusiveLease
PROPERTIES ExpiredStaysExpired
CHECK_DEADLOCK FALSE
