SPECIFICATION Spec
CONSTANTS
  QueueName = {"orders"}
  MessageId = {m1, m2}
  Replica = {n1}
  Session = {}
  Configs <- ConfigsExclusive
  AutoDLQ = {}
  Deletable = {}
  MaxAttemptsInput = {2}
  Delay = {}
  LeaseDuration = {1}
  HeartbeatTimeout = 0
  ExtendStep = 1
  MaxExtension = 0
  MaxRenewals = 0
  Extension = {0}
  RetentionPeriod = 1
  BatchSize = 2
  SerialWriters = TRUE
  ClockLag = 0
  MaxTime = 2
  MaxRows = 2
  MaxClaims = 2
INVARIANTS ExclusiveRunning
CHECK_DEADLOCK FALSE
