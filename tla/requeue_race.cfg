SPECIFICATION Spec
CONSTANTS
  QueueName = {"orders", "dead"}
  MessageId = {m1}
  Replica = {n1}
  Session = {x1, x2}
  Configs <- ConfigsDLQ
  AutoDLQ = {"orders"}
  Deletable = {}
  MaxAttemptsInput = {1}
  Delay = {}
  LeaseDuration = {1}
  HeartbeatTimeout = 0
  ExtendStep = 1
  MaxExtension = 0
  MaxRenewals = 0
  Extension = {0}
  RetentionPeriod = 1
  BatchSize = 2
  SerialWriters = FALSE
  ClockLag = 0
  MaxTime = 2
  MaxRows = 1
  MaxClaims = 2
INVARIANTS CountersMatchRows
CHECK_DEADLOCK FALSE
