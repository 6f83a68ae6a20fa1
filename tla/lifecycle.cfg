SPECIFICATION Spec
CONSTANTS
  QueueName = {"orders", "dead"}
  MessageId = {m1, m2}
  Replica = {n1}
  Session = {x1}
  Configs <- ConfigsDLQ
  AutoDLQ = {"orders"}
  Deletable = {"orders", "dead"}
  MaxAttemptsInput = {2}
  Delay = {1}
  LeaseDuration = {1}
  HeartbeatTimeout = 0
  ExtendStep = 1
  MaxExtension = 1
  MaxRenewals = 0
  Extension = {0}
  RetentionPeriod = 1
  BatchSize = 2
  SerialWriters = TRUE
  ClockLag = 0
  MaxTime = 3
  MaxRows = 2
  MaxClaims = 3
INVARIANTS TypeOK CountersMatchRows AttemptsBounded
PROPERTIES TerminalIsFinal FollowsLifecycle
CHECK_DEADLOCK FALSE
