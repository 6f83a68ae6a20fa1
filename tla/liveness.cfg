SPECIFICATION FairSpec
CONSTANTS
  QueueName = {"orders"}
  MessageId = {m1}
  Replica = {n1, n2}
  Session = {}
  Configs <- ConfigsRetain
  AutoDLQ = {}
  Deletable = {}
  MaxAttemptsInput <- AnyAttempts
  Delay = {1}
  LeaseDuration = {2}
  HeartbeatTimeout = 1
  ExtendStep = 1
  MaxExtension = 1
  MaxRenewals = 0
  Extension = {0}
  RetentionPeriod = 1
  BatchSize = 2
  SerialWriters = FALSE
  ClockLag = 0
  MaxTime = 4
  MaxRows = 2
  MaxClaims = 2
INVARIANTS NoEarlyDelivery WaitingIsKept
PROPERTIES ExpiredIsReclaimed DueIsActivated RetentionEnds
CHECK_DEADLOCK FALSE
