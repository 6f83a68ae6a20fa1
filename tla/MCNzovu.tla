------------------------------ MODULE MCNzovu -------------------------------
(* Instances of Nzovu for TLC: which configurations the queues may have.   *)
EXTENDS Nzovu

Queue(dlq, retention, exclusive) ==
  [exists |-> TRUE, dlq |-> dlq, retention |-> retention, exclusive |-> exclusive,
   policy |-> TRUE]

\* "orders" dead-letters into "dead".
ConfigsDLQ == [q \in QueueName |->
  {Queue(IF q = "orders" THEN "dead" ELSE "", "DELETE_IMMEDIATELY", FALSE)}]

\* Terminal messages are kept for RetentionPeriod or forever.
ConfigsRetain == [q \in QueueName |->
  {Queue("", "RETAIN_DURATION", FALSE), Queue("", "RETAIN_FOREVER", FALSE)}]

ConfigsExclusive == [q \in QueueName |-> {Queue("", "DELETE_IMMEDIATELY", TRUE)}]

\* -1 for a message that may be retried for ever.
AnyAttempts == {-1, 1, 2}

=============================================================================
