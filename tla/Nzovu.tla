------------------------------- MODULE Nzovu --------------------------------
(***************************************************************************)
(* Nzovu's message service: the queue, message and DLQ APIs and the        *)
(* background services of all replicas on one database, and the properties *)
(* that make it a supervised, persistent queue.                            *)
(***************************************************************************)
EXTENDS Queues, Messages, DLQ, Background

Init ==
  /\ clock = 0
  /\ queues = [q \in QueueName |-> NoQueue]
  /\ counts = [q \in QueueName |-> [s \in State |-> 0]]
  /\ rows = [r \in RowId |-> NoRow]
  /\ nextRow = 1
  /\ nextToken = 1
  /\ dlqTx = [x \in Session |-> Idle]
  /\ expired = [n \in Replica |-> {}]
  /\ due = [n \in Replica |-> {}]
  /\ outcome = [t \in Token |-> "none"]

Tick ==
  /\ clock < MaxTime
  /\ clock' = clock + 1
  /\ UNCHANGED <<queues, counts, rows, nextRow, nextToken, dlqTx, expired, due,
                 outcome>>

Admin ==
  \E q \in QueueName : CreateQueue(q) \/ DeleteQueue(q)

Producer ==
  \E q \in QueueName, m \in MessageId :
    \/ EnqueueMessage(q, m)
    \/ \E m2 \in MessageId : EnqueueMessagesBulk(q, m, m2)
    \/ CancelMessage(q, m)

Consumer ==
  \E q \in QueueName :
    \/ ClaimMessage(q)
    \/ \E m \in MessageId, t \in Token :
         \/ AcknowledgeMessage(q, m, t)
         \/ NackMessage(q, m, t)
         \/ ExtendMessageLease(q, m, t)
         \/ HeartbeatMessage(q, m, t)

DLQCalls ==
  \/ \E q \in QueueName : PurgeDLQBatch(q)
  \/ \E x \in Session :
       \/ \E q \in QueueName, m \in MessageId :
            \/ BeginDeleteDLQMessage(x, q, m)
            \/ \E target \in QueueName : BeginRetryDLQMessage(x, q, m, target)
       \/ RetryDLQMessage(x)
       \/ DeleteDLQMessage(x)

Scheduler(n) ==
  \/ CollectScheduledMessages(n)
  \/ \E item \in due[n] : ActivateMessage(n, item[1], item[2])

Reclaimer(n) ==
  \/ \E q \in QueueName : FindExpiredMessages(n, q)
  \/ \E item \in expired[n] : ReclaimExpiredMessage(n, item)

Next ==
  \/ Tick
  \/ Admin
  \/ Producer
  \/ Consumer
  \/ DLQCalls
  \/ \E n \in Replica : Scheduler(n) \/ Reclaimer(n)
  \/ CleanupExpiredBatch

Spec == Init /\ [][Next]_vars

\* The background services run on tickers for as long as a replica lives and
\* a DLQ call finishes its transaction.  Nothing is assumed of producers,
\* workers and operators.
Fairness ==
  /\ \A x \in Session : WF_vars(RetryDLQMessage(x) \/ DeleteDLQMessage(x))
  /\ \A n \in Replica :
       /\ WF_vars(Scheduler(n))
       /\ \A q \in QueueName : WF_vars(FindExpiredMessages(n, q))
       /\ WF_vars(\E item \in expired[n] : ReclaimExpiredMessage(n, item))
  /\ WF_vars(CleanupExpiredBatch)

FairSpec == Spec /\ Fairness

-----------------------------------------------------------------------------
\* Nothing is stored under a primary key not yet given out, and every RUNNING
\* message is held by an attempt id that was.
RowsOK ==
  /\ rows \in [RowId -> Row]
  /\ \A r \in RowId : r >= nextRow => rows[r] = NoRow
  /\ \A r \in RowId : rows[r].state = "RUNNING" => rows[r].token \in 1..(nextToken - 1)

\* Exactly the attempt ids given out have a history.
OutcomeOK ==
  /\ outcome \in [Token -> Outcome]
  /\ \A t \in Token : t >= nextToken <=> outcome[t] = "none"

\* The tables, batches and histories hold values of the right shape.
TypeOK ==
  /\ clock \in 0..MaxTime
  /\ queues \in [QueueName -> Config \cup {NoQueue}]
  /\ counts \in [QueueName -> [State -> Int]]
  /\ nextRow \in 1..(MaxRows + 1)
  /\ nextToken \in 1..(MaxClaims + 1)
  /\ RowsOK
  /\ OutcomeOK
  /\ dlqTx \in [Session -> DlqOp \cup {Idle}]
  /\ expired \in [Replica -> SUBSET ExpiredItem]
  /\ due \in [Replica -> SUBSET (RowId \X Nat)]

\* StateManager keeps cq_queues.state_counts by adding and subtracting, call by
\* call, and GetStateCounts reads them (GetQueueState counts the rows): at every
\* moment the counters are the numbers of rows.
CountersMatchRows ==
  \A q \in QueueName, s \in State :
    counts[q][s] = Cardinality({r \in RowId : rows[r].queue = q /\ rows[r].state = s})

\* A lease never outlives its policy: from the claim on, the worker has the
\* claimed duration and at most max_extension more, whatever mixture of
\* heartbeats and renewals it sends, and at most max_renewals of them.
LeaseWithinPolicy ==
  \A r \in RowId : rows[r].state = "RUNNING" =>
    /\ rows[r].lease - rows[r].start - rows[r].ext \in LeaseDuration
    /\ rows[r].ext \in 0..MaxExtension
    /\ MaxRenewals > 0 => rows[r].renew <= MaxRenewals

\* A message is handed out at most max_attempts times between being posted
\* (or requeued from a DLQ) and ending: nacks and expired leases spend the
\* same budget, and neither loses nor gains an attempt against the other.
AttemptsBounded ==
  \A r \in RowId : rows[r].max >= 1 => rows[r].runs <= rows[r].max

\* Every attempt that nobody has ended is the current attempt of exactly one
\* RUNNING message, and every RUNNING message has such an attempt: no two
\* workers own one message and no message runs without an owner on record.
OneOwner ==
  /\ \A t \in Token : outcome[t] = "held" <=>
       Cardinality({r \in RowId : rows[r].state = "RUNNING" /\ rows[r].token = t}) = 1
  /\ \A r \in RowId : rows[r].state = "RUNNING" => rows[r].token \in Token

\* An EXCLUSIVE queue has at most one message with an unexpired lease.
ExclusiveLease ==
  \A q \in QueueName : queues[q].exclusive =>
    Cardinality({r \in RowId : /\ rows[r].queue = q /\ rows[r].state = "RUNNING"
                               /\ rows[r].lease > clock}) <= 1

\* queue.proto:22, "Only one message can hold a RUNNING lease in this queue at
\* a time", and queue.proto:70, "While an exclusive message is RUNNING, other
\* claims return no message".
ExclusiveRunning ==
  \A q \in QueueName : queues[q].exclusive =>
    Cardinality({r \in RowId : rows[r].queue = q /\ rows[r].state = "RUNNING"}) <= 1

\* A message that still has to be processed is never marked for deletion:
\* claims do not see such a row and the cleanup service deletes it.
WaitingIsKept ==
  \A r \in RowId : rows[r].state \in {"INVISIBLE", "PENDING", "RUNNING"} =>
    rows[r].deleted = NULL

\* No message is visible to workers before its scheduled time, although the
\* scheduler acts on a list it read earlier and ids are reused.
NoEarlyDelivery ==
  \A r \in RowId : rows[r].state \notin {"NONE", "INVISIBLE", "CANCELED"} =>
    rows[r].sched <= clock

-----------------------------------------------------------------------------
\* An attempt ends once: after an ack, a nack or a reclaim no later call with
\* its id succeeds and no reclaimer ends it again (stale-worker protection).
AttemptEndsOnce ==
  [][\A t \in Token : outcome[t] \notin {"none", "held"} => outcome'[t] = outcome[t]]_vars

\* While its lease and heartbeat are unexpired, only the owner's ack or nack
\* ends an attempt (or an operator deletes the queue): not the reclaimer,
\* which read its list of expired messages earlier.
LiveLeaseIsSafe ==
  [][\A r \in RowId :
       /\ rows[r].state = "RUNNING" /\ ~IsExpired(rows[r], clock)
       /\ rows'[r].token # rows[r].token
       => outcome'[rows[r].token] \in {"acked", "nacked"} \/ Admin]_vars

\* A lease that has run out is never brought back by a late renewal or
\* heartbeat: the message goes to a new attempt or ends.
ExpiredStaysExpired ==
  [][\A r \in RowId : IsExpired(rows[r], clock) /\ rows'[r].token = rows[r].token
       => IsExpired(rows'[r], clock')]_vars

\* COMPLETED, CANCELED and ERRORED messages are not processed again, unless
\* they are requeued from a DLQ with their attempts reset.
TerminalIsFinal ==
  [][\A r \in RowId : rows[r].state \in Terminal /\ rows'[r].state # rows[r].state =>
       \/ rows'[r].state = "NONE"
       \/ /\ rows[r].state = "ERRORED" /\ rows'[r].state = "PENDING"
          /\ rows'[r].attempts = rows'[r].max]_vars

-----------------------------------------------------------------------------
\* A message whose lease or heartbeat has expired is taken from its worker.
ExpiredIsReclaimed ==
  \A r \in RowId, t \in Token :
    (rows[r].token = t /\ IsExpired(rows[r], clock)) ~> ~(rows[r].token = t /\ rows[r].state = "RUNNING")

\* A delayed message becomes visible (or is cancelled) once its time has come.
DueIsActivated ==
  \A r \in RowId :
    (rows[r].state = "INVISIBLE" /\ rows[r].sched <= clock) ~> (rows[r].state # "INVISIBLE")

\* What RETAIN_DURATION no longer keeps is deleted.
RetentionEnds ==
  \A r \in RowId :
    (rows[r].deleted # NULL /\ rows[r].deleted <= clock) ~> (rows[r].deleted = NULL)

-----------------------------------------------------------------------------
\* The tables seen as the documented state diagram.
Lifecycle == INSTANCE MessageLifecycle WITH
  Message <- RowId,
  Withdrawals <- Deletable # {},
  status  <- [r \in RowId |-> IF r >= nextRow THEN "NEW"
                              ELSE IF rows[r].state = "NONE" THEN "GONE"
                              ELSE rows[r].state],
  owner   <- [r \in RowId |-> IF rows[r].state = "RUNNING" THEN rows[r].token ELSE 0],
  issued  <- nextToken - 1

\* Every behaviour of the service is one of the state diagram in
\* message.proto: no step of any API, batch or background service moves a
\* message along an edge the diagram does not have.
FollowsLifecycle == Lifecycle!Spec

=============================================================================
