------------------------------ MODULE Storage ------------------------------
(***************************************************************************)
(* The two tables every component of Nzovu works on, cq_queues and         *)
(* cq_messages, with the shared helpers of pkg/repository/sql: the clock,  *)
(* the per-queue state counters and the lease arithmetic.                  *)
(*                                                                         *)
(* One database transaction is one action.  A column that no statement     *)
(* ever compares (payload, completed_at, updated_at, reason...) is left    *)
(* out.  current_attempt_id and current_worker_id are set, compared and    *)
(* cleared together by every worker call, so one token stands for both.    *)
(* SQL's NULL is -1 in a column of times or tokens.                        *)
(***************************************************************************)
EXTENDS Integers, FiniteSets

CONSTANTS
  QueueName,         \* names of queues
  MessageId,         \* message ids chosen by producers
  Replica,           \* server processes, each with its background services
  Session,           \* concurrent DLQ administration calls
  Configs,           \* [QueueName -> SUBSET Config]: what CreateQueue may ask
  AutoDLQ,           \* queues that are created with auto_create_dlq
  Deletable,         \* queues an operator may delete
  MaxAttemptsInput,  \* max_attempts of posted messages: -1 or positive
  Delay,             \* scheduled_time minus now of scheduled messages
  LeaseDuration,     \* base lease and per-claim overrides
  HeartbeatTimeout,  \* 0: heartbeats are off
  ExtendStep, MaxExtension, MaxRenewals,
  Extension,         \* requested renewals; 0: the caller leaves it unset
  RetentionPeriod,
  BatchSize,         \* LIMIT of the background services' queries
  SerialWriters,     \* TRUE: SQLite, BEGIN IMMEDIATE; FALSE: PostgreSQL
  ClockLag,          \* how far the time a statement uses may trail the clock
  MaxTime, MaxRows, MaxClaims   \* bounds

VARIABLES
  clock,        \* milliseconds, on a coarse scale
  queues,       \* cq_queues: configuration of every queue name
  counts,       \* cq_queues.state_counts
  rows,         \* cq_messages, by primary key
  nextRow,      \* next primary key
  nextToken,    \* next attempt id
  dlqTx,        \* per session: the DLQ transaction that has done its SELECT
  expired,      \* per replica: what FindExpiredMessages returned, unprocessed
  due,          \* per replica: what collectScheduledMessages returned
  outcome       \* per attempt id: how the attempt ended (history)

vars == <<clock, queues, counts, rows, nextRow, nextToken, dlqTx, expired,
          due, outcome>>

-----------------------------------------------------------------------------
NULL == -1

State == {"INVISIBLE", "PENDING", "RUNNING", "COMPLETED", "CANCELED", "ERRORED"}
Terminal == {"COMPLETED", "CANCELED", "ERRORED"}

Retention == {"DELETE_IMMEDIATELY", "RETAIN_DURATION", "RETAIN_FOREVER"}

\* What the relevant part of QueueMetadata says; dlq = "" means no DLQ, policy
\* says whether there is a lease policy.
Config == [exists: {TRUE}, dlq: QueueName \cup {""}, retention: Retention,
           exclusive: BOOLEAN, policy: BOOLEAN]

\* The empty metadata CreateQueue gives an automatically created DLQ: in
\* particular no lease policy for messages to inherit.
PlainConfig == [exists |-> TRUE, dlq |-> "", retention |-> "DELETE_IMMEDIATELY",
                exclusive |-> FALSE, policy |-> FALSE]

NoQueue == [PlainConfig EXCEPT !.exists = FALSE]

RowId == 1..MaxRows
Token == 1..MaxClaims

\* runs is no column: it counts the claims since the message was posted or
\* requeued from a DLQ, for the properties.
Row == [state: State \cup {"NONE"}, queue: QueueName \cup {""},
        id: MessageId \cup {""}, policy: BOOLEAN, attempts: Int, max: Int, sched: Int,
        token: Int, start: Int, lease: Int, ext: Int, renew: Int, hb: Int,
        deleted: Int, runs: Int]

\* A primary key that is not in the table (not yet, or no longer).
NoRow == [state |-> "NONE", queue |-> "", id |-> "", policy |-> FALSE,
          attempts |-> 0, max |-> 0, sched |-> NULL, token |-> NULL, start |-> NULL,
          lease |-> NULL, ext |-> 0, renew |-> 0, hb |-> NULL,
          deleted |-> NULL, runs |-> 0]

Outcome == {"none", "held", "acked", "nacked", "reclaimed", "dropped"}

Idle == [kind |-> "idle", dlq |-> "", id |-> "", target |-> "", left |-> 0]
DlqOp == [kind: {"retry", "delete"}, dlq: QueueName, id: MessageId,
          target: QueueName \cup {""}, left: Int]

ExpiredItem == [queue: QueueName, id: MessageId \cup {""}, token: Int]

ASSUME ConstantsAssumption ==
  /\ "" \notin QueueName /\ "" \notin MessageId
  /\ Configs \in [QueueName -> SUBSET Config]
  /\ AutoDLQ \subseteq QueueName /\ Deletable \subseteq QueueName
  /\ MaxAttemptsInput \subseteq Int
  /\ \A n \in MaxAttemptsInput : n = -1 \/ n >= 1
  /\ Delay \subseteq Nat
  /\ LeaseDuration \subseteq Nat \ {0}
  /\ HeartbeatTimeout \in Nat /\ ExtendStep \in Nat /\ MaxExtension \in Nat
  /\ MaxRenewals \in Nat /\ Extension \subseteq Nat
  /\ RetentionPeriod \in Nat /\ BatchSize \in Nat \ {0}
  /\ SerialWriters \in BOOLEAN /\ ClockLag \in Nat
  /\ MaxTime \in Nat /\ MaxRows \in Nat /\ MaxClaims \in Nat

-----------------------------------------------------------------------------
\* The values a statement's nowMs may have.  The time is read in the server
\* process before the statement is sent, and the replicas' clocks differ.
NowMs == {t \in 0..clock : clock - t <= ClockLag}

\* SQLite opens every write transaction with BEGIN IMMEDIATE: no other writer
\* runs between its first and its last statement.
Writable == SerialWriters => \A x \in Session : dlqTx[x].kind = "idle"

IsDLQ(q) == \E p \in QueueName : queues[p].exists /\ queues[p].dlq = q

\* Rows of a (queue_name, message_id) pair: the UNIQUE key of cq_messages.
RowsOf(q, m) == {r \in RowId : rows[r].queue = q /\ rows[r].id = m}

\* What a LIMIT BatchSize query over the rows S may return, in whatever order
\* the rows come.
Batches(S) == {D \in SUBSET S : /\ Cardinality(D) <= BatchSize
                                /\ D = S \/ Cardinality(D) = BatchSize}

-----------------------------------------------------------------------------
(* StateManager: an UPDATE ... WHERE name = q, without effect when the      *)
(* queue is gone.                                                           *)

AddCount(c, q, s, n) ==
  [c EXCEPT ![q][s] = @ + (IF queues[q].exists THEN n ELSE 0)]

InsertCounter(q, s) == counts' = AddCount(counts, q, s, 1)

RemoveCounter(q, s) == counts' = AddCount(counts, q, s, -1)

\* Mutant: the target queue is not credited, the source queue is.
MoveCounterInSource(q1, s1, q2, s2) ==
  counts' = AddCount(AddCount(counts, q1, s1, -1), q1, s2, 1)

MoveCounter(q1, s1, q2, s2) ==
  counts' = AddCount(AddCount(counts, q1, s1, -1), q2, s2, 1)

UpdateCounters(q, s1, s2) == MoveCounter(q, s1, q, s2)

\* RemoveCounters once per queue and state of the deleted rows D.
RemoveCounters(D) ==
  counts' = [q \in QueueName |-> [s \in State |->
    counts[q][s] - Cardinality({r \in D : rows[r].queue = q /\ rows[r].state = s})]]

-----------------------------------------------------------------------------
\* calculateDeletion
HardDelete(q) == queues[q].retention = "DELETE_IMMEDIATELY"

DeletedAt(q, now) == IF queues[q].retention = "RETAIN_DURATION"
                     THEN now + RetentionPeriod ELSE NULL

\* Mutant: a lease is still good at the moment it ends.
OwnedRowsInclusive(q, m, t, now) ==
  {r \in RowsOf(q, m) : /\ rows[r].state = "RUNNING"
                        /\ rows[r].token = t
                        /\ rows[r].lease >= now
                        /\ rows[r].hb <= 0 \/ rows[r].hb >= now
                        /\ rows[r].deleted = NULL}

\* The WHERE clause of every worker call: q and m, RUNNING, owned by token t,
\* neither lease nor heartbeat expired.
OwnedRows(q, m, t, now) ==
  {r \in RowsOf(q, m) : /\ rows[r].state = "RUNNING"
                        /\ rows[r].token = t
                        /\ rows[r].lease > now
                        /\ rows[r].hb <= 0 \/ rows[r].hb > now
                        /\ rows[r].deleted = NULL}

\* The WHERE clause of the reclaimer.
IsExpired(row, now) ==
  /\ row.state = "RUNNING"
  /\ row.lease <= now \/ (row.hb > 0 /\ row.hb <= now)
  /\ row.deleted = NULL

\* The lease columns that every release of a message resets.
Released(row) == [row EXCEPT !.token = NULL, !.start = NULL, !.lease = NULL,
                             !.hb = NULL]
Cleared(row) == [Released(row) EXCEPT !.ext = 0, !.renew = 0]

\* Mutant: the message that goes back to the queue is marked for deletion.
RetriedMarked(row, left) ==
  [Cleared(row) EXCEPT !.state = "PENDING", !.attempts = left,
                       !.deleted = DeletedAt(row.queue, clock)]

\* A message that goes back to its queue with attempts left.
Retried(row, left) == [Cleared(row) EXCEPT !.state = "PENDING", !.attempts = left]

\* Mutant: the extension is not capped by what is left of it.
GrantedUncapped(used, requested) ==
  IF used >= MaxExtension THEN 0 ELSE IF requested > 0 THEN requested ELSE ExtendStep

\* ExtendLease: the granted extension, 0 when the lease cannot be extended.
Granted(used, requested) ==
  LET amount == IF requested > 0 THEN requested ELSE ExtendStep
      left   == MaxExtension - used
  IN  IF used >= MaxExtension THEN 0 ELSE IF amount > left THEN left ELSE amount

\* What happens to a message that has used its last attempt: moved to the
\* DLQ, deleted, or kept as ERRORED.  A message of the same id in the DLQ
\* makes the move violate the UNIQUE key: the transaction is rolled back.
DeadLetter(r, left, now) ==
  LET q       == rows[r].queue
      dlq     == queues[q].dlq
      errored == [Cleared(rows[r]) EXCEPT !.state = "ERRORED", !.attempts = left]
  IN  \/ /\ dlq # ""
         /\ RowsOf(dlq, rows[r].id) = {}
         /\ rows' = [rows EXCEPT ![r] = [errored EXCEPT !.queue = dlq]]
         /\ MoveCounter(q, "RUNNING", dlq, "ERRORED")
      \/ /\ dlq = "" /\ HardDelete(q)
         /\ rows' = [rows EXCEPT ![r] = NoRow]
         /\ RemoveCounter(q, "RUNNING")
      \/ /\ dlq = "" /\ ~HardDelete(q)
         /\ rows' = [rows EXCEPT ![r] = [errored EXCEPT !.deleted = DeletedAt(q, now)]]
         /\ UpdateCounters(q, "RUNNING", "ERRORED")

\* Attempts held on the rows D end without a worker's call.
Dropped(D) == [t \in Token |->
  IF \E r \in D : rows[r].state = "RUNNING" /\ rows[r].token = t
  THEN "dropped" ELSE outcome[t]]

=============================================================================
