--------------------------- MODULE NzovuRowProofs ---------------------------
(***************************************************************************)
(* What every step of Nzovu does to the messages, row by row, and the      *)
(* invariants that follow: attempts, visibility, retention, leases.        *)
(*                                                                         *)
(* EveryEffect sums up the twenty actions in eight kinds of step, with     *)
(* what the columns of a changed row have to do with the old ones.  Each   *)
(* invariant is then proved over the kinds.                                *)
(***************************************************************************)
EXTENDS NzovuProofs

-----------------------------------------------------------------------------
(* Columns: what the updates of the model leave alone.                      *)

\* Clearing the lease columns leaves the other columns alone.
LEMMA ClearedFields ==
  ASSUME NEW row \in Row
  PROVE  LET new == Cleared(row) IN
         /\ new.queue = row.queue /\ new.id = row.id /\ new.max = row.max
         /\ new.sched = row.sched /\ new.deleted = row.deleted /\ new.runs = row.runs
         /\ new.attempts = row.attempts /\ new.token = NULL
<1> DEFINE zero == 0
           first == Released(row)
<1>1. /\ first.queue = row.queue /\ first.id = row.id /\ first.max = row.max
      /\ first.sched = row.sched /\ first.deleted = row.deleted /\ first.runs = row.runs
      /\ first.attempts = row.attempts /\ first.token = NULL
  BY DEF Released, Row
<1>2. first \in Row BY ReleasedType
<1>3. Cleared(row) = [first EXCEPT !.ext = zero, !.renew = zero] BY DEF Cleared
<1> HIDE DEF first, zero
<1> QED BY <1>1, <1>2, <1>3 DEF Row

\* A retried message keeps its columns, but for the attempts.
LEMMA RetriedFields ==
  ASSUME NEW row \in Row, NEW left \in Int
  PROVE  LET new == Retried(row, left) IN
         /\ new.queue = row.queue /\ new.id = row.id /\ new.max = row.max
         /\ new.sched = row.sched /\ new.deleted = row.deleted /\ new.runs = row.runs
         /\ new.attempts = left /\ new.token = NULL /\ new.state = "PENDING"
<1>1. Cleared(row) \in Row BY ClearedType
<1> QED BY <1>1, ClearedFields DEF Retried, Row

\* A claim changes the lease columns and counts.
LEMMA ClaimedFields ==
  ASSUME NEW row \in Row, nextToken \in Int, NEW now \in Int, NEW d \in Int
  PROVE  LET new == Claimed(row, now, d) IN
         /\ new.queue = row.queue /\ new.id = row.id /\ new.max = row.max
         /\ new.sched = row.sched /\ new.deleted = row.deleted
         /\ new.attempts = row.attempts /\ new.runs = row.runs + 1
         /\ new.token = nextToken /\ new.state = "RUNNING"
<1> DEFINE hb == IF HeartbeatTimeout > 0 THEN now + HeartbeatTimeout ELSE 0
           runs == row.runs + 1
           lease == now + d
           zero == 0
           first == [row EXCEPT !.state = "RUNNING", !.token = nextToken, !.start = now]
           second == [first EXCEPT !.lease = lease, !.ext = zero, !.renew = zero]
<1>1. Claimed(row, now, d) = [second EXCEPT !.hb = hb, !.runs = runs]
  BY DEF Claimed
<1> HIDE DEF hb, runs, lease, zero
<1>2. /\ first.queue = row.queue /\ first.id = row.id /\ first.max = row.max
      /\ first.sched = row.sched /\ first.deleted = row.deleted
      /\ first.attempts = row.attempts
      /\ first.token = nextToken /\ first.state = "RUNNING"
  BY DEF Row
<1>3. first \in Row BY DEF Row, State
<1> HIDE DEF first
<1>4. /\ second.queue = row.queue /\ second.id = row.id /\ second.max = row.max
      /\ second.sched = row.sched /\ second.deleted = row.deleted
      /\ second.attempts = row.attempts
      /\ second.token = nextToken /\ second.state = "RUNNING"
  BY <1>2, <1>3 DEF Row
<1>5. zero \in Int /\ lease \in Int BY DEF zero, lease
<1>6. second \in Row BY <1>3, <1>5 DEF Row
<1> HIDE DEF second
<1>7. LET new == Claimed(row, now, d) IN
         /\ new.queue = row.queue /\ new.id = row.id /\ new.max = row.max
         /\ new.sched = row.sched /\ new.deleted = row.deleted
         /\ new.attempts = row.attempts /\ new.runs = runs
         /\ new.token = nextToken /\ new.state = "RUNNING"
  BY <1>1, <1>4, <1>6 DEF Row
<1> QED BY <1>7 DEF runs

\* A renewal changes only the lease columns.
LEMMA RenewedFields ==
  ASSUME NEW row \in Row, NEW amount, NEW hb, NEW renewals
  PROVE  LET new == Renewed(row, amount, hb, renewals) IN
         /\ new.queue = row.queue /\ new.id = row.id /\ new.max = row.max
         /\ new.sched = row.sched /\ new.deleted = row.deleted /\ new.runs = row.runs
         /\ new.attempts = row.attempts /\ new.token = row.token /\ new.state = row.state
<1> DEFINE lease == row.lease + amount
           ext   == row.ext + amount
<1>1. Renewed(row, amount, hb, renewals) =
        [row EXCEPT !.lease = lease, !.ext = ext, !.hb = hb, !.renew = renewals]
  BY DEF Renewed
<1> HIDE DEF lease, ext
<1> QED BY <1>1 DEF Row

\* A requeued message is PENDING in the target queue, with fresh attempts.
LEMMA RequeuedFields ==
  ASSUME NEW row \in Row, NEW op
  PROVE  LET new == Requeued(row, op) IN
         /\ new.queue = op.target /\ new.id = row.id /\ new.max = row.max
         /\ new.sched = row.sched /\ new.deleted = row.deleted /\ new.runs = 0
         /\ new.attempts = op.left /\ new.token = row.token /\ new.state = "PENDING"
<1> DEFINE zero == 0
<1>1. Requeued(row, op) = [row EXCEPT !.queue = op.target, !.state = "PENDING",
                                      !.attempts = op.left, !.runs = zero]
  BY DEF Requeued
<1> HIDE DEF zero
<1>2. LET new == Requeued(row, op) IN
         /\ new.queue = op.target /\ new.id = row.id /\ new.max = row.max
         /\ new.sched = row.sched /\ new.deleted = row.deleted /\ new.runs = zero
         /\ new.attempts = op.left /\ new.token = row.token /\ new.state = "PENDING"
  BY <1>1 DEF Row
<1> QED BY <1>2 DEF zero

\* A posted message.
LEMMA NewRowFields ==
  ASSUME NEW q, NEW m, NEW max, NEW left, NEW sched, NEW now
  PROVE  LET new == NewRow(q, m, max, left, sched, now) IN
         /\ new.queue = q /\ new.id = m /\ new.max = max /\ new.attempts = left
         /\ new.sched = sched /\ new.deleted = NULL /\ new.runs = 0
         /\ new.token = NULL
         /\ new.state = IF sched > now THEN "INVISIBLE" ELSE "PENDING"
BY DEF NewRow, NoRow

-----------------------------------------------------------------------------
(* What a step may do to the messages.                                      *)

Active(x) == dlqTx[x].kind # "idle"

\* The scheduler's lists were read in the past.
DueInv == \A n \in Replica : \A item \in due[n] : item[2] <= clock

OnlyRow(r) == \A p \in RowId \ {r} : rows'[p] = rows[p]

SameMessage(r) ==
  /\ rows'[r].id = rows[r].id /\ rows'[r].max = rows[r].max
  /\ rows'[r].sched = rows[r].sched

SamePlace(r) == SameMessage(r) /\ rows'[r].queue = rows[r].queue

\* Marked for deletion only as the queue's retention policy says.
Marked(r) == \/ rows'[r].deleted = NULL
             \/ queues[rows[r].queue].retention = "RETAIN_DURATION"

\* The attempt that holds r ends: by its owner, or because it has expired.
EndsAttempt(r) ==
  /\ rows[r].state = "RUNNING"
  /\ nextToken' = nextToken
  /\ \E how \in {"acked", "nacked", "reclaimed"} :
       /\ outcome' = [outcome EXCEPT ![rows[r].token] = how]
       /\ how = "reclaimed" => IsExpired(rows[r], clock)

Arrives(r) ==
  /\ rows[r].state = "INVISIBLE" /\ rows'[r].state = "PENDING"
  /\ rows[r].sched <= clock
  /\ SamePlace(r)
  /\ rows'[r].attempts = rows[r].attempts /\ rows'[r].runs = rows[r].runs
  /\ rows'[r].deleted = rows[r].deleted /\ rows'[r].token = rows[r].token
  /\ UNCHANGED <<nextToken, outcome>>

Starts(r) ==
  /\ rows[r].state = "PENDING" /\ rows'[r].state = "RUNNING"
  /\ rows[r].deleted = NULL /\ rows'[r].deleted = NULL
  /\ SamePlace(r)
  /\ rows'[r].attempts = rows[r].attempts /\ rows'[r].runs = rows[r].runs + 1
  /\ ~IsDLQ(rows[r].queue)
  /\ queues[rows[r].queue].exclusive =>
       \E now \in NowMs : ~HasActiveLease(rows[r].queue, now)
  /\ rows'[r].token = nextToken /\ nextToken' = nextToken + 1

Extends(r) ==
  /\ rows[r].state = "RUNNING" /\ rows'[r].state = "RUNNING"
  /\ SamePlace(r)
  /\ rows'[r].attempts = rows[r].attempts /\ rows'[r].runs = rows[r].runs
  /\ rows'[r].deleted = rows[r].deleted /\ rows'[r].token = rows[r].token
  /\ \E now \in NowMs : rows[r].lease > now /\ (rows[r].hb <= 0 \/ rows[r].hb > now)
  /\ UNCHANGED <<nextToken, outcome>>

Returns(r) ==
  /\ EndsAttempt(r) /\ rows'[r].state = "PENDING"
  /\ SamePlace(r)
  /\ rows'[r].runs = rows[r].runs /\ rows'[r].deleted = rows[r].deleted
  /\ rows'[r].token = NULL
  /\ rows[r].max >= 1 /\ rows[r].attempts >= 1 =>
       rows'[r].attempts = rows[r].attempts - 1 /\ rows'[r].attempts >= 1

Fails(r) ==
  /\ EndsAttempt(r) /\ rows'[r].state = "ERRORED"
  /\ SameMessage(r)
  /\ rows'[r].runs = rows[r].runs
  /\ rows'[r].token = NULL
  /\ \/ rows'[r].queue = rows[r].queue /\ Marked(r)
     \/ /\ queues[rows[r].queue].dlq # ""
        /\ RowsOf(queues[rows[r].queue].dlq, rows[r].id) = {}
        /\ rows'[r].queue = queues[rows[r].queue].dlq
        /\ rows'[r].deleted = rows[r].deleted

Completes(r) ==
  /\ EndsAttempt(r) /\ rows'[r].state = "COMPLETED"
  /\ ~HardDelete(rows[r].queue)
  /\ SamePlace(r) /\ Marked(r)
  /\ rows'[r].runs = rows[r].runs
  /\ rows'[r].token = NULL

Cancels(r) ==
  /\ rows[r].state \in {"INVISIBLE", "PENDING"} /\ rows'[r].state = "CANCELED"
  /\ ~HardDelete(rows[r].queue)
  /\ SamePlace(r) /\ Marked(r)
  /\ rows'[r].runs = rows[r].runs
  /\ UNCHANGED <<nextToken, outcome>>

Drops(r) ==
  /\ rows'[r] = NoRow
  /\ \/ EndsAttempt(r)
     \/ /\ rows[r].state \in {"INVISIBLE", "PENDING"}
        /\ UNCHANGED <<nextToken, outcome>>

\* The counters follow the row from its old to its new queue and state.
Tallied(r) ==
  /\ rows'[r] = NoRow => RemoveCounter(rows[r].queue, rows[r].state)
  /\ rows'[r] # NoRow =>
       MoveCounter(rows[r].queue, rows[r].state, rows'[r].queue, rows'[r].state)

\* A call or a background service changes one message.
Alters(r) ==
  /\ Writable
  /\ r < nextRow /\ OnlyRow(r)
  /\ UNCHANGED <<clock, queues, nextRow, dlqTx>>
  /\ \/ Extends(r) /\ counts' = counts
     \/ /\ Tallied(r)
        /\ \/ Arrives(r) \/ Starts(r) \/ Returns(r) \/ Fails(r)
           \/ Completes(r) \/ Cancels(r) \/ Drops(r)

\* A posted message, as the producer asked for it.
Fresh(q, r) ==
  /\ rows'[r].state \in {"INVISIBLE", "PENDING"}
  /\ rows'[r].state = "PENDING" => rows'[r].sched <= clock
  /\ rows'[r].queue = q /\ rows'[r].id \in MessageId
  /\ rows'[r].deleted = NULL /\ rows'[r].runs = 0
  /\ rows'[r].max >= 1 => rows'[r].attempts \in 1..rows'[r].max

\* One or two messages are counted.
TalliedPost(q) ==
  \/ nextRow' = nextRow + 1 /\ InsertCounter(q, rows'[nextRow].state)
  \/ /\ nextRow' = nextRow + 2 /\ nextRow + 1 \in RowId
     /\ counts' = AddCount(AddCount(counts, q, rows'[nextRow].state, 1),
                          q, rows'[nextRow + 1].state, 1)

Posts(q) ==
  /\ Writable
  /\ queues[q].exists /\ ~IsDLQ(q)
  /\ nextRow \in RowId /\ TalliedPost(q)
  /\ UNCHANGED <<clock, queues, nextToken, dlqTx, outcome>>
  /\ nextRow' \in Nat /\ nextRow' > nextRow
  /\ \A r \in RowId : IF nextRow <= r /\ r < nextRow'
                      THEN Fresh(q, r) /\ RowsOf(q, rows'[r].id) = {}
                      ELSE rows'[r] = rows[r]
  /\ \A r, p \in RowId :
       nextRow <= r /\ r < nextRow' /\ nextRow <= p /\ p < nextRow'
         /\ rows'[r].id = rows'[p].id => r = p

\* A batch of ended or outdated messages goes.
Removes(D) ==
  /\ Writable
  /\ UNCHANGED <<clock, queues, nextRow, nextToken, dlqTx>>
  /\ rows' = [r \in RowId |-> IF r \in D THEN NoRow ELSE rows[r]]
  /\ RemoveCounters(D)
  /\ outcome' = Dropped(D)
  /\ \A r \in D : rows[r].state = "ERRORED" \/ rows[r].deleted # NULL

\* Messages and queues are only looked at.
Reads ==
  /\ clock' >= clock
  /\ UNCHANGED <<queues, counts, rows, nextRow, nextToken, dlqTx, outcome>>

\* A DLQ call finds its message.
Selects(x) ==
  /\ Writable /\ ~Active(x)
  /\ UNCHANGED <<clock, queues, counts, rows, nextRow, nextToken, outcome>>
  /\ \E op \in DlqOp : \E r \in RowsOf(op.dlq, op.id) :
       /\ RequireDLQ(op.dlq)
       /\ rows[r].state = "ERRORED" /\ op.left = rows[r].max
       /\ op.kind = "retry" => op.target \in QueueName
       /\ dlqTx' = [dlqTx EXCEPT ![x] = op]

Finishes(x) ==
  /\ Active(x)
  /\ dlqTx' = [dlqTx EXCEPT ![x] = Idle]
  /\ UNCHANGED <<clock, queues, nextRow, nextToken>>

\* A DLQ call changes no message; a requeue that finds none moves counters.
Misses(x) ==
  /\ Finishes(x)
  /\ UNCHANGED <<rows, outcome>>
  /\ counts' = counts \/ RowsOf(dlqTx[x].dlq, dlqTx[x].id) = {}

Requeues(x, r) ==
  /\ Finishes(x)
  /\ r \in RowsOf(dlqTx[x].dlq, dlqTx[x].id)
  /\ dlqTx[x].kind = "retry"
  /\ queues[dlqTx[x].target].exists
  /\ RowsOf(dlqTx[x].target, dlqTx[x].id) \subseteq {r}
  /\ OnlyRow(r) /\ SameMessage(r)
  /\ rows'[r].queue = dlqTx[x].target /\ rows'[r].state = "PENDING"
  /\ rows'[r].attempts = dlqTx[x].left /\ rows'[r].runs = 0
  /\ rows'[r].deleted = rows[r].deleted /\ rows'[r].token = rows[r].token
  /\ MoveCounter(dlqTx[x].dlq, "ERRORED", dlqTx[x].target, "PENDING")
  /\ outcome' = Dropped({r})

Discards(x) ==
  LET D == RowsOf(dlqTx[x].dlq, dlqTx[x].id)
  IN  /\ Finishes(x)
      /\ rows' = [r \in RowId |-> IF r \in D THEN NoRow ELSE rows[r]]
      /\ RemoveCounter(dlqTx[x].dlq, "ERRORED")
      /\ outcome' = Dropped(D)

Effect ==
  \/ Reads
  \/ \E q \in QueueName : CreateQueue(q) \/ DeleteQueue(q) \/ Posts(q)
  \/ \E r \in RowId : Alters(r)
  \/ \E D \in SUBSET RowId : Removes(D)
  \/ \E x \in Session : Selects(x) \/ Misses(x) \/ Discards(x)
  \/ \E x \in Session, r \in RowId : Requeues(x, r)

-----------------------------------------------------------------------------
(* Every action is one of these steps.                                      *)

\* A step that changes the stored row r to row.
LEMMA OneRow ==
  ASSUME TypeOK, NEW r \in RowId, NEW row, rows' = [rows EXCEPT ![r] = row]
  PROVE  rows'[r] = row /\ OnlyRow(r)
BY Basics DEF OnlyRow

\* A message that is not NONE has been posted.
LEMMA PostedRow ==
  ASSUME TypeOK, NEW r \in RowId, rows[r].state # "NONE"
  PROVE  r < nextRow /\ rows[r] \in Row /\ rows[r] # NoRow
BY Basics, NoRowType

\* What expired in the past has expired.
LEMMA ExpiredLater ==
  ASSUME NEW row \in Row, NEW now \in Int, NEW later \in Int, now <= later,
         IsExpired(row, now)
  PROVE  IsExpired(row, later)
<1>1. row.lease \in Int /\ row.hb \in Int BY DEF Row
<1> QED BY <1>1 DEF IsExpired

\* calculateDeletion marks only what the policy says.
LEMMA DeletedAtMarks ==
  ASSUME NEW q, NEW now
  PROVE  DeletedAt(q, now) = NULL \/ queues[q].retention = "RETAIN_DURATION"
BY DEF DeletedAt

\* A posted message is what Fresh says, whatever the producer asks for.
LEMMA FreshRow ==
  ASSUME TypeOK, NEW q \in QueueName, NEW m \in MessageId, NEW r \in RowId,
         NEW now \in NowMs, NEW max \in MaxAttemptsInput,
         NEW left \in AttemptsLeft(max), NEW sched \in ScheduledTime(now),
         rows'[r] = NewRow(q, m, max, left, sched, now)
  PROVE  Fresh(q, r)
<1> DEFINE new == rows'[r]
<1>1. /\ new.queue = q /\ new.id = m /\ new.max = max /\ new.attempts = left
      /\ new.sched = sched /\ new.deleted = NULL /\ new.runs = 0
      /\ new.state = IF sched > now THEN "INVISIBLE" ELSE "PENDING"
  BY NewRowFields
<1>2. sched \in Int /\ max \in Int BY InputTypes
<1>3. now \in Nat /\ now <= clock /\ clock \in Nat BY NowInt, Basics
<1>4. max >= 1 => left \in 1..max BY <1>2 DEF AttemptsLeft
<1>5. new.state = "PENDING" => sched <= clock BY <1>1, <1>2, <1>3
<1> HIDE DEF new
<1>6. new.state \in {"INVISIBLE", "PENDING"} BY <1>1
<1> QED BY <1>1, <1>4, <1>5, <1>6 DEF Fresh, new

\* A producer may leave attempts_left unset.
LEMMA MaxLeft ==
  ASSUME NEW max \in MaxAttemptsInput PROVE max \in AttemptsLeft(max)
<1>1. max \in Int /\ (max = -1 \/ max >= 1) BY ConstantsAssumption
<1> QED BY <1>1 DEF AttemptsLeft

\* Posting one message.
LEMMA EnqueueMessageEffect ==
  ASSUME TypeOK, NEW q \in QueueName, NEW m \in MessageId, EnqueueMessage(q, m)
  PROVE  Posts(q)
<1>1. PICK now \in NowMs, max \in MaxAttemptsInput :
        \E left \in AttemptsLeft(max), sched \in ScheduledTime(now) :
          /\ rows' = [rows EXCEPT ![nextRow] = NewRow(q, m, max, left, sched, now)]
          /\ InsertCounter(q, NewRow(q, m, max, left, sched, now).state)
  BY DEF EnqueueMessage
<1>2. PICK left \in AttemptsLeft(max), sched \in ScheduledTime(now) :
          /\ rows' = [rows EXCEPT ![nextRow] = NewRow(q, m, max, left, sched, now)]
          /\ InsertCounter(q, NewRow(q, m, max, left, sched, now).state)
  BY <1>1
<1>3. nextRow \in RowId /\ nextRow \in Nat BY Basics, ConstantTypes DEF TypeOK, EnqueueMessage, RowId
<1>4. rows'[nextRow] = NewRow(q, m, max, left, sched, now) /\ OnlyRow(nextRow)
  BY <1>2, <1>3, OneRow
<1>5. Fresh(q, nextRow) BY <1>3, <1>4, FreshRow
<1>6. rows'[nextRow].id = m BY <1>4, NewRowFields
<1>7. nextRow' = nextRow + 1 BY DEF EnqueueMessage
<1>8. \A r \in RowId : nextRow <= r /\ r < nextRow' <=> r = nextRow
  BY <1>3, <1>7 DEF RowId
<1>9. RowsOf(q, m) = {} BY DEF EnqueueMessage
<1>10. \A r \in RowId : IF nextRow <= r /\ r < nextRow'
                        THEN Fresh(q, r) /\ RowsOf(q, rows'[r].id) = {}
                        ELSE rows'[r] = rows[r]
  BY <1>4, <1>5, <1>6, <1>8, <1>9 DEF OnlyRow
<1>11. nextRow' \in Nat /\ nextRow' > nextRow BY <1>3, <1>7
<1>12. TalliedPost(q) BY <1>2, <1>4, <1>7 DEF TalliedPost
<1> QED BY <1>3, <1>8, <1>10, <1>11, <1>12 DEF Posts, EnqueueMessage

\* Posting two messages together.
LEMMA EnqueueMessagesBulkEffect ==
  ASSUME TypeOK, NEW q \in QueueName, NEW m1 \in MessageId, NEW m2 \in MessageId,
         EnqueueMessagesBulk(q, m1, m2)
  PROVE  Posts(q)
<1>1. PICK now \in NowMs, max \in MaxAttemptsInput : \E sched \in ScheduledTime(now) :
        /\ rows' = [rows EXCEPT ![nextRow] = NewRow(q, m1, max, max, NULL, now),
                                ![nextRow + 1] = NewRow(q, m2, max, max, sched, now)]
        /\ counts' = AddCount(AddCount(counts, q, NewRow(q, m1, max, max, NULL, now).state, 1),
                              q, NewRow(q, m2, max, max, sched, now).state, 1)
  BY DEF EnqueueMessagesBulk
<1>2. PICK sched \in ScheduledTime(now) :
        /\ rows' = [rows EXCEPT ![nextRow] = NewRow(q, m1, max, max, NULL, now),
                                ![nextRow + 1] = NewRow(q, m2, max, max, sched, now)]
        /\ counts' = AddCount(AddCount(counts, q, NewRow(q, m1, max, max, NULL, now).state, 1),
                              q, NewRow(q, m2, max, max, sched, now).state, 1)
  BY <1>1
<1>3. nextRow \in RowId /\ nextRow + 1 \in RowId /\ nextRow \in Nat
  BY Basics, ConstantTypes DEF TypeOK, EnqueueMessagesBulk, RowId
<1>4. /\ rows'[nextRow] = NewRow(q, m1, max, max, NULL, now)
      /\ rows'[nextRow + 1] = NewRow(q, m2, max, max, sched, now)
      /\ \A r \in RowId \ {nextRow, nextRow + 1} : rows'[r] = rows[r]
  BY <1>2, <1>3, Basics
<1>5. max \in AttemptsLeft(max) BY MaxLeft
<1>6. NULL \in ScheduledTime(now) BY DEF ScheduledTime
<1>7. Fresh(q, nextRow) BY <1>3, <1>4, <1>5, <1>6, FreshRow
<1>8. Fresh(q, nextRow + 1) BY <1>3, <1>4, <1>5, FreshRow
<1>9. rows'[nextRow].id = m1 /\ rows'[nextRow + 1].id = m2 BY <1>4, NewRowFields
<1>10. nextRow' = nextRow + 2 /\ m1 # m2 BY DEF EnqueueMessagesBulk
<1>11. \A r \in RowId : nextRow <= r /\ r < nextRow' <=> r \in {nextRow, nextRow + 1}
  BY <1>3, <1>10 DEF RowId
<1>12. RowsOf(q, m1) = {} /\ RowsOf(q, m2) = {} BY DEF EnqueueMessagesBulk
<1>13. \A r \in RowId : IF nextRow <= r /\ r < nextRow'
                        THEN Fresh(q, r) /\ RowsOf(q, rows'[r].id) = {}
                        ELSE rows'[r] = rows[r]
  <2>1. SUFFICES ASSUME NEW r \in RowId
                 PROVE  IF nextRow <= r /\ r < nextRow'
                        THEN Fresh(q, r) /\ RowsOf(q, rows'[r].id) = {}
                        ELSE rows'[r] = rows[r]
    OBVIOUS
  <2>2. CASE r = nextRow BY <1>7, <1>9, <1>11, <1>12, <2>2
  <2>3. CASE r = nextRow + 1 BY <1>8, <1>9, <1>11, <1>12, <2>3
  <2>4. CASE r \notin {nextRow, nextRow + 1} BY <1>4, <1>11, <2>4
  <2> QED BY <2>2, <2>3, <2>4
<1>14. nextRow' \in Nat /\ nextRow' > nextRow BY <1>3, <1>10
<1>15. \A r, p \in RowId :
         nextRow <= r /\ r < nextRow' /\ nextRow <= p /\ p < nextRow'
           /\ rows'[r].id = rows'[p].id => r = p
  BY <1>9, <1>10, <1>11
<1>16. TalliedPost(q) BY <1>2, <1>3, <1>4, <1>10 DEF TalliedPost
<1> QED BY <1>3, <1>13, <1>14, <1>15, <1>16 DEF Posts, EnqueueMessagesBulk

\* A claim.
LEMMA ClaimMessageEffect ==
  ASSUME TypeOK, NEW q \in QueueName, ClaimMessage(q)
  PROVE  \E r \in RowId : Alters(r)
<1>1. PICK now \in NowMs, duration \in LeaseDuration :
        /\ queues[q].exclusive => ~HasActiveLease(q, now)
        /\ \E r \in Claimable(q, now) : rows' = [rows EXCEPT ![r] = Claimed(@, now, duration)]
  BY DEF ClaimMessage
<1>2. PICK r \in Claimable(q, now) : rows' = [rows EXCEPT ![r] = Claimed(@, now, duration)]
  BY <1>1
<1>3. /\ r \in RowId /\ rows[r].queue = q /\ rows[r].state = "PENDING"
      /\ rows[r].deleted = NULL
  BY DEF Claimable
<1>4. r < nextRow /\ rows[r] \in Row BY <1>3, PostedRow
<1>5. rows' = [rows EXCEPT ![r] = Claimed(rows[r], now, duration)] BY <1>2, <1>3, Basics
<1>6. rows'[r] = Claimed(rows[r], now, duration) /\ OnlyRow(r) BY <1>3, <1>5, OneRow
<1>7. nextToken \in Int /\ now \in Int /\ duration \in Int BY Basics, NowInt, ConstantTypes
<1>8. /\ SamePlace(r) /\ rows'[r].deleted = NULL
      /\ rows'[r].attempts = rows[r].attempts /\ rows'[r].runs = rows[r].runs + 1
      /\ rows'[r].token = nextToken /\ rows'[r].state = "RUNNING"
  BY <1>3, <1>4, <1>6, <1>7, ClaimedFields DEF SamePlace, SameMessage
<1>9. ~IsDLQ(q) /\ nextToken' = nextToken + 1 BY DEF ClaimMessage
<1>10. Starts(r) BY <1>1, <1>3, <1>8, <1>9 DEF Starts
<1>11. Tallied(r)
  <2>1. rows'[r] # NoRow BY <1>8, NoRowType
  <2>2. MoveCounter(q, "PENDING", q, "RUNNING") BY DEF ClaimMessage, UpdateCounters
  <2> QED BY <1>3, <1>8, <2>1, <2>2 DEF Tallied, SamePlace
<1> QED BY <1>3, <1>4, <1>6, <1>10, <1>11 DEF Alters, ClaimMessage

\* The row that a worker's call finds.
LEMMA OwnedRow ==
  ASSUME TypeOK, NEW q, NEW m, NEW t, NEW now, NEW r \in OwnedRows(q, m, t, now)
  PROVE  /\ r \in RowId /\ r < nextRow /\ rows[r] \in Row
         /\ rows[r].queue = q /\ rows[r].id = m
         /\ rows[r].state = "RUNNING" /\ rows[r].token = t /\ rows[r].deleted = NULL
         /\ rows[r].lease > now /\ (rows[r].hb <= 0 \/ rows[r].hb > now)
<1>1. /\ r \in RowId
      /\ rows[r].queue = q /\ rows[r].id = m
      /\ rows[r].state = "RUNNING" /\ rows[r].token = t /\ rows[r].deleted = NULL
      /\ rows[r].lease > now /\ (rows[r].hb <= 0 \/ rows[r].hb > now)
  BY DEF OwnedRows, RowsOf
<1> QED BY <1>1, PostedRow

\* An ack.
LEMMA AcknowledgeMessageEffect ==
  ASSUME TypeOK, NEW q \in QueueName, NEW m, NEW t \in Token, AcknowledgeMessage(q, m, t)
  PROVE  \E r \in RowId : Alters(r)
<1> DEFINE done(r, now) ==
      [rows[r] EXCEPT !.state = "COMPLETED", !.deleted = DeletedAt(q, now),
                      !.token = NULL, !.start = NULL, !.lease = NULL]
<1>1. PICK now \in NowMs : \E r \in OwnedRows(q, m, t, now) :
       \/ rows' = [rows EXCEPT ![r] = NoRow] /\ RemoveCounter(q, "RUNNING")
       \/ /\ ~HardDelete(q) /\ rows' = [rows EXCEPT ![r] = done(r, now)]
          /\ UpdateCounters(q, "RUNNING", "COMPLETED")
  BY DEF AcknowledgeMessage
<1>2. PICK r \in OwnedRows(q, m, t, now) :
       \/ rows' = [rows EXCEPT ![r] = NoRow] /\ RemoveCounter(q, "RUNNING")
       \/ /\ ~HardDelete(q) /\ rows' = [rows EXCEPT ![r] = done(r, now)]
          /\ UpdateCounters(q, "RUNNING", "COMPLETED")
  BY <1>1
<1>3. /\ r \in RowId /\ r < nextRow /\ rows[r] \in Row
      /\ rows[r].queue = q /\ rows[r].state = "RUNNING" /\ rows[r].token = t
  BY OwnedRow
<1>4. EndsAttempt(r) BY <1>3 DEF EndsAttempt, AcknowledgeMessage
<1>5. Writable /\ UNCHANGED <<clock, queues, nextRow, dlqTx>> BY DEF AcknowledgeMessage
<1>6. CASE rows' = [rows EXCEPT ![r] = NoRow] /\ RemoveCounter(q, "RUNNING")
  <2>1. rows'[r] = NoRow /\ OnlyRow(r) BY <1>3, <1>6, OneRow
  <2>2. Drops(r) /\ Tallied(r) BY <1>3, <1>4, <1>6, <2>1 DEF Drops, Tallied
  <2> QED BY <1>3, <1>5, <2>1, <2>2 DEF Alters
<1>7. CASE /\ ~HardDelete(q) /\ rows' = [rows EXCEPT ![r] = done(r, now)]
           /\ UpdateCounters(q, "RUNNING", "COMPLETED")
  <2>1. rows'[r] = done(r, now) /\ OnlyRow(r) BY <1>3, <1>7, OneRow
  <2>2. /\ rows'[r].state = "COMPLETED" /\ rows'[r].token = NULL
        /\ rows'[r].runs = rows[r].runs /\ rows'[r].deleted = DeletedAt(q, now)
        /\ SamePlace(r)
    BY <1>3, <2>1 DEF Row, SamePlace, SameMessage
  <2>3. Marked(r) BY <1>3, <2>2, DeletedAtMarks DEF Marked
  <2>4. Completes(r) BY <1>3, <1>4, <1>7, <2>2, <2>3 DEF Completes
  <2>5. Tallied(r)
    BY <1>3, <1>7, <2>2, NoRowType DEF Tallied, UpdateCounters, SamePlace
  <2> QED BY <1>3, <1>5, <2>1, <2>4, <2>5 DEF Alters
<1> QED BY <1>2, <1>6, <1>7

\* The end of a message that has used its last attempt.
LEMMA DeadLetterKind ==
  ASSUME TypeOK, NEW r \in RowId, rows[r].queue \in QueueName, NEW left \in Int,
         NEW now \in NowMs, DeadLetter(r, left, now), EndsAttempt(r)
  PROVE  /\ OnlyRow(r) /\ Tallied(r)
         /\ Fails(r) \/ Drops(r)
<1> DEFINE q     == rows[r].queue
           dlq   == queues[q].dlq
           err   == [Cleared(rows[r]) EXCEPT !.state = "ERRORED", !.attempts = left]
           moved == [err EXCEPT !.queue = dlq]
           kept  == [err EXCEPT !.deleted = DeletedAt(q, now)]
<1>1. dlq \in QueueName \cup {""}
  <2>1. queues[q] \in Config \cup {NoQueue} BY DEF TypeOK
  <2> QED BY <2>1 DEF Config, NoQueue, PlainConfig
<1>2. rows[r] \in Row /\ DeletedAt(q, now) \in Int BY Basics, NowInt, DeletedAtInt
<1>3. rows[r].state = "RUNNING" BY DEF EndsAttempt
<1>4. /\ moved.id = rows[r].id /\ moved.max = rows[r].max /\ moved.sched = rows[r].sched
      /\ moved.runs = rows[r].runs /\ moved.token = NULL /\ moved.state = "ERRORED"
      /\ moved.queue = dlq /\ moved.deleted = rows[r].deleted
      /\ kept.id = rows[r].id /\ kept.max = rows[r].max /\ kept.sched = rows[r].sched
      /\ kept.runs = rows[r].runs /\ kept.token = NULL /\ kept.state = "ERRORED"
      /\ kept.queue = q /\ kept.deleted = DeletedAt(q, now)
  <2>1. Cleared(rows[r]) \in Row BY <1>2, ClearedType
  <2>2. /\ err \in Row /\ err.state = "ERRORED" /\ err.queue = rows[r].queue
        /\ err.id = rows[r].id /\ err.max = rows[r].max /\ err.sched = rows[r].sched
        /\ err.runs = rows[r].runs /\ err.token = NULL /\ err.deleted = rows[r].deleted
    BY <1>2, <2>1, ClearedFields DEF Row, State
  <2> HIDE DEF err
  <2> QED BY <2>2 DEF Row
<1>5. \/ /\ dlq # "" /\ RowsOf(dlq, rows[r].id) = {}
         /\ rows' = [rows EXCEPT ![r] = moved]
         /\ MoveCounter(q, "RUNNING", dlq, "ERRORED")
      \/ rows' = [rows EXCEPT ![r] = NoRow] /\ RemoveCounter(q, "RUNNING")
      \/ /\ rows' = [rows EXCEPT ![r] = kept]
         /\ UpdateCounters(q, "RUNNING", "ERRORED")
  BY Zenon DEF DeadLetter
<1> HIDE DEF moved, kept
<1>6. CASE /\ dlq # "" /\ RowsOf(dlq, rows[r].id) = {}
           /\ rows' = [rows EXCEPT ![r] = moved]
           /\ MoveCounter(q, "RUNNING", dlq, "ERRORED")
  <2>1. rows'[r] = moved /\ OnlyRow(r) BY <1>6, OneRow
  <2>2. /\ SameMessage(r) /\ rows'[r].runs = rows[r].runs /\ rows'[r].token = NULL
        /\ rows'[r].state = "ERRORED" /\ rows'[r].queue = dlq
        /\ rows'[r].deleted = rows[r].deleted
    BY <1>4, <2>1 DEF SameMessage
  <2>3. Fails(r) BY <1>6, <2>2 DEF Fails
  <2>4. Tallied(r) BY <1>3, <1>6, <2>2, NoRowType DEF Tallied
  <2> QED BY <2>1, <2>3, <2>4
<1>7. CASE rows' = [rows EXCEPT ![r] = NoRow] /\ RemoveCounter(q, "RUNNING")
  <2>1. rows'[r] = NoRow /\ OnlyRow(r) BY <1>7, OneRow
  <2> QED BY <1>3, <1>7, <2>1 DEF Drops, Tallied
<1>8. CASE /\ rows' = [rows EXCEPT ![r] = kept]
           /\ UpdateCounters(q, "RUNNING", "ERRORED")
  <2>1. rows'[r] = kept /\ OnlyRow(r) BY <1>8, OneRow
  <2>2. /\ SameMessage(r) /\ rows'[r].runs = rows[r].runs /\ rows'[r].token = NULL
        /\ rows'[r].state = "ERRORED" /\ rows'[r].queue = q
        /\ rows'[r].deleted = DeletedAt(q, now)
    BY <1>4, <2>1 DEF SameMessage
  <2>3. Fails(r) BY <2>2, DeletedAtMarks DEF Fails, Marked
  <2>4. Tallied(r) BY <1>3, <1>8, <2>2, NoRowType DEF Tallied, UpdateCounters
  <2> QED BY <2>1, <2>3, <2>4
<1> QED BY <1>5, <1>6, <1>7, <1>8

\* A message goes back to its queue.
LEMMA RetriedKind ==
  ASSUME TypeOK, NEW r \in RowId, NEW left \in Int, EndsAttempt(r),
         rows' = [rows EXCEPT ![r] = Retried(@, left)],
         rows[r].max >= 1 /\ rows[r].attempts >= 1 =>
           left = rows[r].attempts - 1 /\ left >= 1,
         UpdateCounters(rows[r].queue, "RUNNING", "PENDING"),
         Writable, UNCHANGED <<clock, queues, nextRow, dlqTx>>
  PROVE  Alters(r)
<1>1. rows[r].state = "RUNNING" BY DEF EndsAttempt
<1>2. r < nextRow /\ rows[r] \in Row BY <1>1, PostedRow
<1>3. rows' = [rows EXCEPT ![r] = Retried(rows[r], left)] BY Basics
<1>4. rows'[r] = Retried(rows[r], left) /\ OnlyRow(r) BY <1>3, OneRow
<1>5. /\ SamePlace(r) /\ rows'[r].runs = rows[r].runs /\ rows'[r].deleted = rows[r].deleted
      /\ rows'[r].token = NULL /\ rows'[r].state = "PENDING" /\ rows'[r].attempts = left
  BY <1>2, <1>4, RetriedFields DEF SamePlace, SameMessage
<1>6. Returns(r) BY <1>5 DEF Returns
<1>7. Tallied(r) BY <1>1, <1>5, NoRowType DEF Tallied, UpdateCounters, SamePlace
<1> QED BY <1>2, <1>4, <1>6, <1>7 DEF Alters

\* A nack.
LEMMA NackMessageEffect ==
  ASSUME TypeOK, NEW q \in QueueName, NEW m, NEW t \in Token, NackMessage(q, m, t)
  PROVE  \E r \in RowId : Alters(r)
<1> DEFINE left(r) == AttemptsAfterNack(rows[r])
<1>1. PICK now \in NowMs : \E r \in OwnedRows(q, m, t, now) :
       \/ DeadLetter(r, left(r), now)
       \/ /\ left(r) = -1 \/ left(r) > 0
          /\ rows' = [rows EXCEPT ![r] = Retried(@, left(r))]
          /\ UpdateCounters(q, "RUNNING", "PENDING")
  <2>1. PICK now \in NowMs : \E r \in OwnedRows(q, m, t, now) :
       \/ DeadLetter(r, left(r), now)
       \/ /\ ~(left(r) # -1 /\ left(r) <= 0)
          /\ rows' = [rows EXCEPT ![r] = Retried(@, left(r))]
          /\ UpdateCounters(q, "RUNNING", "PENDING")
    BY DEF NackMessage
  <2>2. \A r \in OwnedRows(q, m, t, now) : left(r) \in Int
    <3>1. \A r \in OwnedRows(q, m, t, now) : rows[r].attempts \in Int BY OwnedRow DEF Row
    <3> QED BY <3>1 DEF AttemptsAfterNack
  <2> HIDE DEF left
  <2>3. \A r \in OwnedRows(q, m, t, now) :
          ~(left(r) # -1 /\ left(r) <= 0) => left(r) = -1 \/ left(r) > 0
    BY <2>2
  <2> QED BY <2>1, <2>3
<1>2. PICK r \in OwnedRows(q, m, t, now) :
       \/ DeadLetter(r, left(r), now)
       \/ /\ left(r) = -1 \/ left(r) > 0
          /\ rows' = [rows EXCEPT ![r] = Retried(@, left(r))]
          /\ UpdateCounters(q, "RUNNING", "PENDING")
  BY <1>1
<1>3. /\ r \in RowId /\ r < nextRow /\ rows[r] \in Row
      /\ rows[r].queue = q /\ rows[r].state = "RUNNING" /\ rows[r].token = t
  BY OwnedRow
<1>4. EndsAttempt(r) BY <1>3 DEF EndsAttempt, NackMessage
<1>5. Writable /\ UNCHANGED <<clock, queues, nextRow, dlqTx>> BY DEF NackMessage
<1>6. rows[r].attempts \in Int /\ left(r) \in Int
  <2>1. rows[r].attempts \in Int BY <1>3 DEF Row
  <2> QED BY <2>1 DEF AttemptsAfterNack
<1>7. left(r) = IF rows[r].attempts = -1 THEN -1 ELSE rows[r].attempts - 1
  BY DEF AttemptsAfterNack
<1> HIDE DEF left
<1>8. CASE DeadLetter(r, left(r), now)
  <2>1. OnlyRow(r) /\ Tallied(r) /\ (Fails(r) \/ Drops(r))
    BY <1>3, <1>4, <1>6, <1>8, DeadLetterKind
  <2> QED BY <1>3, <1>5, <2>1 DEF Alters
<1>9. CASE /\ left(r) = -1 \/ left(r) > 0
           /\ rows' = [rows EXCEPT ![r] = Retried(@, left(r))]
           /\ UpdateCounters(q, "RUNNING", "PENDING")
  <2>1. rows[r].attempts >= 1 => left(r) = rows[r].attempts - 1 /\ left(r) >= 1
    BY <1>6, <1>7, <1>9
  <2> QED BY <1>3, <1>4, <1>5, <1>6, <1>9, <2>1, RetriedKind
<1> QED BY <1>2, <1>8, <1>9

\* A cancellation.
LEMMA CancelMessageEffect ==
  ASSUME TypeOK, NEW q \in QueueName, NEW m, CancelMessage(q, m)
  PROVE  \E r \in RowId : Alters(r)
<1> DEFINE gone(r, now) == [Released(rows[r]) EXCEPT !.state = "CANCELED",
                                                     !.deleted = DeletedAt(q, now)]
<1>1. PICK now \in NowMs, r \in RowsOf(q, m) :
        /\ rows[r].state \in {"INVISIBLE", "PENDING"}
        /\ \/ rows' = [rows EXCEPT ![r] = NoRow] /\ RemoveCounter(q, rows[r].state)
           \/ /\ ~HardDelete(q)
              /\ rows' = [rows EXCEPT ![r] = gone(r, now)]
              /\ UpdateCounters(q, rows[r].state, "CANCELED")
  BY DEF CancelMessage
<1>2. r \in RowId /\ rows[r].queue = q BY DEF RowsOf
<1>3. r < nextRow /\ rows[r] \in Row BY <1>1, <1>2, PostedRow
<1>4. /\ Writable /\ UNCHANGED <<clock, queues, nextRow, dlqTx>>
      /\ UNCHANGED <<nextToken, outcome>>
  BY DEF CancelMessage
<1>5. CASE rows' = [rows EXCEPT ![r] = NoRow] /\ RemoveCounter(q, rows[r].state)
  <2>1. rows'[r] = NoRow /\ OnlyRow(r) BY <1>2, <1>5, OneRow
  <2>2. Drops(r) /\ Tallied(r) BY <1>1, <1>2, <1>4, <1>5, <2>1 DEF Drops, Tallied
  <2> QED BY <1>2, <1>3, <1>4, <2>1, <2>2 DEF Alters
<1>6. CASE /\ ~HardDelete(q)
           /\ rows' = [rows EXCEPT ![r] = gone(r, now)]
           /\ UpdateCounters(q, rows[r].state, "CANCELED")
  <2>1. rows'[r] = gone(r, now) /\ OnlyRow(r) BY <1>2, <1>6, OneRow
  <2>2. /\ rows'[r].state = "CANCELED" /\ rows'[r].deleted = DeletedAt(q, now)
        /\ rows'[r].runs = rows[r].runs /\ SamePlace(r)
    <3> DEFINE first == Released(rows[r])
    <3>1. first \in Row BY <1>3, ReleasedType
    <3>2. /\ first.queue = rows[r].queue /\ first.id = rows[r].id
          /\ first.max = rows[r].max /\ first.sched = rows[r].sched
          /\ first.runs = rows[r].runs
      BY <1>3 DEF Released, Row
    <3>3. rows'[r] = [first EXCEPT !.state = "CANCELED", !.deleted = DeletedAt(q, now)]
      BY <2>1
    <3> HIDE DEF first
    <3> QED BY <3>1, <3>2, <3>3 DEF Row, SamePlace, SameMessage
  <2>3. Marked(r) BY <1>2, <2>2, DeletedAtMarks DEF Marked
  <2>4. Cancels(r) BY <1>1, <1>2, <1>4, <1>6, <2>2, <2>3 DEF Cancels
  <2>5. Tallied(r)
    BY <1>2, <1>6, <2>2, NoRowType DEF Tallied, UpdateCounters, SamePlace
  <2> QED BY <1>2, <1>3, <1>4, <2>1, <2>4, <2>5 DEF Alters
<1> QED BY <1>1, <1>5, <1>6

\* A renewal of the attempt that a worker presents.
LEMMA RenewedKind ==
  ASSUME TypeOK, NEW q, NEW m, NEW t, NEW now \in NowMs, NEW r \in OwnedRows(q, m, t, now),
         NEW amount, NEW hb, NEW renewals,
         rows' = [rows EXCEPT ![r] = Renewed(@, amount, hb, renewals)],
         Writable, UNCHANGED <<clock, queues, counts, nextRow, nextToken, dlqTx, outcome>>
  PROVE  r \in RowId /\ Alters(r)
<1>1. /\ r \in RowId /\ r < nextRow /\ rows[r] \in Row
      /\ rows[r].state = "RUNNING"
      /\ rows[r].lease > now /\ (rows[r].hb <= 0 \/ rows[r].hb > now)
  BY OwnedRow
<1>2. rows' = [rows EXCEPT ![r] = Renewed(rows[r], amount, hb, renewals)] BY <1>1, Basics
<1>3. rows'[r] = Renewed(rows[r], amount, hb, renewals) /\ OnlyRow(r) BY <1>1, <1>2, OneRow
<1>4. /\ SamePlace(r) /\ rows'[r].runs = rows[r].runs /\ rows'[r].deleted = rows[r].deleted
      /\ rows'[r].attempts = rows[r].attempts /\ rows'[r].token = rows[r].token
      /\ rows'[r].state = "RUNNING"
  BY <1>1, <1>3, RenewedFields DEF SamePlace, SameMessage
<1>5. Extends(r) BY <1>1, <1>4 DEF Extends
<1> QED BY <1>1, <1>3, <1>5 DEF Alters

\* An extension.
LEMMA ExtendMessageLeaseEffect ==
  ASSUME TypeOK, NEW q, NEW m, NEW t, ExtendMessageLease(q, m, t)
  PROVE  \E r \in RowId : Alters(r)
<1>1. PICK now \in NowMs, requested \in Extension : \E r \in OwnedRows(q, m, t, now) :
        rows' = [rows EXCEPT ![r] =
          Renewed(@, Granted(rows[r].ext, requested), rows[r].hb, rows[r].renew + 1)]
  BY DEF ExtendMessageLease
<1>2. Writable /\ UNCHANGED <<clock, queues, counts, nextRow, nextToken, dlqTx, outcome>>
  BY DEF ExtendMessageLease
<1>3. PICK r \in OwnedRows(q, m, t, now) : rows' = [rows EXCEPT ![r] =
        Renewed(@, Granted(rows[r].ext, requested), rows[r].hb, rows[r].renew + 1)]
  BY <1>1
<1> DEFINE amount == Granted(rows[r].ext, requested)
           hb == rows[r].hb
           renewals == rows[r].renew + 1
<1>4. rows' = [rows EXCEPT ![r] = Renewed(@, amount, hb, renewals)] BY <1>3
<1> HIDE DEF amount, hb, renewals
<1> QED BY <1>2, <1>4, RenewedKind

\* A heartbeat.
LEMMA HeartbeatMessageEffect ==
  ASSUME TypeOK, NEW q, NEW m, NEW t, HeartbeatMessage(q, m, t)
  PROVE  \E r \in RowId : Alters(r)
<1> DEFINE hb(now) == IF HeartbeatTimeout > 0 THEN now + HeartbeatTimeout ELSE NULL
<1>1. PICK now \in NowMs : \E r \in OwnedRows(q, m, t, now) :
        \/ rows' = [rows EXCEPT ![r] =
             Renewed(@, Granted(rows[r].ext, ExtendStep), hb(now), rows[r].renew + 1)]
        \/ rows' = [rows EXCEPT ![r] = Renewed(@, 0, hb(now), rows[r].renew)]
  BY DEF HeartbeatMessage
<1>2. Writable /\ UNCHANGED <<clock, queues, counts, nextRow, nextToken, dlqTx, outcome>>
  BY DEF HeartbeatMessage
<1>3. PICK r \in OwnedRows(q, m, t, now) :
        \/ rows' = [rows EXCEPT ![r] =
             Renewed(@, Granted(rows[r].ext, ExtendStep), hb(now), rows[r].renew + 1)]
        \/ rows' = [rows EXCEPT ![r] = Renewed(@, 0, hb(now), rows[r].renew)]
  BY <1>1
<1> DEFINE amount == Granted(rows[r].ext, ExtendStep)
           renewals == rows[r].renew + 1
           zero == 0
           same == rows[r].renew
<1>4. \/ rows' = [rows EXCEPT ![r] = Renewed(@, amount, hb(now), renewals)]
      \/ rows' = [rows EXCEPT ![r] = Renewed(@, zero, hb(now), same)]
  BY <1>3
<1> HIDE DEF hb, amount, renewals, zero, same
<1> QED BY <1>2, <1>4, RenewedKind

\* A DLQ call selects its message.
LEMMA BeginDLQEffect ==
  ASSUME TypeOK, NEW x \in Session, NEW op \in DlqOp, BeginDLQ(x, op),
         op.kind = "retry" => op.target \in QueueName
  PROVE  Selects(x)
<1>1. PICK r \in RowsOf(op.dlq, op.id) :
        /\ rows[r].state = "ERRORED"
        /\ dlqTx' = [dlqTx EXCEPT ![x] = [op EXCEPT !.left = rows[r].max]]
  BY DEF BeginDLQ
<1> DEFINE found == [op EXCEPT !.left = rows[r].max]
<1>2. rows[r].max \in Int
  <2>1. rows[r] \in Row BY Basics DEF RowsOf
  <2> QED BY <2>1 DEF Row
<1>3. /\ found \in DlqOp /\ found.left = rows[r].max /\ found.kind = op.kind
      /\ found.dlq = op.dlq /\ found.id = op.id /\ found.target = op.target
  BY <1>2 DEF DlqOp
<1>4. dlqTx' = [dlqTx EXCEPT ![x] = found] BY <1>1
<1> HIDE DEF found
<1>5. r \in RowsOf(found.dlq, found.id) /\ RequireDLQ(found.dlq)
      /\ (found.kind = "retry" => found.target \in QueueName)
  BY <1>3 DEF BeginDLQ
<1>6. \E o \in DlqOp : \E p \in RowsOf(o.dlq, o.id) :
       /\ RequireDLQ(o.dlq)
       /\ rows[p].state = "ERRORED" /\ o.left = rows[p].max
       /\ o.kind = "retry" => o.target \in QueueName
       /\ dlqTx' = [dlqTx EXCEPT ![x] = o]
  BY <1>1, <1>3, <1>4, <1>5
<1> QED BY <1>6 DEF Selects, BeginDLQ, Active

\* The first half of either DLQ call.
LEMMA BeginEffects ==
  ASSUME TypeOK, NEW x \in Session, NEW q \in QueueName, NEW m \in MessageId
  PROVE  /\ BeginDeleteDLQMessage(x, q, m) => Selects(x)
         /\ \A target \in QueueName : BeginRetryDLQMessage(x, q, m, target) => Selects(x)
<1>1. ASSUME BeginDeleteDLQMessage(x, q, m) PROVE Selects(x)
  <2> DEFINE op == [kind |-> "delete", dlq |-> q, id |-> m, target |-> "", left |-> 0]
  <2>1. op \in DlqOp BY DlqOpType, NullInt
  <2>2. BeginDLQ(x, op) /\ op.kind # "retry" BY <1>1 DEF BeginDeleteDLQMessage
  <2> HIDE DEF op
  <2> QED BY <2>1, <2>2, BeginDLQEffect
<1>2. ASSUME NEW target \in QueueName, BeginRetryDLQMessage(x, q, m, target)
      PROVE  Selects(x)
  <2> DEFINE op == [kind |-> "retry", dlq |-> q, id |-> m, target |-> target, left |-> 0]
  <2>1. op \in DlqOp BY DlqOpType, NullInt
  <2>2. BeginDLQ(x, op) /\ op.target \in QueueName BY <1>2 DEF BeginRetryDLQMessage
  <2> HIDE DEF op
  <2> QED BY <2>1, <2>2, BeginDLQEffect
<1> QED BY <1>1, <1>2

\* A session that has found its message holds the operation.
LEMMA ActiveOp ==
  ASSUME TypeOK, NEW x \in Session, Active(x) PROVE dlqTx[x] \in DlqOp
<1>1. dlqTx[x] \in DlqOp \cup {Idle} BY DEF TypeOK
<1>2. Idle.kind = "idle" BY DEF Idle
<1> QED BY <1>1, <1>2 DEF Active

\* The second half of a requeue.
LEMMA RetryDLQMessageEffect ==
  ASSUME TypeOK, NEW x \in Session, RetryDLQMessage(x)
  PROVE  Misses(x) \/ \E r \in RowId : Requeues(x, r)
<1> DEFINE op == dlqTx[x]
<1>1. Finishes(x) /\ op.kind = "retry" BY DEF RetryDLQMessage, Finishes, Active
<1>2. op \in DlqOp BY <1>1, ActiveOp DEF Finishes
<1>3. \/ UNCHANGED <<rows, outcome>> /\ RowsOf(op.dlq, op.id) = {}
      \/ UNCHANGED <<rows, counts, outcome>>
      \/ \E r \in RowsOf(op.dlq, op.id) :
           /\ queues[op.target].exists
           /\ RowsOf(op.target, op.id) \subseteq {r}
           /\ rows' = [rows EXCEPT ![r] = Requeued(@, op)]
           /\ MoveCounter(op.dlq, "ERRORED", op.target, "PENDING")
           /\ outcome' = Dropped({r})
  BY DEF RetryDLQMessage
<1>4. ASSUME NEW r \in RowsOf(op.dlq, op.id),
             queues[op.target].exists, RowsOf(op.target, op.id) \subseteq {r},
             rows' = [rows EXCEPT ![r] = Requeued(@, op)],
             MoveCounter(op.dlq, "ERRORED", op.target, "PENDING"), outcome' = Dropped({r})
      PROVE  r \in RowId /\ Requeues(x, r)
  <2>1. r \in RowId /\ rows[r] \in Row BY <1>2, StoredRow
  <2>2. rows' = [rows EXCEPT ![r] = Requeued(rows[r], op)] BY <1>4, <2>1, Basics
  <2>3. rows'[r] = Requeued(rows[r], op) /\ OnlyRow(r) BY <2>1, <2>2, OneRow
  <2>4. /\ SameMessage(r) /\ rows'[r].queue = op.target /\ rows'[r].state = "PENDING"
        /\ rows'[r].attempts = op.left /\ rows'[r].runs = 0
        /\ rows'[r].deleted = rows[r].deleted /\ rows'[r].token = rows[r].token
    BY <2>1, <2>3, RequeuedFields DEF SameMessage
  <2> QED BY <1>1, <1>4, <2>1, <2>3, <2>4 DEF Requeues
<1> QED BY <1>1, <1>3, <1>4 DEF Misses

\* The second half of a deletion.
LEMMA DeleteDLQMessageEffect ==
  ASSUME TypeOK, NEW x \in Session, DeleteDLQMessage(x)
  PROVE  Misses(x) \/ Discards(x)
<1>1. Finishes(x) BY DEF DeleteDLQMessage, Finishes, Active
<1> QED BY <1>1 DEF DeleteDLQMessage, Misses, Discards

\* A purge.
LEMMA PurgeDLQBatchEffect ==
  ASSUME TypeOK, NEW q \in QueueName, PurgeDLQBatch(q)
  PROVE  \E D \in SUBSET RowId : Removes(D)
<1>1. PICK D \in SUBSET {r \in RowId : rows[r].queue = q /\ rows[r].state = "ERRORED"} :
        /\ rows' = [r \in RowId |-> IF r \in D THEN NoRow ELSE rows[r]]
        /\ RemoveCounters(D)
  BY DEF PurgeDLQBatch
<1>2. D \in SUBSET RowId /\ \A r \in D : rows[r].state = "ERRORED" OBVIOUS
<1>3. outcome' = Dropped(D) BY <1>2, Basics DEF PurgeDLQBatch, Dropped
<1> QED BY <1>1, <1>2, <1>3 DEF Removes, PurgeDLQBatch

\* A batch of the cleanup service.
LEMMA CleanupExpiredBatchEffect ==
  ASSUME TypeOK, CleanupExpiredBatch
  PROVE  \E D \in SUBSET RowId : Removes(D)
<1>1. PICK now \in NowMs : \E D \in SUBSET Outdated(now) :
        /\ rows' = [r \in RowId |-> IF r \in D THEN NoRow ELSE rows[r]]
        /\ RemoveCounters(D)
        /\ outcome' = Dropped(D)
  BY DEF CleanupExpiredBatch
<1>2. PICK D \in SUBSET Outdated(now) :
        /\ rows' = [r \in RowId |-> IF r \in D THEN NoRow ELSE rows[r]]
        /\ RemoveCounters(D)
        /\ outcome' = Dropped(D)
  BY <1>1
<1>3. D \in SUBSET RowId /\ \A r \in D : rows[r].deleted # NULL BY DEF Outdated
<1> QED BY <1>2, <1>3 DEF Removes, CleanupExpiredBatch

\* The scheduler activates a message whose time has come, or finds it gone.
LEMMA ActivateMessageEffect ==
  ASSUME TypeOK, DueInv, NEW n \in Replica, NEW r \in RowId, NEW now,
         ActivateMessage(n, r, now)
  PROVE  Reads \/ Alters(r)
<1>1. /\ Writable /\ UNCHANGED <<clock, queues, nextRow, dlqTx>>
      /\ UNCHANGED <<nextToken, outcome>>
  BY DEF ActivateMessage
<1>2. now \in Nat /\ now <= clock /\ clock \in Nat
  <2>1. <<r, now>> \in due[n] BY DEF ActivateMessage
  <2>2. due[n] \subseteq RowId \X Nat BY DEF TypeOK
  <2>3. <<r, now>>[2] <= clock BY <2>1 DEF DueInv
  <2> QED BY <2>1, <2>2, <2>3, Basics
<1>3. CASE UNCHANGED <<rows, counts>> BY <1>1, <1>2, <1>3 DEF Reads
<1>4. CASE /\ rows[r].state = "INVISIBLE" /\ rows[r].sched <= now
           /\ rows' = [rows EXCEPT ![r].state = "PENDING"]
           /\ UpdateCounters(rows[r].queue, "INVISIBLE", "PENDING")
  <2>1. r < nextRow /\ rows[r] \in Row BY <1>4, PostedRow
  <2>2. rows' = [rows EXCEPT ![r] = [rows[r] EXCEPT !.state = "PENDING"]] BY <1>4, Basics
  <2>3. rows'[r] = [rows[r] EXCEPT !.state = "PENDING"] /\ OnlyRow(r) BY <2>2, OneRow
  <2>4. rows[r].sched <= clock
    <3>1. rows[r].sched \in Int BY <2>1 DEF Row
    <3> QED BY <1>2, <1>4, <3>1
  <2>5. /\ SamePlace(r) /\ rows'[r].state = "PENDING"
        /\ rows'[r].attempts = rows[r].attempts /\ rows'[r].runs = rows[r].runs
        /\ rows'[r].deleted = rows[r].deleted /\ rows'[r].token = rows[r].token
    BY <2>1, <2>3 DEF Row, SamePlace, SameMessage
  <2>6. Arrives(r) BY <1>1, <1>4, <2>4, <2>5 DEF Arrives
  <2>7. Tallied(r)
    BY <1>4, <2>5, NoRowType DEF Tallied, UpdateCounters, SamePlace
  <2> QED BY <1>1, <2>1, <2>3, <2>6, <2>7 DEF Alters
<1> QED BY <1>3, <1>4 DEF ActivateMessage

\* The reclaimer ends an attempt that has expired, or finds it ended.
LEMMA ReclaimExpiredMessageEffect ==
  ASSUME TypeOK, NEW n \in Replica, NEW item \in expired[n], ReclaimExpiredMessage(n, item)
  PROVE  Reads \/ \E r \in RowId : Alters(r)
<1> DEFINE left(r) == IF rows[r].max = -1 THEN -1 ELSE rows[r].attempts - 1
           last(r) == rows[r].max # -1 /\ rows[r].attempts <= 1
           Again(r) == /\ rows' = [rows EXCEPT ![r] = Retried(@, left(r))]
                       /\ UpdateCounters(item.queue, "RUNNING", "PENDING")
           Ended == outcome' = [outcome EXCEPT ![item.token] = "reclaimed"]
<1>1. PICK now \in NowMs :
        \/ UNCHANGED <<rows, counts, outcome>>
        \/ \E r \in StillExpired(item, now) :
             Ended /\ ((~last(r) /\ Again(r)) \/ DeadLetter(r, left(r), now))
  BY DEF ReclaimExpiredMessage
<1>2. Writable /\ UNCHANGED <<clock, queues, nextRow, nextToken, dlqTx>>
  BY DEF ReclaimExpiredMessage
<1>3. CASE UNCHANGED <<rows, counts, outcome>> BY <1>2, <1>3, Basics DEF Reads
<1>4. ASSUME NEW r \in StillExpired(item, now), Ended,
             (~last(r) /\ Again(r)) \/ DeadLetter(r, left(r), now)
      PROVE  r \in RowId /\ Alters(r)
  <2>1. /\ r \in RowId /\ rows[r].state = "RUNNING" /\ rows[r].token = item.token
        /\ rows[r].queue = item.queue /\ IsExpired(rows[r], now)
    BY DEF StillExpired, RowsOf, IsExpired
  <2>2. rows[r] \in Row /\ r < nextRow BY <2>1, PostedRow
  <2>3. rows[r].attempts \in Int /\ rows[r].max \in Int BY <2>2 DEF Row
  <2>4. left(r) \in Int BY <2>3
  <2>5. item.queue \in QueueName
    <3>1. item \in ExpiredItem BY DEF TypeOK
    <3> QED BY <3>1 DEF ExpiredItem
  <2>6. IsExpired(rows[r], clock) BY <2>1, <2>2, ExpiredLater, NowInt, Basics
  <2>7. EndsAttempt(r) BY <1>2, <1>4, <2>1, <2>6 DEF EndsAttempt
  <2>8. CASE DeadLetter(r, left(r), now)
    <3> HIDE DEF left
    <3>1. OnlyRow(r) /\ Tallied(r) /\ (Fails(r) \/ Drops(r))
      BY <2>1, <2>4, <2>5, <2>7, <2>8, DeadLetterKind
    <3> QED BY <1>2, <2>1, <2>2, <3>1 DEF Alters
  <2>9. CASE ~last(r) /\ Again(r)
    <3>1. rows[r].max >= 1 /\ rows[r].attempts >= 1 =>
            left(r) = rows[r].attempts - 1 /\ left(r) >= 1
      BY <2>3, <2>9
    <3> HIDE DEF left, last
    <3> QED BY <1>2, <2>1, <2>4, <2>7, <2>9, <3>1, RetriedKind
  <2> QED BY <1>4, <2>8, <2>9
<1> QED BY <1>1, <1>3, <1>4

\* Only time passes, and only the scheduler touches its lists.
LEMMA DueKind ==
  ASSUME [Next]_vars
  PROVE  \/ UNCHANGED <<clock, due>>
         \/ Tick
         \/ \E n \in Replica : CollectScheduledMessages(n)
         \/ \E n \in Replica : \E item \in due[n] : ActivateMessage(n, item[1], item[2])
<1>1. CASE UNCHANGED vars BY <1>1 DEF vars
<1>2. CASE Admin BY <1>2 DEF Admin, CreateQueue, DeleteQueue
<1>3. CASE Producer
  <2>1. ASSUME NEW q, NEW m, EnqueueMessage(q, m) PROVE UNCHANGED <<clock, due>>
    BY <2>1 DEF EnqueueMessage
  <2>2. ASSUME NEW q, NEW m, NEW m2, EnqueueMessagesBulk(q, m, m2) PROVE UNCHANGED <<clock, due>>
    BY <2>2 DEF EnqueueMessagesBulk
  <2>3. ASSUME NEW q, NEW m, CancelMessage(q, m) PROVE UNCHANGED <<clock, due>>
    BY <2>3 DEF CancelMessage
  <2> QED BY <1>3, <2>1, <2>2, <2>3 DEF Producer
<1>4. CASE Consumer
  <2>1. ASSUME NEW q, ClaimMessage(q) PROVE UNCHANGED <<clock, due>>
    BY <2>1 DEF ClaimMessage
  <2>2. ASSUME NEW q, NEW m, NEW t, AcknowledgeMessage(q, m, t) PROVE UNCHANGED <<clock, due>>
    BY <2>2 DEF AcknowledgeMessage
  <2>3. ASSUME NEW q, NEW m, NEW t, NackMessage(q, m, t) PROVE UNCHANGED <<clock, due>>
    BY <2>3 DEF NackMessage
  <2>4. ASSUME NEW q, NEW m, NEW t, ExtendMessageLease(q, m, t) PROVE UNCHANGED <<clock, due>>
    BY <2>4 DEF ExtendMessageLease
  <2>5. ASSUME NEW q, NEW m, NEW t, HeartbeatMessage(q, m, t) PROVE UNCHANGED <<clock, due>>
    BY <2>5 DEF HeartbeatMessage
  <2> QED BY <1>4, <2>1, <2>2, <2>3, <2>4, <2>5 DEF Consumer
<1>5. CASE DLQCalls
  <2>1. ASSUME NEW x, RetryDLQMessage(x) PROVE UNCHANGED <<clock, due>>
    BY <2>1 DEF RetryDLQMessage
  <2>2. ASSUME NEW x, DeleteDLQMessage(x) PROVE UNCHANGED <<clock, due>>
    BY <2>2 DEF DeleteDLQMessage
  <2>3. ASSUME NEW q, PurgeDLQBatch(q) PROVE UNCHANGED <<clock, due>>
    BY <2>3 DEF PurgeDLQBatch
  <2>4. ASSUME NEW x, NEW op, BeginDLQ(x, op) PROVE UNCHANGED <<clock, due>>
    BY <2>4 DEF BeginDLQ
  <2> QED BY <1>5, <2>1, <2>2, <2>3, <2>4
        DEF DLQCalls, BeginDeleteDLQMessage, BeginRetryDLQMessage
<1>6. ASSUME NEW n \in Replica, Reclaimer(n) PROVE UNCHANGED <<clock, due>>
  BY <1>6 DEF Reclaimer, FindExpiredMessages, ReclaimExpiredMessage
<1>7. CASE CleanupExpiredBatch BY <1>7 DEF CleanupExpiredBatch
<1> QED BY <1>1, <1>2, <1>3, <1>4, <1>5, <1>6, <1>7 DEF Next, Scheduler

\* The scheduler's lists were read in the past, in every state.
LEMMA DueStep ==
  ASSUME TypeOK, DueInv, [Next]_vars PROVE DueInv'
<1>1. clock \in Nat /\ clock' \in Nat /\ clock' >= clock
  <2>1. clock \in Nat BY Basics
  <2>2. clock' = clock \/ clock' = clock + 1
    <3>1. ASSUME NEW n, CollectScheduledMessages(n) PROVE clock' = clock
      BY <3>1 DEF CollectScheduledMessages
    <3>2. ASSUME NEW n, NEW r, NEW now, ActivateMessage(n, r, now) PROVE clock' = clock
      BY <3>2 DEF ActivateMessage
    <3> QED BY <3>1, <3>2, DueKind DEF Tick
  <2> QED BY <2>1, <2>2
<1>2. \A n \in Replica : due[n] \subseteq RowId \X Nat BY DEF TypeOK
<1>3. CASE due' = due BY <1>1, <1>2, <1>3 DEF DueInv
<1>4. ASSUME NEW n \in Replica, CollectScheduledMessages(n) PROVE DueInv'
  <2>1. PICK now \in NowMs : \E D \in Batches(DueBy(now)) : due' = [due EXCEPT ![n] = D \X {now}]
    BY <1>4 DEF CollectScheduledMessages
  <2>2. PICK D \in Batches(DueBy(now)) : due' = [due EXCEPT ![n] = D \X {now}] BY <2>1
  <2>3. now <= clock /\ clock' = clock BY <1>4, NowInt DEF CollectScheduledMessages
  <2>4. \A k \in Replica : due'[k] = IF k = n THEN D \X {now} ELSE due[k]
    BY <2>2 DEF TypeOK
  <2> QED BY <2>3, <2>4 DEF DueInv
<1>5. ASSUME NEW n \in Replica, NEW r, NEW now, ActivateMessage(n, r, now) PROVE DueInv'
  <2>1. due' = [due EXCEPT ![n] = @ \ {<<r, now>>}] /\ clock' = clock
    BY <1>5 DEF ActivateMessage
  <2>2. \A k \in Replica : due'[k] \subseteq due[k] BY <2>1 DEF TypeOK
  <2> QED BY <2>1, <2>2 DEF DueInv
<1> QED BY <1>3, <1>4, <1>5, DueKind DEF Tick

\* Every step, and stuttering, is one of the kinds.
LEMMA EveryEffect ==
  ASSUME TypeOK, DueInv, [Next]_vars PROVE Effect
<1>1. clock \in Nat BY Basics
<1>2. CASE UNCHANGED vars BY <1>1, <1>2 DEF Effect, Reads, vars
<1>3. CASE Tick BY <1>1, <1>3 DEF Effect, Reads, Tick
<1>4. CASE Admin BY <1>4 DEF Effect, Admin
<1>5. CASE Producer
  BY <1>5, EnqueueMessageEffect, EnqueueMessagesBulkEffect, CancelMessageEffect
     DEF Producer, Effect
<1>6. CASE Consumer
  BY <1>6, ClaimMessageEffect, AcknowledgeMessageEffect, NackMessageEffect,
     ExtendMessageLeaseEffect, HeartbeatMessageEffect
     DEF Consumer, Effect
<1>7. CASE DLQCalls
  BY <1>7, PurgeDLQBatchEffect, BeginEffects, RetryDLQMessageEffect,
     DeleteDLQMessageEffect
     DEF DLQCalls, Effect
<1>8. ASSUME NEW n \in Replica, Scheduler(n) PROVE Effect
  <2>1. \A item \in due[n] : item[1] \in RowId BY DEF TypeOK
  <2>2. CASE CollectScheduledMessages(n)
    BY <1>1, <2>2 DEF Effect, Reads, CollectScheduledMessages
  <2>3. CASE \E item \in due[n] : ActivateMessage(n, item[1], item[2])
    BY <2>1, <2>3, ActivateMessageEffect DEF Effect
  <2> QED BY <1>8, <2>2, <2>3 DEF Scheduler
<1>9. ASSUME NEW n \in Replica, Reclaimer(n) PROVE Effect
  <2>1. CASE \E q \in QueueName : FindExpiredMessages(n, q)
    BY <1>1, <2>1 DEF Effect, Reads, FindExpiredMessages
  <2>2. CASE \E item \in expired[n] : ReclaimExpiredMessage(n, item)
    BY <2>2, ReclaimExpiredMessageEffect DEF Effect
  <2> QED BY <1>9, <2>1, <2>2 DEF Reclaimer
<1>10. CASE CleanupExpiredBatch BY <1>10, CleanupExpiredBatchEffect DEF Effect
<1> QED
  BY <1>2, <1>3, <1>4, <1>5, <1>6, <1>7, <1>8, <1>9, <1>10 DEF Next

-----------------------------------------------------------------------------
(* The keys of cq_messages.                                                 *)

\* A stored message is in a queue that exists.
PlacedInv == \A r \in RowId :
  \/ rows[r] = NoRow
  \/ /\ rows[r].state # "NONE"
     /\ rows[r].queue \in QueueName /\ rows[r].id \in MessageId
     /\ queues[rows[r].queue].exists

\* (queue_name, message_id) is a key.
KeyInv == \A r, p \in RowId :
  /\ rows[r] # NoRow /\ rows[p] # NoRow
  /\ rows[r].queue = rows[p].queue /\ rows[r].id = rows[p].id
  => r = p

\* A queue's DLQ exists as long as the queue does.
DLQInv == \A q \in QueueName :
  queues[q].exists /\ queues[q].dlq # "" => queues[queues[q].dlq].exists

\* A message that a worker holds is not marked for deletion.
HeldInv == \A r \in RowId : rows[r].state = "RUNNING" => rows[r].deleted = NULL

\* A requeue has a target.
TargetInv == \A x \in Session : dlqTx[x].kind = "retry" => dlqTx[x].target \in QueueName

StorageInv == DueInv /\ PlacedInv /\ KeyInv /\ DLQInv /\ HeldInv /\ TargetInv

\* What TypeOK says of the configuration of a queue.
LEMMA QueueTypes ==
  ASSUME TypeOK, NEW q \in QueueName
  PROVE  /\ queues[q] \in Config \cup {NoQueue}
         /\ queues[q].dlq \in QueueName \cup {""}
<1>1. queues[q] \in Config \cup {NoQueue} BY DEF TypeOK
<1> QED BY <1>1 DEF Config, NoQueue, PlainConfig

\* A DLQ has a name, and the plain configurations name none.
LEMMA PlainTypes ==
  /\ "" \notin QueueName /\ "" \notin MessageId
  /\ PlainConfig.dlq = "" /\ PlainConfig.exists
  /\ NoQueue.dlq = "" /\ ~NoQueue.exists
  /\ NoQueue.retention = "DELETE_IMMEDIATELY" /\ PlainConfig.retention = "DELETE_IMMEDIATELY"
  /\ Idle.kind = "idle" /\ NoRow.id = "" /\ NoRow.deleted = NULL
BY ConstantsAssumption DEF PlainConfig, NoQueue, Idle, NoRow

\* Every queue stays, but for the one that an operator deletes.
LEMMA QueuesStep ==
  ASSUME TypeOK, Effect
  PROVE  \/ queues' = queues
         \/ \E q \in QueueName : CreateQueue(q) \/ DeleteQueue(q)
BY DEF Effect, Reads, Posts, Alters, Removes, Selects, Misses, Discards, Requeues, Finishes

\* What CreateQueue does to the table of queues.
LEMMA CreateQueueFacts ==
  ASSUME TypeOK, NEW q \in QueueName, CreateQueue(q)
  PROVE  /\ ~queues[q].exists /\ queues'[q] \in Configs[q]
         /\ queues'[q].dlq # "" => queues'[q].dlq \in QueueName /\ queues'[queues'[q].dlq].exists
         /\ \A p \in QueueName \ {q} :
              queues'[p] = queues[p] \/ (~queues[p].exists /\ queues'[p] = PlainConfig)
<1>1. ~queues[q].exists BY DEF CreateQueue
<1>2. PICK c \in Configs[q] :
       \/ /\ q \in AutoDLQ
          /\ c.dlq \in QueueName \ {q} /\ ~queues[c.dlq].exists
          /\ queues' = [queues EXCEPT ![q] = c, ![c.dlq] = PlainConfig]
       \/ /\ q \notin AutoDLQ
          /\ c.dlq # "" => queues[c.dlq].exists
          /\ queues' = [queues EXCEPT ![q] = c]
  BY DEF CreateQueue
<1>3. c \in Config BY ConstantTypes
<1>4. c.dlq \in QueueName \cup {""} BY <1>3 DEF Config
<1>5. queues \in [QueueName -> Config \cup {NoQueue}] BY DEF TypeOK
<1>6. CASE /\ c.dlq \in QueueName \ {q} /\ ~queues[c.dlq].exists
           /\ queues' = [queues EXCEPT ![q] = c, ![c.dlq] = PlainConfig]
  <2>1. queues'[q] = c /\ queues'[c.dlq] = PlainConfig
        /\ \A p \in QueueName \ {q, c.dlq} : queues'[p] = queues[p]
    BY <1>5, <1>6
  <2> QED BY <1>1, <1>6, <2>1, PlainTypes
<1>7. CASE /\ c.dlq # "" => queues[c.dlq].exists
           /\ queues' = [queues EXCEPT ![q] = c]
  <2>1. queues'[q] = c /\ \A p \in QueueName \ {q} : queues'[p] = queues[p] BY <1>5, <1>7
  <2>2. c.dlq # "" => c.dlq \in QueueName \ {q} BY <1>1, <1>4, <1>7
  <2> QED BY <1>1, <1>7, <2>1, <2>2
<1> QED BY <1>2, <1>6, <1>7

\* What DeleteQueue does to the tables.
LEMMA DeleteQueueFacts ==
  ASSUME TypeOK, NEW q \in QueueName, DeleteQueue(q)
  PROVE  /\ queues'[q] = NoQueue /\ \A p \in QueueName \ {q} : queues'[p] = queues[p]
         /\ \A p \in QueueName : queues[p].exists => queues[p].dlq # q
         /\ \A r \in RowId : rows'[r] = IF rows[r].queue = q THEN NoRow ELSE rows[r]
         /\ q \in Deletable /\ UNCHANGED <<clock, nextRow, nextToken, dlqTx>>
BY DEF DeleteQueue, TypeOK, IsDLQ

\* What happens to one row: nothing, deletion, or one of the changes.
LEMMA UnchangedRow ==
  ASSUME TypeOK, Effect, NEW r \in RowId
  PROVE  \/ queues' = queues /\ rows'[r] \in {rows[r], NoRow}
         \/ \E q \in QueueName : CreateQueue(q) \/ DeleteQueue(q) \/ Posts(q)
         \/ Alters(r)
         \/ \E x \in Session : Requeues(x, r)
<1>1. CASE Reads BY <1>1 DEF Reads
<1>2. ASSUME NEW p \in RowId, Alters(p), p # r PROVE queues' = queues /\ rows'[r] = rows[r]
  BY <1>2 DEF Alters, OnlyRow
<1>3. ASSUME NEW D \in SUBSET RowId, Removes(D)
      PROVE  queues' = queues /\ rows'[r] \in {rows[r], NoRow}
  BY <1>3 DEF Removes
<1>4. ASSUME NEW x \in Session, Selects(x) \/ Misses(x) \/ Discards(x)
      PROVE  queues' = queues /\ rows'[r] \in {rows[r], NoRow}
  BY <1>4 DEF Selects, Misses, Discards, Finishes
<1>5. ASSUME NEW x \in Session, NEW p \in RowId, Requeues(x, p), p # r
      PROVE  queues' = queues /\ rows'[r] = rows[r]
  BY <1>5 DEF Requeues, OnlyRow, Finishes
<1> QED BY <1>1, <1>2, <1>3, <1>4, <1>5 DEF Effect

\* What happens to the rows.
LEMMA UnchangedRows ==
  ASSUME TypeOK, Effect
  PROVE  \/ \A r \in RowId : rows'[r] \in {rows[r], NoRow}
         \/ \E q \in QueueName : Posts(q)
         \/ \E r \in RowId : Alters(r)
         \/ \E x \in Session, r \in RowId : Requeues(x, r)
<1>1. CASE Reads BY <1>1 DEF Reads
<1>2. ASSUME NEW q \in QueueName, CreateQueue(q) \/ DeleteQueue(q)
      PROVE  \A r \in RowId : rows'[r] \in {rows[r], NoRow}
  BY <1>2, DeleteQueueFacts DEF CreateQueue
<1>3. ASSUME NEW D \in SUBSET RowId, Removes(D)
      PROVE  \A r \in RowId : rows'[r] \in {rows[r], NoRow}
  BY <1>3 DEF Removes
<1>4. ASSUME NEW x \in Session, Selects(x) \/ Misses(x) \/ Discards(x)
      PROVE  \A r \in RowId : rows'[r] \in {rows[r], NoRow}
  BY <1>4 DEF Selects, Misses, Discards, Finishes
<1> QED BY <1>1, <1>2, <1>3, <1>4 DEF Effect

\* A message that a step leaves or changes has been there or is a new one.
LEMMA PlacedStep ==
  ASSUME TypeOK, TypeOK', StorageInv, Effect PROVE PlacedInv'
<1> DEFINE Placed(row, qs) ==
      \/ row = NoRow
      \/ /\ row.state # "NONE" /\ row.queue \in QueueName /\ row.id \in MessageId
         /\ qs[row.queue].exists
<1>1. SUFFICES ASSUME NEW r \in RowId PROVE Placed(rows'[r], queues')
  BY DEF PlacedInv
<1>2. Placed(rows[r], queues) BY DEF StorageInv, PlacedInv
<1>3. CASE queues' = queues /\ rows'[r] \in {rows[r], NoRow} BY <1>2, <1>3
<1>4. ASSUME NEW q \in QueueName, CreateQueue(q) PROVE Placed(rows'[r], queues')
  <2>1. rows' = rows BY <1>4 DEF CreateQueue
  <2>2. \A p \in QueueName : queues[p].exists => queues'[p].exists
    BY <1>4, CreateQueueFacts, PlainTypes
  <2> QED BY <1>2, <2>1, <2>2
<1>5. ASSUME NEW q \in QueueName, DeleteQueue(q) PROVE Placed(rows'[r], queues')
  BY <1>2, <1>5, DeleteQueueFacts
<1>6. ASSUME NEW q \in QueueName, Posts(q) PROVE Placed(rows'[r], queues')
  <2>1. CASE Fresh(q, r) BY <1>6, <2>1 DEF Fresh, Posts
  <2>2. CASE rows'[r] = rows[r] BY <1>2, <1>6, <2>2 DEF Posts
  <2> QED BY <1>6, <2>1, <2>2 DEF Posts
<1>7. ASSUME Alters(r) PROVE Placed(rows'[r], queues')
  <2>1. queues' = queues BY <1>7 DEF Alters
  <2>2. rows[r].state # "NONE"
    BY <1>7 DEF Alters, Extends, Arrives, Starts, Returns, Fails, Completes, Cancels,
                Drops, EndsAttempt
  <2>3. /\ rows[r].queue \in QueueName /\ rows[r].id \in MessageId
        /\ queues[rows[r].queue].exists
    BY <1>2, <2>2, NoRowType
  <2>4. CASE SamePlace(r) /\ rows'[r].state # "NONE"
    BY <2>1, <2>3, <2>4 DEF SamePlace, SameMessage
  <2>5. CASE Drops(r) BY <2>5 DEF Drops
  <2>6. CASE Fails(r)
    <3>1. rows'[r].id = rows[r].id /\ rows'[r].state = "ERRORED"
      BY <2>6 DEF Fails, SameMessage
    <3>2. CASE rows'[r].queue = rows[r].queue BY <2>1, <2>3, <3>1, <3>2
    <3>3. CASE /\ queues[rows[r].queue].dlq # ""
               /\ rows'[r].queue = queues[rows[r].queue].dlq
      BY <2>1, <2>3, <3>1, <3>3, QueueTypes DEF StorageInv, DLQInv
    <3> QED BY <2>6, <3>2, <3>3 DEF Fails
  <2> QED BY <1>7, <2>4, <2>5, <2>6
          DEF Alters, Extends, Arrives, Starts, Returns, Completes, Cancels
<1>8. ASSUME NEW x \in Session, Requeues(x, r) PROVE Placed(rows'[r], queues')
  <2>1. dlqTx[x] \in DlqOp BY <1>8, ActiveOp DEF Requeues, Finishes
  <2>2. dlqTx[x].target \in QueueName BY <1>8 DEF StorageInv, TargetInv, Requeues
  <2>3. rows[r].id \in MessageId BY <1>8, <2>1 DEF Requeues, RowsOf, DlqOp
  <2> QED BY <1>8, <2>2, <2>3 DEF Requeues, Finishes, SameMessage
<1> QED BY <1>3, <1>4, <1>5, <1>6, <1>7, <1>8, UnchangedRow

\* The key stays a key.
LEMMA KeyStep ==
  ASSUME TypeOK, TypeOK', StorageInv, Effect PROVE KeyInv'
<1> DEFINE Same(a, b) == a # NoRow /\ b # NoRow /\ a.queue = b.queue /\ a.id = b.id
<1>1. \A r, p \in RowId : Same(rows[r], rows[p]) => r = p BY DEF StorageInv, KeyInv
<1>2. SUFFICES \A r, p \in RowId : Same(rows'[r], rows'[p]) => r = p BY DEF KeyInv
<1>3. CASE \A r \in RowId : rows'[r] \in {rows[r], NoRow} BY <1>1, <1>3
<1>4. ASSUME NEW r \in RowId, OnlyRow(r),
             rows'[r] # NoRow => rows[r] # NoRow,
             rows'[r] # NoRow => SamePlace(r) \/ RowsOf(rows'[r].queue, rows'[r].id) \subseteq {r}
      PROVE  \A p1, p2 \in RowId : Same(rows'[p1], rows'[p2]) => p1 = p2
  <2>1. SUFFICES ASSUME NEW p \in RowId, p # r, Same(rows'[r], rows'[p]) PROVE FALSE
    BY <1>1, <1>4 DEF OnlyRow
  <2>2. rows'[p] = rows[p] BY <1>4, <2>1 DEF OnlyRow
  <2>3. CASE SamePlace(r) BY <1>1, <1>4, <2>1, <2>2, <2>3 DEF SamePlace, SameMessage
  <2>4. CASE RowsOf(rows'[r].queue, rows'[r].id) \subseteq {r}
    BY <2>1, <2>2, <2>4 DEF RowsOf
  <2> QED BY <1>4, <2>1, <2>3, <2>4
<1>5. ASSUME NEW q \in QueueName, Posts(q)
      PROVE  \A r, p \in RowId : Same(rows'[r], rows'[p]) => r = p
  <2>1. SUFFICES ASSUME NEW r \in RowId, NEW p \in RowId, Same(rows'[r], rows'[p]) PROVE r = p
    OBVIOUS
  <2> DEFINE New(a) == nextRow <= a /\ a < nextRow'
  <2>2. \A a \in RowId : New(a) => Fresh(q, a) /\ RowsOf(q, rows'[a].id) = {} BY <1>5 DEF Posts
  <2>3. \A a \in RowId : ~New(a) => rows'[a] = rows[a] BY <1>5 DEF Posts
  <2>4. New(r) /\ New(p) => r = p BY <1>5, <2>1 DEF Posts
  <2> HIDE DEF New
  <2>5. ~New(r) /\ ~New(p) => r = p BY <1>1, <2>1, <2>3
  <2>6. ASSUME NEW a \in RowId, NEW b \in RowId, New(a), ~New(b), Same(rows'[a], rows'[b])
        PROVE  FALSE
    <3>1. rows[b].queue = q /\ rows[b].id = rows'[a].id BY <2>2, <2>3, <2>6 DEF Fresh
    <3> QED BY <2>2, <2>6, <3>1 DEF RowsOf
  <2> QED BY <2>1, <2>4, <2>5, <2>6
<1>6. ASSUME NEW r \in RowId, Alters(r)
      PROVE  \A p1, p2 \in RowId : Same(rows'[p1], rows'[p2]) => p1 = p2
  <2>1. OnlyRow(r) BY <1>6 DEF Alters
  <2>2. rows[r] # NoRow
    BY <1>6, NoRowType DEF Alters, Extends, Arrives, Starts, Returns, Fails, Completes,
                           Cancels, Drops, EndsAttempt
  <2>3. SamePlace(r) \/ rows'[r] = NoRow \/ RowsOf(rows'[r].queue, rows'[r].id) \subseteq {r}
    BY <1>6 DEF Alters, Extends, Arrives, Starts, Returns, Fails, Completes, Cancels,
                Drops, SamePlace, SameMessage
  <2> QED BY <1>4, <2>1, <2>2, <2>3
<1>7. ASSUME NEW x \in Session, NEW r \in RowId, Requeues(x, r)
      PROVE  \A p1, p2 \in RowId : Same(rows'[p1], rows'[p2]) => p1 = p2
  <2>1. dlqTx[x] \in DlqOp BY <1>7, ActiveOp DEF Requeues, Finishes
  <2>2. rows[r] # NoRow
    <3>1. rows[r].queue = dlqTx[x].dlq BY <1>7 DEF Requeues, RowsOf
    <3>2. dlqTx[x].dlq # "" BY <2>1, PlainTypes DEF DlqOp
    <3> QED BY <3>1, <3>2, NoRowType
  <2>3. RowsOf(rows'[r].queue, rows'[r].id) \subseteq {r}
    BY <1>7 DEF Requeues, SameMessage, RowsOf
  <2>4. OnlyRow(r) BY <1>7 DEF Requeues
  <2> QED BY <1>4, <2>2, <2>3, <2>4
<1> QED BY <1>3, <1>5, <1>6, <1>7, UnchangedRows

\* What happens to the sessions: nothing, a SELECT, or the end of one.
LEMMA SessionsStep ==
  ASSUME TypeOK, Effect
  PROVE  dlqTx' = dlqTx \/ \E x \in Session : Selects(x) \/ Finishes(x)
BY DEF Effect, Reads, CreateQueue, DeleteQueue, Posts, Alters, Removes, Misses, Discards,
       Requeues

\* A DLQ is kept as long as a queue names it.
LEMMA DLQStep ==
  ASSUME TypeOK, TypeOK', StorageInv, Effect PROVE DLQInv'
<1>1. SUFFICES ASSUME NEW q \in QueueName, queues'[q].exists, queues'[q].dlq # ""
               PROVE  queues'[queues'[q].dlq].exists
  BY DEF DLQInv
<1>2. \A p \in QueueName : queues[p].exists /\ queues[p].dlq # "" =>
        queues[p].dlq \in QueueName /\ queues[queues[p].dlq].exists
  BY QueueTypes DEF StorageInv, DLQInv
<1>3. CASE queues' = queues BY <1>1, <1>2, <1>3
<1>4. ASSUME NEW p \in QueueName, CreateQueue(p) PROVE queues'[queues'[q].dlq].exists
  <2>1. \A a \in QueueName : queues[a].exists => queues'[a].exists
    BY <1>4, CreateQueueFacts, PlainTypes
  <2>2. CASE q = p BY <1>1, <1>4, <2>2, CreateQueueFacts
  <2>3. CASE q # p
    <3>1. queues'[q] = queues[q] BY <1>1, <1>4, <2>3, CreateQueueFacts, PlainTypes
    <3> QED BY <1>1, <1>2, <2>1, <3>1
  <2> QED BY <2>2, <2>3
<1>5. ASSUME NEW p \in QueueName, DeleteQueue(p) PROVE queues'[queues'[q].dlq].exists
  <2>1. q # p BY <1>1, <1>5, DeleteQueueFacts, PlainTypes
  <2>2. queues'[q] = queues[q] /\ queues[q].dlq # p BY <1>1, <1>5, <2>1, DeleteQueueFacts
  <2>3. queues[q].dlq \in QueueName \ {p} /\ queues[queues[q].dlq].exists BY <1>1, <1>2, <2>2
  <2>4. \A a \in QueueName \ {p} : queues'[a] = queues[a] BY <1>5, DeleteQueueFacts
  <2> QED BY <2>2, <2>3, <2>4
<1> QED BY <1>3, <1>4, <1>5, QueuesStep

\* Claims take only messages that are not marked, and only ends mark them.
LEMMA HeldStep ==
  ASSUME TypeOK, TypeOK', StorageInv, Effect PROVE HeldInv'
<1>1. SUFFICES ASSUME NEW r \in RowId, rows'[r].state = "RUNNING"
               PROVE  rows'[r].deleted = NULL
  BY DEF HeldInv
<1>2. rows[r].state = "RUNNING" => rows[r].deleted = NULL BY DEF StorageInv, HeldInv
<1>3. CASE rows'[r] \in {rows[r], NoRow} BY <1>1, <1>2, <1>3, PlainTypes
<1>4. CASE Alters(r)
  BY <1>1, <1>2, <1>4, PlainTypes DEF Alters, Extends, Arrives, Starts, Returns, Fails, Completes,
                          Cancels, Drops
<1>5. ASSUME NEW x \in Session, Requeues(x, r) PROVE FALSE BY <1>1, <1>5 DEF Requeues
<1>6. ASSUME NEW q \in QueueName, CreateQueue(q) \/ DeleteQueue(q)
      PROVE  rows'[r] \in {rows[r], NoRow}
  BY <1>6, DeleteQueueFacts DEF CreateQueue
<1>7. ASSUME NEW q \in QueueName, Posts(q) PROVE rows'[r].deleted = NULL
  BY <1>1, <1>2, <1>7 DEF Posts, Fresh
<1> QED BY <1>3, <1>4, <1>5, <1>6, <1>7, UnchangedRow

\* A requeue has a target.
LEMMA TargetStep ==
  ASSUME TypeOK, TypeOK', StorageInv, Effect PROVE TargetInv'
<1>1. \A y \in Session : dlqTx[y].kind = "retry" => dlqTx[y].target \in QueueName
  BY DEF StorageInv, TargetInv
<1>2. dlqTx \in [Session -> DlqOp \cup {Idle}] BY DEF TypeOK
<1>3. CASE dlqTx' = dlqTx BY <1>1, <1>3 DEF TargetInv
<1>4. ASSUME NEW x \in Session, Selects(x) PROVE TargetInv'
  <2>1. PICK op \in DlqOp : /\ op.kind = "retry" => op.target \in QueueName
                            /\ dlqTx' = [dlqTx EXCEPT ![x] = op]
    BY <1>4 DEF Selects
  <2>2. \A y \in Session : dlqTx'[y] = IF y = x THEN op ELSE dlqTx[y] BY <1>2, <2>1
  <2> QED BY <1>1, <2>1, <2>2 DEF TargetInv
<1>5. ASSUME NEW x \in Session, Finishes(x) PROVE TargetInv'
  <2>1. \A y \in Session : dlqTx'[y] = IF y = x THEN Idle ELSE dlqTx[y]
    BY <1>2, <1>5 DEF Finishes
  <2> QED BY <1>1, <2>1, PlainTypes DEF TargetInv
<1> QED BY <1>3, <1>4, <1>5, SessionsStep

\* The empty database satisfies them.
LEMMA InitStorage == Init => StorageInv
<1> SUFFICES ASSUME Init PROVE StorageInv OBVIOUS
<1>1. \A r \in RowId : rows[r] = NoRow BY DEF Init
<1>2. \A q \in QueueName : ~queues[q].exists BY PlainTypes DEF Init
<1>3. \A x \in Session : dlqTx[x].kind # "retry" BY PlainTypes DEF Init
<1>4. DueInv BY DEF Init, DueInv
<1>5. PlacedInv /\ KeyInv /\ HeldInv BY <1>1, NoRowType DEF PlacedInv, KeyInv, HeldInv
<1>6. DLQInv /\ TargetInv BY <1>2, <1>3 DEF DLQInv, TargetInv
<1> QED BY <1>4, <1>5, <1>6 DEF StorageInv

\* The storage invariants hold in every state.
LEMMA StorageStep ==
  ASSUME TypeOK, StorageInv, [Next]_vars PROVE TypeOK' /\ StorageInv' /\ Effect
<1>1. TypeOK' BY EveryStep
<1>2. DueInv' BY DueStep DEF StorageInv
<1>3. Effect BY EveryEffect DEF StorageInv
<1> QED BY <1>1, <1>2, <1>3, PlacedStep, KeyStep, DLQStep, HeldStep, TargetStep DEF StorageInv

\* StorageInv holds in every state.
LEMMA StorageInvariant == Spec => [](TypeOK /\ StorageInv)
<1>1. TypeOK /\ StorageInv /\ [Next]_vars => (TypeOK /\ StorageInv)' BY StorageStep
<1> QED BY <1>1, InitType, InitStorage, PTL DEF Spec

=============================================================================
