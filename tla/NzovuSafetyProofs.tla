------------------------- MODULE NzovuSafetyProofs --------------------------
(***************************************************************************)
(* Safety of messages, leases and counters, from the kinds of step and the *)
(* storage invariants of NzovuRowProofs.                                   *)
(*                                                                         *)
(* Several properties hold only on one database or for some deployments;   *)
(* the theorems name the condition they need.                              *)
(***************************************************************************)
EXTENDS NzovuRowProofs

-----------------------------------------------------------------------------
(* DLQ sessions: what the second statement of a DLQ call may find.          *)

\* The queue that a DLQ session works on stays a DLQ: SQLite lets no other
\* writer in between, and without deletions a DLQ remains one.
StableQueues == SerialWriters \/ Deletable = {}

\* SQLite: at most one DLQ call is between its two statements.
AloneInv == SerialWriters => \A x, y \in Session : Active(x) /\ Active(y) => x = y

StillDLQInv == Deletable = {} => \A x \in Session : Active(x) => IsDLQ(dlqTx[x].dlq)

\* The row with the session's id is neither delayed nor held by a worker.
FoundInv == \A x \in Session : Active(x) =>
  \A r \in RowsOf(dlqTx[x].dlq, dlqTx[x].id) :
    rows[r].state \notin {"INVISIBLE", "RUNNING"} /\ rows[r].sched <= clock

\* SQLite: it is the row that the call selected.
SelectedInv == SerialWriters => \A x \in Session : Active(x) =>
  \E r \in RowsOf(dlqTx[x].dlq, dlqTx[x].id) :
    rows[r].state = "ERRORED" /\ dlqTx[x].left = rows[r].max

SessionInv == AloneInv /\ StillDLQInv /\ SelectedInv

\* Time does not run backwards.
LEMMA ClockStep ==
  ASSUME TypeOK, TypeOK', Effect PROVE clock \in Nat /\ clock' \in Nat /\ clock' >= clock
<1>1. clock \in Nat BY Basics
<1>2. clock' \in Nat BY ConstantTypes DEF TypeOK
<1>3. clock' >= clock \/ clock' = clock
  BY DEF Effect, Reads, CreateQueue, DeleteQueue, Posts, Alters, Removes, Selects,
         Misses, Discards, Requeues, Finishes
<1> QED BY <1>1, <1>2, <1>3

\* What a step does to one session.
LEMMA OneSession ==
  ASSUME TypeOK, Effect, NEW y \in Session, dlqTx'[y].kind # "idle"
  PROVE  \/ dlqTx'[y] = dlqTx[y] /\ Active(y)
         \/ Selects(y)
<1>1. dlqTx \in [Session -> DlqOp \cup {Idle}] BY DEF TypeOK
<1>2. CASE dlqTx' = dlqTx BY <1>2 DEF Active
<1>3. ASSUME NEW x \in Session, Selects(x), x # y PROVE dlqTx'[y] = dlqTx[y] /\ Active(y)
  <2>1. dlqTx'[y] = dlqTx[y] BY <1>1, <1>3 DEF Selects
  <2> QED BY <2>1 DEF Active
<1>4. ASSUME NEW x \in Session, Finishes(x) PROVE dlqTx'[y] = dlqTx[y] /\ Active(y)
  <2>1. dlqTx'[y] = IF y = x THEN Idle ELSE dlqTx[y] BY <1>1, <1>4 DEF Finishes
  <2> QED BY <2>1, PlainTypes DEF Active
<1> QED BY <1>2, <1>3, <1>4, SessionsStep

\* SQLite: while a DLQ call is between its statements, everybody else reads.
LEMMA SerialStep ==
  ASSUME TypeOK, SerialWriters, AloneInv, Effect, NEW y \in Session, Active(y),
         dlqTx'[y].kind # "idle"
  PROVE  Reads
<1>1. ~Writable BY DEF Writable, Active
<1>2. ASSUME NEW x \in Session, Finishes(x) PROVE FALSE
  <2>1. x = y BY <1>2 DEF AloneInv, Finishes
  <2>2. dlqTx'[y] = Idle BY <1>2, <2>1 DEF Finishes, TypeOK
  <2> QED BY <2>2, PlainTypes
<1> QED BY <1>1, <1>2 DEF Effect, CreateQueue, DeleteQueue, Posts, Alters, Removes, Selects,
                         Misses, Discards, Requeues

\* Without deletions, a queue that exists keeps its configuration.
LEMMA StaysConfigured ==
  ASSUME TypeOK, Effect, Deletable = {}, NEW p \in QueueName, queues[p].exists
  PROVE  queues'[p] = queues[p]
<1>1. ASSUME NEW a \in QueueName, CreateQueue(a) PROVE queues'[p] = queues[p]
  BY <1>1, CreateQueueFacts
<1>2. ASSUME NEW a \in QueueName, DeleteQueue(a) PROVE FALSE
  BY <1>2, DeleteQueueFacts
<1> QED BY <1>1, <1>2, QueuesStep

\* The conditions on sessions hold in every state.
LEMMA SessionStep ==
  ASSUME TypeOK, TypeOK', StorageInv, SessionInv, Effect PROVE SessionInv'
<1>1. AloneInv'
  <2>1. SUFFICES ASSUME SerialWriters, NEW x \in Session, NEW y \in Session,
                        dlqTx'[x].kind # "idle", dlqTx'[y].kind # "idle"
                 PROVE  x = y
    BY DEF AloneInv, Active
  <2>2. CASE Active(x) /\ Active(y) BY <2>1, <2>2 DEF SessionInv, AloneInv
  <2>3. CASE Selects(x) /\ Active(y) BY <2>1, <2>3 DEF Selects, Writable, Active
  <2>4. CASE Selects(y) /\ Active(x) BY <2>1, <2>4 DEF Selects, Writable, Active
  <2>5. CASE Selects(x) /\ Selects(y)
    <3>1. dlqTx[x].kind = "idle" BY <2>5 DEF Selects, Active
    <3>2. SUFFICES ASSUME x # y PROVE FALSE OBVIOUS
    <3>3. dlqTx'[x] = dlqTx[x] BY <2>5, <3>2 DEF Selects, TypeOK
    <3> QED BY <2>1, <3>1, <3>3
  <2> QED BY <2>1, <2>2, <2>3, <2>4, <2>5, OneSession
<1>2. StillDLQInv'
  <2>1. SUFFICES ASSUME Deletable = {}, NEW x \in Session, dlqTx'[x].kind # "idle"
                 PROVE  \E p \in QueueName : queues'[p].exists /\ queues'[p].dlq = dlqTx'[x].dlq
    BY DEF StillDLQInv, Active, IsDLQ
  <2>2. CASE dlqTx'[x] = dlqTx[x] /\ Active(x)
    <3>1. IsDLQ(dlqTx[x].dlq) BY <2>1, <2>2 DEF SessionInv, StillDLQInv
    <3>2. PICK p \in QueueName : queues[p].exists /\ queues[p].dlq = dlqTx[x].dlq
      BY <3>1 DEF IsDLQ
    <3>3. queues'[p].exists /\ queues'[p].dlq = dlqTx[x].dlq
      BY <2>1, <3>2, StaysConfigured
    <3> QED BY <2>2, <3>3
  <2>3. CASE Selects(x)
    <3>1. PICK op \in DlqOp : RequireDLQ(op.dlq) /\ dlqTx' = [dlqTx EXCEPT ![x] = op]
          /\ queues' = queues
      BY <2>3 DEF Selects
    <3>2. dlqTx'[x] = op BY <3>1 DEF TypeOK
    <3> QED BY <3>1, <3>2 DEF RequireDLQ, IsDLQ
  <2> QED BY <2>1, <2>2, <2>3, OneSession
<1>3. SelectedInv'
  <2>1. SUFFICES ASSUME SerialWriters, NEW x \in Session, dlqTx'[x].kind # "idle"
                 PROVE  \E r \in RowId : /\ rows'[r].queue = dlqTx'[x].dlq
                                         /\ rows'[r].id = dlqTx'[x].id
                                         /\ rows'[r].state = "ERRORED"
                                         /\ dlqTx'[x].left = rows'[r].max
    BY DEF SelectedInv, RowsOf, Active
  <2>2. CASE dlqTx'[x] = dlqTx[x] /\ Active(x)
    <3>1. rows' = rows BY <2>1, <2>2, SerialStep DEF SessionInv, Active, Reads
    <3> QED BY <2>1, <2>2, <3>1 DEF SessionInv, SelectedInv, RowsOf
  <2>3. CASE Selects(x)
    <3>1. PICK op \in DlqOp : \E r \in RowsOf(op.dlq, op.id) :
            /\ rows[r].state = "ERRORED" /\ op.left = rows[r].max
            /\ dlqTx' = [dlqTx EXCEPT ![x] = op] /\ rows' = rows
      BY <2>3 DEF Selects
    <3>2. dlqTx'[x] = op BY <3>1 DEF TypeOK
    <3> QED BY <3>1, <3>2 DEF RowsOf
  <2> QED BY <2>1, <2>2, <2>3, OneSession
<1> QED BY <1>1, <1>2, <1>3 DEF SessionInv

\* SessionInv holds in every state.
LEMMA SessionInvariant == Spec => [](TypeOK /\ StorageInv /\ SessionInv)
<1>1. Init => SessionInv
  <2> SUFFICES ASSUME Init PROVE SessionInv OBVIOUS
  <2>1. \A x \in Session : ~Active(x) BY PlainTypes DEF Init, Active
  <2> QED BY <2>1 DEF SessionInv, AloneInv, StillDLQInv, SelectedInv
<1>2. TypeOK /\ StorageInv /\ SessionInv /\ [Next]_vars => SessionInv'
  BY StorageStep, SessionStep
<1> QED BY <1>1, <1>2, StorageInvariant, PTL DEF Spec

-----------------------------------------------------------------------------
(* Visibility: NoEarlyDelivery needs FoundInv, since a requeue makes the     *)
(* row it finds PENDING whatever that row is by then.                        *)

\* What a step makes visible is due.
LEMMA OnTimeStep ==
  ASSUME TypeOK, TypeOK', StorageInv, FoundInv, NoEarlyDelivery, Effect
  PROVE  NoEarlyDelivery'
<1> DEFINE Hidden == {"NONE", "INVISIBLE", "CANCELED"}
<1>1. SUFFICES ASSUME NEW r \in RowId, rows'[r].state \notin Hidden
               PROVE  rows'[r].sched <= clock'
  BY DEF NoEarlyDelivery
<1>2. clock \in Nat /\ clock' \in Nat /\ clock' >= clock BY ClockStep
<1>3. rows[r].sched \in Int
  <2>1. rows[r] \in Row BY Basics
  <2> QED BY <2>1 DEF Row
<1>4. rows[r].state \notin Hidden => rows[r].sched <= clock BY DEF NoEarlyDelivery
<1>5. SUFFICES ASSUME ~\E q \in QueueName : Posts(q), rows'[r] # NoRow
               PROVE  rows'[r].sched = rows[r].sched /\ rows[r].sched <= clock
  <2>1. ASSUME NEW q \in QueueName, Posts(q), Fresh(q, r) PROVE rows'[r].sched <= clock'
    BY <1>1, <2>1 DEF Posts, Fresh
  <2>2. ASSUME NEW q \in QueueName, Posts(q), rows'[r] = rows[r] PROVE rows'[r].sched <= clock'
    BY <1>1, <1>4, <2>2 DEF Posts
  <2>3. ASSUME NEW q \in QueueName, Posts(q) PROVE Fresh(q, r) \/ rows'[r] = rows[r]
    BY <2>3 DEF Posts
  <2>4. CASE rows'[r] = NoRow BY <1>1, <2>4, NoRowType
  <2>5. CASE rows'[r].sched = rows[r].sched /\ rows[r].sched <= clock BY <1>2, <1>3, <2>5
  <2> QED BY <2>1, <2>2, <2>3, <2>4, <2>5
<1>6. CASE rows'[r] = rows[r] BY <1>1, <1>4, <1>6
<1>7. ASSUME NEW q \in QueueName, CreateQueue(q) \/ DeleteQueue(q) PROVE rows'[r] = rows[r]
  BY <1>5, <1>7, DeleteQueueFacts DEF CreateQueue
<1>8. CASE Alters(r)
  BY <1>1, <1>4, <1>5, <1>8
     DEF Alters, Extends, Arrives, Starts, Returns, Fails, Completes, Cancels, Drops,
         EndsAttempt, SamePlace, SameMessage
<1>9. ASSUME NEW x \in Session, Requeues(x, r)
      PROVE  rows'[r].sched = rows[r].sched /\ rows[r].sched <= clock
  BY <1>9 DEF Requeues, Finishes, FoundInv, SameMessage
<1> QED BY <1>5, <1>6, <1>7, <1>8, <1>9, UnchangedRow

\* Where DLQs are stable, no step makes the row that a DLQ call will find
\* delayed or running.
LEMMA FoundStep ==
  ASSUME TypeOK, TypeOK', StorageInv, SessionInv, StableQueues, FoundInv, NoEarlyDelivery,
         Effect
  PROVE  FoundInv'
<1> DEFINE Good(row) == row.state \notin {"INVISIBLE", "RUNNING"} /\ row.sched <= clock
<1>1. clock \in Nat /\ clock' \in Nat /\ clock' >= clock BY ClockStep
<1>2. SUFFICES ASSUME NEW x \in Session, dlqTx'[x].kind # "idle", NEW r \in RowId,
                      rows'[r].queue = dlqTx'[x].dlq, rows'[r].id = dlqTx'[x].id
               PROVE  Good(rows'[r])
  <2>1. \A r \in RowId : rows'[r].sched \in Int
    <3>1. \A r \in RowId : rows'[r] \in Row BY DEF TypeOK, RowsOK
    <3> QED BY <3>1 DEF Row
  <2> QED BY <1>1, <2>1 DEF FoundInv, RowsOf, Active
<1>3. CASE Selects(x)
  <2>1. PICK op \in DlqOp : \E p \in RowsOf(op.dlq, op.id) :
          /\ rows[p].state = "ERRORED" /\ dlqTx' = [dlqTx EXCEPT ![x] = op] /\ rows' = rows
    BY <1>3 DEF Selects
  <2>2. PICK p \in RowsOf(op.dlq, op.id) :
          /\ rows[p].state = "ERRORED" /\ dlqTx' = [dlqTx EXCEPT ![x] = op] /\ rows' = rows
    BY <2>1
  <2>3. dlqTx'[x] = op BY <2>2 DEF TypeOK
  <2>4. op.dlq # "" BY PlainTypes DEF DlqOp
  <2>5. r = p
    <3>1. p \in RowId /\ rows[p].queue = op.dlq /\ rows[p].id = op.id BY <2>2 DEF RowsOf
    <3>2. rows[r].queue = op.dlq /\ rows[r].id = op.id BY <1>2, <2>2, <2>3
    <3>3. rows[p] # NoRow /\ rows[r] # NoRow BY <2>4, <3>1, <3>2, NoRowType
    <3> QED BY <3>1, <3>2, <3>3 DEF StorageInv, KeyInv
  <2> QED BY <2>2, <2>5 DEF NoEarlyDelivery
<1>4. CASE dlqTx'[x] = dlqTx[x] /\ Active(x)
  <2>1. /\ rows'[r].queue = dlqTx[x].dlq /\ rows'[r].id = dlqTx[x].id
        /\ dlqTx[x] \in DlqOp
    BY <1>2, <1>4, ActiveOp
  <2>2. rows'[r] # NoRow
    <3>1. dlqTx[x].dlq # "" BY <2>1, PlainTypes DEF DlqOp
    <3> QED BY <2>1, <3>1, NoRowType
  <2>3. SamePlace(r) => r \in RowsOf(dlqTx[x].dlq, dlqTx[x].id)
    BY <2>1 DEF SamePlace, SameMessage, RowsOf
  <2>4. r \in RowsOf(dlqTx[x].dlq, dlqTx[x].id) => Good(rows[r])
    BY <1>4 DEF FoundInv
  <2>5. CASE rows'[r] = rows[r]
    <3>1. SamePlace(r) BY <2>5 DEF SamePlace, SameMessage
    <3> QED BY <2>3, <2>4, <2>5, <3>1
  <2>6. CASE SerialWriters
    <3>1. rows' = rows BY <1>2, <1>4, <2>6, SerialStep DEF SessionInv, Reads
    <3> QED BY <2>5, <3>1
  <2>7. CASE Deletable = {}
    <3>1. IsDLQ(dlqTx[x].dlq) BY <1>4, <2>7 DEF SessionInv, StillDLQInv
    <3>2. ASSUME NEW q \in QueueName, CreateQueue(q) \/ DeleteQueue(q) PROVE rows'[r] = rows[r]
      BY <2>7, <3>2, DeleteQueueFacts DEF CreateQueue
    <3>3. ASSUME NEW q \in QueueName, Posts(q) PROVE rows'[r] = rows[r]
      BY <2>1, <3>1, <3>3 DEF Posts, Fresh
    <3>4. CASE Alters(r)
      <4>1. CASE SamePlace(r)
        <5>1. Good(rows[r]) /\ IsDLQ(rows[r].queue)
          BY <2>3, <2>4, <3>1, <4>1 DEF RowsOf
        <5> QED BY <2>2, <3>4, <4>1, <5>1
              DEF Alters, Extends, Arrives, Starts, Returns, Fails, Completes, Cancels,
                  Drops, EndsAttempt, SamePlace, SameMessage
      <4>2. CASE Fails(r)
        BY <4>2 DEF Fails, EndsAttempt, NoEarlyDelivery, SameMessage
      <4> QED BY <2>2, <3>4, <4>1, <4>2
            DEF Alters, Extends, Arrives, Starts, Returns, Completes, Cancels, Drops
    <3>5. ASSUME NEW y \in Session, Requeues(y, r) PROVE Good(rows'[r])
      <4>1. Good(rows[r]) BY <3>5 DEF Requeues, Finishes, FoundInv
      <4> QED BY <3>5, <4>1 DEF Requeues, SameMessage
    <3> HIDE DEF Good
    <3> QED BY <2>2, <2>5, <3>2, <3>3, <3>4, <3>5, UnchangedRow
  <2> QED BY <2>6, <2>7 DEF StableQueues
<1> QED BY <1>2, <1>3, <1>4, OneSession

OnTimeInv == FoundInv /\ NoEarlyDelivery

\* The strengthening of NoEarlyDelivery is inductive.
LEMMA OnTimeInvariant ==
  ASSUME StableQueues
  PROVE  Spec => [](TypeOK /\ StorageInv /\ SessionInv /\ OnTimeInv)
<1>1. Init => OnTimeInv
  <2> SUFFICES ASSUME Init PROVE OnTimeInv OBVIOUS
  <2>1. \A x \in Session : ~Active(x) BY PlainTypes DEF Init, Active
  <2>2. \A r \in RowId : rows[r].state = "NONE" BY NoRowType DEF Init
  <2> QED BY <2>1, <2>2 DEF OnTimeInv, FoundInv, NoEarlyDelivery
<1>2. TypeOK /\ StorageInv /\ SessionInv /\ OnTimeInv /\ [Next]_vars => OnTimeInv'
  BY StorageStep, FoundStep, OnTimeStep DEF OnTimeInv
<1> QED BY <1>1, <1>2, SessionInvariant, PTL DEF Spec

\* No message is visible to workers before its scheduled time, on SQLite, and
\* on PostgreSQL where no queue is ever deleted.
THEOREM OnTime ==
  ASSUME StableQueues PROVE Spec => []NoEarlyDelivery
BY OnTimeInvariant, PTL DEF OnTimeInv

-----------------------------------------------------------------------------
(* Leases.                                                                  *)

\* A RUNNING message is held by an attempt id.
LEMMA RunningRow ==
  ASSUME TypeOK, NEW r \in RowId, rows[r].state = "RUNNING"
  PROVE  /\ rows[r] \in Row /\ rows[r] # NoRow /\ r < nextRow
         /\ rows[r].token \in Token /\ rows[r].token # NULL
<1>1. rows[r] \in Row /\ rows[r] # NoRow /\ r < nextRow BY PostedRow
<1>2. rows[r].token \in 1..(nextToken - 1) BY DEF TypeOK, RowsOK
<1>3. nextToken \in 1..(MaxClaims + 1) BY DEF TypeOK
<1>4. rows[r].token \in Token BY <1>2, <1>3, ConstantTypes DEF Token
<1>5. rows[r].token # NULL BY <1>2, <1>3, ConstantTypes DEF NULL
<1> QED BY <1>1, <1>4, <1>5

\* What a step may do to a message that a worker holds.
LEMMA HeldRow ==
  ASSUME TypeOK, StorageInv, FoundInv, Effect, NEW r \in RowId, rows[r].state = "RUNNING"
  PROVE  \/ rows'[r] = rows[r]
         \/ Extends(r)
         \/ EndsAttempt(r) /\ rows'[r].token = NULL
         \/ Admin /\ rows'[r].token = NULL
<1>1. r < nextRow /\ nextRow \in Nat /\ r \in Nat BY RunningRow, Basics DEF RowId
<1>2. NoRow.token = NULL BY DEF NoRow
<1>3. CASE Reads BY <1>3 DEF Reads
<1>4. ASSUME NEW q \in QueueName, CreateQueue(q) \/ DeleteQueue(q)
      PROVE  rows'[r] = rows[r] \/ (Admin /\ rows'[r] = NoRow)
  BY <1>4, DeleteQueueFacts DEF CreateQueue, Admin
<1>5. ASSUME NEW q \in QueueName, Posts(q) PROVE rows'[r] = rows[r] BY <1>1, <1>5 DEF Posts
<1>6. ASSUME NEW p \in RowId, Alters(p), p # r PROVE rows'[r] = rows[r]
  BY <1>6 DEF Alters, OnlyRow
<1>7. CASE Alters(r)
  BY <1>2, <1>7 DEF Alters, Arrives, Starts, Returns, Fails, Completes, Cancels, Drops
<1>8. ASSUME NEW D \in SUBSET RowId, Removes(D) PROVE rows'[r] = rows[r]
  <2>1. r \notin D BY <1>8 DEF Removes, StorageInv, HeldInv
  <2> QED BY <1>8, <2>1 DEF Removes
<1>9. ASSUME NEW x \in Session, Selects(x) \/ Misses(x) PROVE rows'[r] = rows[r]
  BY <1>9 DEF Selects, Misses
<1>10. ASSUME NEW x \in Session, Finishes(x) PROVE r \notin RowsOf(dlqTx[x].dlq, dlqTx[x].id)
  BY <1>10 DEF Finishes, FoundInv
<1>11. ASSUME NEW x \in Session, Discards(x) PROVE rows'[r] = rows[r]
  BY <1>10, <1>11 DEF Discards
<1>12. ASSUME NEW x \in Session, NEW p \in RowId, Requeues(x, p) PROVE rows'[r] = rows[r]
  BY <1>10, <1>12 DEF Requeues, OnlyRow
<1> QED BY <1>2, <1>3, <1>4, <1>5, <1>6, <1>7, <1>8, <1>9, <1>11, <1>12 DEF Effect

\* Only its owner ends an attempt whose lease and heartbeat are unexpired (or
\* an operator deletes the queue): the reclaimer looks at the expiry again,
\* the cleanup service finds no held message, and a DLQ call finds none.
THEOREM LiveLeases ==
  ASSUME StableQueues PROVE Spec => LiveLeaseIsSafe
<1>1. TypeOK /\ StorageInv /\ SessionInv /\ OnTimeInv /\ [Next]_vars =>
        [\A r \in RowId :
           /\ rows[r].state = "RUNNING" /\ ~IsExpired(rows[r], clock)
           /\ rows'[r].token # rows[r].token
           => outcome'[rows[r].token] \in {"acked", "nacked"} \/ Admin]_vars
  <2> SUFFICES ASSUME TypeOK, StorageInv, OnTimeInv, [Next]_vars, NEW r \in RowId,
                      rows[r].state = "RUNNING", ~IsExpired(rows[r], clock),
                      rows'[r].token # rows[r].token
               PROVE  outcome'[rows[r].token] \in {"acked", "nacked"} \/ Admin
    OBVIOUS
  <2>1. \/ EndsAttempt(r)
        \/ Admin
    BY StorageStep, HeldRow DEF OnTimeInv, Extends
  <2>2. CASE EndsAttempt(r)
    <3>1. PICK how \in {"acked", "nacked", "reclaimed"} :
            /\ outcome' = [outcome EXCEPT ![rows[r].token] = how]
            /\ how = "reclaimed" => IsExpired(rows[r], clock)
      BY <2>2 DEF EndsAttempt
    <3>2. rows[r].token \in Token BY RunningRow
    <3>3. outcome'[rows[r].token] = how BY <3>1, <3>2, Basics
    <3> QED BY <3>1, <3>3
  <2> QED BY <2>1, <2>2
<1> QED BY <1>1, OnTimeInvariant, PTL DEF Spec, LiveLeaseIsSafe

\* With one clock, every statement uses the present time.
LEMMA OneClock ==
  ASSUME TypeOK, ClockLag = 0, NEW now \in NowMs PROVE now = clock
<1>1. clock \in Nat /\ now \in 0..clock /\ clock - now <= ClockLag BY Basics DEF NowMs
<1> QED BY <1>1

\* A lapsed lease or heartbeat is not brought back by a late renewal,
\* provided that the servers' clocks agree.
THEOREM LapsedLeases ==
  ASSUME StableQueues, ClockLag = 0 PROVE Spec => ExpiredStaysExpired
<1>1. TypeOK /\ StorageInv /\ SessionInv /\ OnTimeInv /\ [Next]_vars =>
        [\A r \in RowId : IsExpired(rows[r], clock) /\ rows'[r].token = rows[r].token
           => IsExpired(rows'[r], clock')]_vars
  <2> SUFFICES ASSUME TypeOK, StorageInv, OnTimeInv, [Next]_vars, NEW r \in RowId,
                      IsExpired(rows[r], clock), rows'[r].token = rows[r].token
               PROVE  IsExpired(rows'[r], clock')
    OBVIOUS
  <2>1. rows[r].state = "RUNNING" BY DEF IsExpired
  <2>2. rows[r] \in Row /\ rows[r].token # NULL BY <2>1, RunningRow
  <2>3. clock \in Nat /\ clock' \in Nat /\ clock' >= clock BY StorageStep, ClockStep
  <2>4. ASSUME Extends(r) PROVE FALSE
    <3>1. PICK now \in NowMs : rows[r].lease > now /\ (rows[r].hb <= 0 \/ rows[r].hb > now)
      BY <2>4 DEF Extends
    <3>2. now = clock BY <3>1, OneClock
    <3>3. rows[r].lease \in Int /\ rows[r].hb \in Int BY <2>2 DEF Row
    <3> QED BY <2>3, <3>1, <3>2, <3>3 DEF IsExpired
  <2>5. rows'[r] = rows[r] BY <2>1, <2>2, <2>4, StorageStep, HeldRow DEF OnTimeInv
  <2> QED BY <2>2, <2>3, <2>5, ExpiredLater
<1> QED BY <1>1, OnTimeInvariant, PTL DEF Spec, ExpiredStaysExpired

-----------------------------------------------------------------------------
(* EXCLUSIVE queues.                                                        *)

Leased(r, q) == rows[r].queue = q /\ rows[r].state = "RUNNING" /\ rows[r].lease > clock

ExclusiveInv == \A q \in QueueName, r, p \in RowId :
  queues[q].exclusive /\ Leased(r, q) /\ Leased(p, q) => r = p

\* A queue that holds messages keeps its configuration.
LEMMA UsedQueue ==
  ASSUME TypeOK, StorageInv, Effect, NEW r \in RowId, rows[r] # NoRow,
         ~\E q \in QueueName : DeleteQueue(q)
  PROVE  rows[r].queue \in QueueName /\ queues'[rows[r].queue] = queues[rows[r].queue]
<1>1. rows[r].queue \in QueueName /\ queues[rows[r].queue].exists
  BY DEF StorageInv, PlacedInv
<1>2. ASSUME NEW q \in QueueName, CreateQueue(q)
      PROVE  queues'[rows[r].queue] = queues[rows[r].queue]
  BY <1>1, <1>2, CreateQueueFacts
<1> QED BY <1>1, <1>2, QueuesStep

\* A message with an unexpired lease had one before the step, or is claimed
\* in it: a renewal needs an unexpired lease.
LEMMA LeasedBefore ==
  ASSUME TypeOK, TypeOK', StorageInv, ClockLag = 0, Effect, NEW r \in RowId,
         rows'[r].state = "RUNNING", rows'[r].lease > clock'
  PROVE  \/ Leased(r, rows'[r].queue)
         \/ Alters(r) /\ Starts(r)
<1>1. clock \in Nat /\ clock' \in Nat /\ clock' >= clock BY ClockStep
<1>2. rows'[r] # NoRow BY NoRowType
<1>3. rows'[r].lease \in Int
  <2>1. rows'[r] \in Row BY DEF TypeOK, RowsOK
  <2> QED BY <2>1 DEF Row
<1>4. CASE rows'[r] = rows[r] BY <1>1, <1>3, <1>4 DEF Leased
<1>5. ASSUME NEW q \in QueueName, CreateQueue(q) \/ DeleteQueue(q) PROVE rows'[r] = rows[r]
  BY <1>2, <1>5, DeleteQueueFacts DEF CreateQueue
<1>6. ASSUME NEW q \in QueueName, Posts(q) PROVE rows'[r] = rows[r]
  BY <1>6 DEF Posts, Fresh
<1>7. ASSUME NEW x \in Session, Requeues(x, r) PROVE FALSE BY <1>7 DEF Requeues
<1>8. CASE Alters(r)
  <2>1. Extends(r) \/ Starts(r)
    BY <1>2, <1>8 DEF Alters, Arrives, Returns, Fails, Completes, Cancels, Drops
  <2>2. CASE Extends(r)
    <3>1. PICK now \in NowMs : rows[r].lease > now BY <2>2 DEF Extends
    <3>2. now = clock BY OneClock
    <3> QED BY <2>2, <3>1, <3>2 DEF Extends, Leased, SamePlace
  <2> QED BY <1>8, <2>1, <2>2
<1> QED BY <1>2, <1>4, <1>5, <1>6, <1>7, <1>8, UnchangedRow

\* A claim in an EXCLUSIVE queue finds no other unexpired lease.
LEMMA ExclusiveStep ==
  ASSUME TypeOK, TypeOK', StorageInv, ClockLag = 0, ExclusiveInv, Effect
  PROVE  ExclusiveInv'
<1>1. SUFFICES ASSUME NEW q \in QueueName, NEW r \in RowId, NEW p \in RowId,
                      queues'[q].exclusive,
                      rows'[r].queue = q, rows'[r].state = "RUNNING", rows'[r].lease > clock',
                      rows'[p].queue = q, rows'[p].state = "RUNNING", rows'[p].lease > clock'
               PROVE  r = p
  BY DEF ExclusiveInv, Leased
<1>2. Leased(r, q) \/ (Alters(r) /\ Starts(r)) BY <1>1, LeasedBefore
<1>3. Leased(p, q) \/ (Alters(p) /\ Starts(p)) BY <1>1, LeasedBefore
<1>4. ASSUME NEW a \in RowId, NEW b \in RowId, Alters(a), Starts(a), Leased(b, q),
             rows'[a].queue = q
      PROVE  FALSE
  <2>1. queues' = queues /\ rows[a].queue = q BY <1>4 DEF Alters, Starts, SamePlace
  <2>2. PICK now \in NowMs : ~HasActiveLease(q, now) BY <1>1, <1>4, <2>1 DEF Starts
  <2>3. now = clock BY OneClock
  <2>4. rows[b].deleted = NULL BY <1>4 DEF StorageInv, HeldInv, Leased
  <2> QED BY <1>4, <2>2, <2>3, <2>4 DEF HasActiveLease, Leased
<1>5. ASSUME Alters(r), Alters(p), Starts(r), Starts(p) PROVE r = p
  BY <1>5 DEF Alters, OnlyRow, Starts
<1>6. CASE Leased(r, q) /\ Leased(p, q)
  <2>1. queues[q].exclusive
    <3>1. rows[r] # NoRow /\ rows[r].queue = q BY <1>6, NoRowType DEF Leased
    <3>2. ASSUME NEW d \in QueueName, DeleteQueue(d) PROVE queues'[q] = queues[q]
      <4>1. d # q BY <1>1, <3>1, <3>2, DeleteQueueFacts, NoRowType
      <4> QED BY <3>2, <4>1, DeleteQueueFacts
    <3>3. queues'[q] = queues[q] BY <3>1, <3>2, UsedQueue
    <3> QED BY <1>1, <3>3
  <2> QED BY <1>6, <2>1 DEF ExclusiveInv
<1> QED BY <1>1, <1>2, <1>3, <1>4, <1>5, <1>6

\* A set whose members are all equal has at most one.
LEMMA AtMostOne ==
  ASSUME NEW S, \A a, b \in S : a = b PROVE Cardinality(S) <= 1
<1>1. CASE S = {} BY <1>1, FS_EmptySet
<1>2. ASSUME NEW a \in S PROVE Cardinality(S) <= 1
  <2>1. S = {a} BY <1>2
  <2>2. Cardinality({a}) = 1 BY FS_Singleton
  <2> QED BY <2>1, <2>2
<1> QED BY <1>1, <1>2

\* An EXCLUSIVE queue never has two messages with an unexpired lease, however
\* claims, heartbeats, reclaims, requeues and deletions interleave, provided
\* that the servers' clocks agree: with a lag, a late renewal revives a lease
\* that a claim has already found expired.
THEOREM Exclusive ==
  ASSUME ClockLag = 0 PROVE Spec => []ExclusiveLease
<1>1. Init => ExclusiveInv
  <2> SUFFICES ASSUME Init PROVE ExclusiveInv OBVIOUS
  <2>1. \A r \in RowId : rows[r].state = "NONE" BY NoRowType DEF Init
  <2> QED BY <2>1 DEF ExclusiveInv, Leased
<1>2. TypeOK /\ StorageInv /\ ExclusiveInv /\ [Next]_vars => ExclusiveInv'
  BY StorageStep, ExclusiveStep
<1>3. ExclusiveInv => ExclusiveLease
  <2> SUFFICES ASSUME ExclusiveInv, NEW q \in QueueName, queues[q].exclusive
               PROVE  Cardinality({r \in RowId : /\ rows[r].queue = q
                                                 /\ rows[r].state = "RUNNING"
                                                 /\ rows[r].lease > clock}) <= 1
    BY DEF ExclusiveLease
  <2> DEFINE S == {r \in RowId : /\ rows[r].queue = q
                                 /\ rows[r].state = "RUNNING"
                                 /\ rows[r].lease > clock}
  <2>1. \A a, b \in S : a = b BY DEF ExclusiveInv, Leased
  <2> HIDE DEF S
  <2>2. Cardinality(S) <= 1 BY <2>1, AtMostOne
  <2> QED BY <2>2 DEF S
<1> QED BY <1>1, <1>2, <1>3, StorageInvariant, PTL DEF Spec

-----------------------------------------------------------------------------
(* Attempts, on SQLite: there a DLQ call writes the row it has selected.    *)

AttemptsInv == \A r \in RowId : rows[r].max >= 1 =>
  /\ rows[r].runs <= rows[r].max
  /\ rows[r].state \in {"INVISIBLE", "PENDING"} =>
       rows[r].attempts >= 1 /\ rows[r].attempts + rows[r].runs <= rows[r].max
  /\ rows[r].state = "RUNNING" =>
       rows[r].attempts >= 1 /\ rows[r].attempts + rows[r].runs <= rows[r].max + 1

\* The row that the second statement finds is the one the first has selected.
LEMMA SelectedRow ==
  ASSUME TypeOK, StorageInv, SessionInv, SerialWriters, NEW x \in Session, Active(x),
         NEW r \in RowsOf(dlqTx[x].dlq, dlqTx[x].id)
  PROVE  r \in RowId /\ rows[r].state = "ERRORED" /\ dlqTx[x].left = rows[r].max
<1>1. PICK p \in RowsOf(dlqTx[x].dlq, dlqTx[x].id) :
        rows[p].state = "ERRORED" /\ dlqTx[x].left = rows[p].max
  BY DEF SessionInv, SelectedInv
<1>2. dlqTx[x] \in DlqOp BY ActiveOp
<1>3. dlqTx[x].dlq # "" BY <1>2, PlainTypes DEF DlqOp
<1>4. r = p BY <1>1, <1>3, NoRowType DEF StorageInv, KeyInv, RowsOf
<1> QED BY <1>1, <1>4 DEF RowsOf

\* Nacks, expired leases and requeues keep the account of attempts.
LEMMA AttemptsStep ==
  ASSUME TypeOK, TypeOK', StorageInv, SessionInv, SerialWriters, AttemptsInv, Effect
  PROVE  AttemptsInv'
<1> DEFINE Good(row) == row.max >= 1 =>
      /\ row.runs <= row.max
      /\ row.state \in {"INVISIBLE", "PENDING"} => row.attempts >= 1 /\ row.attempts + row.runs <= row.max
      /\ row.state = "RUNNING" => row.attempts >= 1 /\ row.attempts + row.runs <= row.max + 1
<1>1. SUFFICES ASSUME NEW r \in RowId PROVE Good(rows'[r]) BY DEF AttemptsInv
<1>2. Good(rows[r]) BY DEF AttemptsInv
<1>3. /\ rows[r].max \in Int /\ rows[r].attempts \in Int /\ rows[r].runs \in Int
      /\ rows'[r].max \in Int /\ rows'[r].attempts \in Int /\ rows'[r].runs \in Int
  <2>1. rows[r] \in Row /\ rows'[r] \in Row BY Basics DEF TypeOK, RowsOK
  <2> QED BY <2>1 DEF Row
<1>4. CASE rows'[r] = rows[r] BY <1>2, <1>4
<1>5. CASE rows'[r] = NoRow
  <2>1. NoRow.max = 0 BY DEF NoRow
  <2> QED BY <1>5, <2>1
<1>6. ASSUME NEW q \in QueueName, CreateQueue(q) \/ DeleteQueue(q)
      PROVE  rows'[r] = rows[r] \/ rows'[r] = NoRow
  BY <1>6, DeleteQueueFacts DEF CreateQueue
<1>7. ASSUME NEW q \in QueueName, Fresh(q, r) PROVE Good(rows'[r])
  BY <1>3, <1>7 DEF Fresh
<1>8. ASSUME NEW q \in QueueName, Posts(q) PROVE Fresh(q, r) \/ rows'[r] = rows[r]
  BY <1>8 DEF Posts
<1>9. CASE Alters(r)
  <2>1. CASE Extends(r) \/ Arrives(r)
    BY <1>2, <1>3, <2>1 DEF Extends, Arrives, SamePlace, SameMessage
  <2>2. CASE Starts(r) BY <1>2, <1>3, <2>2 DEF Starts, SamePlace, SameMessage
  <2>3. CASE Returns(r)
    BY <1>2, <1>3, <2>3 DEF Returns, EndsAttempt, SamePlace, SameMessage
  <2>4. CASE Fails(r) \/ Completes(r) \/ Cancels(r)
    BY <1>2, <1>3, <2>4 DEF Fails, Completes, Cancels, SamePlace, SameMessage
  <2>5. CASE Drops(r) BY <1>5, <2>5 DEF Drops
  <2> HIDE DEF Good
  <2> QED BY <1>9, <2>1, <2>2, <2>3, <2>4, <2>5 DEF Alters
<1>10. ASSUME NEW x \in Session, Requeues(x, r) PROVE Good(rows'[r])
  <2>1. dlqTx[x].left = rows[r].max BY <1>10, SelectedRow DEF Requeues, Finishes
  <2> QED BY <1>3, <1>10, <2>1 DEF Requeues, SameMessage
<1> HIDE DEF Good
<1> QED BY <1>4, <1>5, <1>6, <1>7, <1>8, <1>9, <1>10, UnchangedRow

\* On SQLite a message is handed out at most max_attempts times before it
\* ends or is requeued, whatever mixture of nacks and expired leases it meets.
THEOREM AttemptsLimit ==
  ASSUME SerialWriters PROVE Spec => []AttemptsBounded
<1>1. Init => AttemptsInv
  <2> SUFFICES ASSUME Init PROVE AttemptsInv OBVIOUS
  <2>1. NoRow.max = 0 BY DEF NoRow
  <2>2. \A r \in RowId : rows[r] = NoRow BY DEF Init
  <2> QED BY <2>1, <2>2 DEF AttemptsInv
<1>2. TypeOK /\ StorageInv /\ SessionInv /\ AttemptsInv /\ [Next]_vars => AttemptsInv'
  BY StorageStep, AttemptsStep
<1>3. AttemptsInv => AttemptsBounded BY DEF AttemptsInv, AttemptsBounded
<1> QED BY <1>1, <1>2, <1>3, SessionInvariant, PTL DEF Spec

\* On SQLite a message that has ended is never processed again, unless it is
\* requeued from a DLQ with its attempts reset.
THEOREM EndIsFinal ==
  ASSUME SerialWriters PROVE Spec => TerminalIsFinal
<1> DEFINE Final(r) == rows[r].state \in Terminal /\ rows'[r].state # rows[r].state =>
       \/ rows'[r].state = "NONE"
       \/ /\ rows[r].state = "ERRORED" /\ rows'[r].state = "PENDING"
          /\ rows'[r].attempts = rows'[r].max
<1>1. TypeOK /\ StorageInv /\ SessionInv /\ [Next]_vars => [\A r \in RowId : Final(r)]_vars
  <2> SUFFICES ASSUME TypeOK, StorageInv, SessionInv, [Next]_vars, NEW r \in RowId,
                      rows[r].state \in Terminal, rows'[r].state # rows[r].state
               PROVE  \/ rows'[r].state = "NONE"
                      \/ /\ rows[r].state = "ERRORED" /\ rows'[r].state = "PENDING"
                         /\ rows'[r].attempts = rows'[r].max
    OBVIOUS
  <2>1. Effect BY StorageStep
  <2>2. rows'[r] \in {rows[r], NoRow} => rows'[r].state = "NONE" BY NoRowType
  <2>3. ASSUME NEW q \in QueueName, CreateQueue(q) \/ DeleteQueue(q)
        PROVE  rows'[r] \in {rows[r], NoRow}
    BY <2>3, DeleteQueueFacts DEF CreateQueue
  <2>4. ASSUME NEW q \in QueueName, Posts(q) PROVE rows'[r] = rows[r]
    <3>1. r < nextRow /\ r \in Nat /\ nextRow \in Nat BY PostedRow, Basics DEF Terminal, RowId
    <3> QED BY <2>4, <3>1 DEF Posts
  <2>5. ASSUME Alters(r) PROVE FALSE
    BY <2>5 DEF Alters, Extends, Arrives, Starts, Returns, Fails, Completes, Cancels, Drops,
                EndsAttempt, Terminal
  <2>6. ASSUME NEW x \in Session, Requeues(x, r)
        PROVE  /\ rows[r].state = "ERRORED" /\ rows'[r].state = "PENDING"
               /\ rows'[r].attempts = rows'[r].max
    <3>1. rows[r].state = "ERRORED" /\ dlqTx[x].left = rows[r].max
      BY <2>6, SelectedRow DEF Requeues, Finishes
    <3> QED BY <2>6, <3>1 DEF Requeues, SameMessage
  <2> QED BY <2>1, <2>2, <2>3, <2>4, <2>5, <2>6, UnchangedRow
<1> QED BY <1>1, SessionInvariant, PTL DEF Spec, TerminalIsFinal

-----------------------------------------------------------------------------
(* Retention.                                                               *)

\* The queues that may come to serve as a DLQ.
DLQNames == {q \in QueueName : \E p \in QueueName : \E c \in Configs[p] : c.dlq = q}

\* No DLQ retains its messages for a time.  (RetryDLQMessage leaves
\* deleted_at as it is, so a message marked in a DLQ would stay marked.)
UntimedDLQs == \A q \in DLQNames : \A c \in Configs[q] : c.retention # "RETAIN_DURATION"

\* Queues are configured as asked, or are plain DLQs.
ConfigInv == \A q \in QueueName : queues[q] \in Configs[q] \cup {PlainConfig, NoQueue}

\* DLQ calls work on queues that may be DLQs.
SourceInv == \A x \in Session : Active(x) => dlqTx[x].dlq \in DLQNames

\* Only ended messages are marked for deletion, and only where the queue
\* retains for a time.
MarkedInv == \A r \in RowId : rows[r].deleted # NULL =>
  /\ rows[r].state \notin {"INVISIBLE", "PENDING", "RUNNING"}
  /\ queues[rows[r].queue].retention = "RETAIN_DURATION"

\* Queues keep one of the configurations asked for.
LEMMA ConfigStep ==
  ASSUME TypeOK, Effect, ConfigInv PROVE ConfigInv'
<1>1. SUFFICES ASSUME NEW q \in QueueName
               PROVE  queues'[q] \in Configs[q] \cup {PlainConfig, NoQueue}
  BY DEF ConfigInv
<1>2. queues[q] \in Configs[q] \cup {PlainConfig, NoQueue} BY DEF ConfigInv
<1>3. ASSUME NEW p \in QueueName, CreateQueue(p)
      PROVE  queues'[q] \in Configs[q] \cup {PlainConfig, NoQueue}
  BY <1>2, <1>3, CreateQueueFacts
<1>4. ASSUME NEW p \in QueueName, DeleteQueue(p)
      PROVE  queues'[q] \in Configs[q] \cup {PlainConfig, NoQueue}
  BY <1>2, <1>4, DeleteQueueFacts
<1> QED BY <1>2, <1>3, <1>4, QueuesStep

\* A queue that another one names as its DLQ is one of DLQNames.
LEMMA NamedDLQ ==
  ASSUME ConfigInv, NEW q \in QueueName, IsDLQ(q) PROVE q \in DLQNames
<1>1. PICK p \in QueueName : queues[p].exists /\ queues[p].dlq = q BY DEF IsDLQ
<1>2. queues[p] \in Configs[p] \cup {PlainConfig, NoQueue} BY DEF ConfigInv
<1>3. PlainConfig.dlq = "" /\ NoQueue.dlq = "" BY DEF PlainConfig, NoQueue
<1>4. q # "" BY PlainTypes
<1>5. queues[p] \in Configs[p] BY <1>1, <1>2, <1>3, <1>4
<1> QED BY <1>1, <1>5 DEF DLQNames

\* Sessions work on DLQs.
LEMMA SourceStep ==
  ASSUME TypeOK, Effect, ConfigInv, SourceInv PROVE SourceInv'
<1>1. SUFFICES ASSUME NEW x \in Session, dlqTx'[x].kind # "idle"
               PROVE  dlqTx'[x].dlq \in DLQNames
  BY DEF SourceInv, Active
<1>2. CASE dlqTx'[x] = dlqTx[x] /\ Active(x) BY <1>2 DEF SourceInv
<1>3. CASE Selects(x)
  <2>1. PICK op \in DlqOp : RequireDLQ(op.dlq) /\ dlqTx' = [dlqTx EXCEPT ![x] = op]
    BY <1>3 DEF Selects
  <2>2. dlqTx'[x] = op /\ op.dlq \in QueueName BY <2>1 DEF TypeOK, DlqOp
  <2> QED BY <2>1, <2>2, NamedDLQ DEF RequireDLQ
<1> QED BY <1>1, <1>2, <1>3, OneSession

\* No DLQ marks its messages.
LEMMA UnmarkedDLQ ==
  ASSUME UntimedDLQs, ConfigInv, NEW q \in DLQNames
  PROVE  queues[q].retention # "RETAIN_DURATION"
<1>1. q \in QueueName BY DEF DLQNames
<1>2. queues[q] \in Configs[q] \cup {PlainConfig, NoQueue} BY <1>1 DEF ConfigInv
<1>3. PlainConfig.retention = "DELETE_IMMEDIATELY" /\ NoQueue.retention = "DELETE_IMMEDIATELY"
  BY DEF PlainConfig, NoQueue
<1> QED BY <1>2, <1>3 DEF UntimedDLQs

\* Only ends of messages mark them.
LEMMA MarkedStep ==
  ASSUME TypeOK, TypeOK', StorageInv, UntimedDLQs, ConfigInv, SourceInv, MarkedInv, Effect
  PROVE  MarkedInv'
<1> DEFINE Waiting == {"INVISIBLE", "PENDING", "RUNNING"}
<1>1. SUFFICES ASSUME NEW r \in RowId, rows'[r].deleted # NULL
               PROVE  /\ rows'[r].state \notin Waiting
                      /\ queues'[rows'[r].queue].retention = "RETAIN_DURATION"
  BY DEF MarkedInv
<1>2. rows[r].deleted # NULL => /\ rows[r].state \notin Waiting
                                /\ queues[rows[r].queue].retention = "RETAIN_DURATION"
  BY DEF MarkedInv
<1>3. rows'[r] # NoRow BY <1>1, PlainTypes
<1>4. CASE rows'[r] = rows[r]
  <2>1. rows[r].queue \in QueueName BY <1>3, <1>4 DEF StorageInv, PlacedInv
  <2>2. ASSUME NEW q \in QueueName, DeleteQueue(q)
        PROVE  queues'[rows[r].queue] = queues[rows[r].queue]
    <3>1. q # rows[r].queue BY <1>3, <1>4, <2>2, DeleteQueueFacts
    <3> QED BY <2>1, <2>2, <3>1, DeleteQueueFacts
  <2>3. queues'[rows[r].queue] = queues[rows[r].queue] BY <1>3, <1>4, <2>2, UsedQueue
  <2> QED BY <1>1, <1>2, <1>4, <2>3
<1>5. ASSUME NEW q \in QueueName, CreateQueue(q) \/ DeleteQueue(q) PROVE rows'[r] = rows[r]
  BY <1>3, <1>5, DeleteQueueFacts DEF CreateQueue
<1>6. ASSUME NEW q \in QueueName, Posts(q) PROVE rows'[r] = rows[r]
  BY <1>1, <1>6 DEF Posts, Fresh
<1>7. CASE Alters(r)
  <2>1. queues' = queues BY <1>7 DEF Alters
  <2>2. CASE Extends(r) \/ Arrives(r) \/ Starts(r) \/ Returns(r)
    BY <1>1, <1>2, <2>2 DEF Extends, Arrives, Starts, Returns, EndsAttempt
  <2>3. CASE Fails(r)
    BY <1>1, <1>2, <2>1, <2>3 DEF Fails, EndsAttempt, Marked
  <2>4. CASE Completes(r) \/ Cancels(r)
    BY <1>1, <2>1, <2>4 DEF Completes, Cancels, Marked, SamePlace
  <2> QED BY <1>3, <1>7, <2>2, <2>3, <2>4 DEF Alters, Drops
<1>8. ASSUME NEW x \in Session, Requeues(x, r) PROVE FALSE
  <2>1. rows[r].queue = dlqTx[x].dlq /\ dlqTx[x].dlq \in DLQNames
    BY <1>8 DEF Requeues, Finishes, RowsOf, SourceInv
  <2>2. rows[r].deleted # NULL BY <1>1, <1>8 DEF Requeues
  <2> QED BY <1>2, <2>1, <2>2, UnmarkedDLQ
<1> QED BY <1>3, <1>4, <1>5, <1>6, <1>7, <1>8, UnchangedRow

RetentionInv == ConfigInv /\ SourceInv /\ MarkedInv

\* The strengthening of WaitingIsKept is inductive.
LEMMA RetentionInvariant ==
  ASSUME UntimedDLQs PROVE Spec => [](TypeOK /\ StorageInv /\ RetentionInv)
<1>1. Init => RetentionInv
  <2> SUFFICES ASSUME Init PROVE RetentionInv OBVIOUS
  <2>1. \A x \in Session : ~Active(x) BY PlainTypes DEF Init, Active
  <2>2. \A r \in RowId : rows[r].deleted = NULL BY PlainTypes DEF Init
  <2>3. \A q \in QueueName : queues[q] = NoQueue BY DEF Init
  <2> QED BY <2>1, <2>2, <2>3 DEF RetentionInv, ConfigInv, SourceInv, MarkedInv
<1>2. TypeOK /\ StorageInv /\ RetentionInv /\ [Next]_vars => RetentionInv'
  BY StorageStep, ConfigStep, SourceStep, MarkedStep DEF RetentionInv
<1> QED BY <1>1, <1>2, StorageInvariant, PTL DEF Spec

\* A message that waits or runs is never marked for deletion, on either
\* database and however calls interleave, where no DLQ retains for a time.
THEOREM KeptWaiting ==
  ASSUME UntimedDLQs PROVE Spec => []WaitingIsKept
<1>1. RetentionInv => WaitingIsKept BY DEF RetentionInv, MarkedInv, WaitingIsKept
<1> QED BY <1>1, RetentionInvariant, PTL

-----------------------------------------------------------------------------
(* The counters of cq_queues.state_counts against the rows they stand for.  *)
(* Every statement adjusts them by what it says it has done; the proof      *)
(* follows each of these adjustments and the rows really changed.           *)

\* The rows of table f in queue q and state s, and whether a row is one.
Counted(f, q, s) == {r \in RowId : f[r].queue = q /\ f[r].state = s}
Hit(row, q, s) == IF row.queue = q /\ row.state = s THEN 1 ELSE 0

\* A table has finitely many rows.
LEMMA FiniteRows ==
  ASSUME NEW S \in SUBSET RowId PROVE IsFiniteSet(S) /\ Cardinality(S) \in Nat
<1>1. IsFiniteSet(RowId) BY ConstantTypes, FS_Interval DEF RowId
<1>2. IsFiniteSet(S) BY <1>1, FS_Subset
<1> QED BY <1>2, FS_CardinalityType

\* One row changes.
LEMMA RecountOne ==
  \A r \in RowId : \A f, g, q, s : (\A p \in RowId : p # r => g[p] = f[p]) =>
    Cardinality(Counted(g, q, s)) =
      Cardinality(Counted(f, q, s)) - Hit(f[r], q, s) + Hit(g[r], q, s)
<1> SUFFICES ASSUME NEW r \in RowId, NEW f, NEW g, NEW q, NEW s,
                    \A p \in RowId : p # r => g[p] = f[p]
             PROVE  Cardinality(Counted(g, q, s)) =
                      Cardinality(Counted(f, q, s)) - Hit(f[r], q, s) + Hit(g[r], q, s)
  OBVIOUS
<1> DEFINE B == {p \in RowId \ {r} : f[p].queue = q /\ f[p].state = s}
<1>1. IsFiniteSet(B) /\ Cardinality(B) \in Nat BY FiniteRows
<1>2. r \notin B OBVIOUS
<1>3. Counted(f, q, s) = IF Hit(f[r], q, s) = 1 THEN B \cup {r} ELSE B
  BY DEF Counted, Hit
<1>4. Counted(g, q, s) = IF Hit(g[r], q, s) = 1 THEN B \cup {r} ELSE B
  BY DEF Counted, Hit
<1>5. Hit(f[r], q, s) \in {0, 1} /\ Hit(g[r], q, s) \in {0, 1} BY DEF Hit
<1> HIDE DEF B
<1>6. Cardinality(B \cup {r}) = Cardinality(B) + 1 BY <1>1, <1>2, FS_AddElement
<1> QED BY <1>1, <1>3, <1>4, <1>5, <1>6

\* The same for a step.
LEMMA RecountStep ==
  ASSUME NEW r \in RowId, OnlyRow(r), NEW q, NEW s
  PROVE  Cardinality(Counted(rows', q, s)) =
           Cardinality(Counted(rows, q, s)) - Hit(rows[r], q, s) + Hit(rows'[r], q, s)
<1>1. \A p \in RowId : p # r => rows'[p] = rows[p] BY DEF OnlyRow
<1> QED BY <1>1, RecountOne

\* Some rows are deleted.
LEMMA RecountRemoved ==
  ASSUME NEW D \in SUBSET RowId, NEW q \in QueueName, NEW s,
         rows' = [r \in RowId |-> IF r \in D THEN NoRow ELSE rows[r]]
  PROVE  Cardinality(Counted(rows', q, s)) =
           Cardinality(Counted(rows, q, s))
             - Cardinality({r \in D : rows[r].queue = q /\ rows[r].state = s})
<1> DEFINE S == Counted(rows, q, s)
           T == {r \in D : rows[r].queue = q /\ rows[r].state = s}
<1>1. IsFiniteSet(S) BY FiniteRows DEF Counted
<1>2. S \cap D = T BY DEF Counted
<1>3. Counted(rows', q, s) = S \ D
  <2>1. NoRow.queue # q BY NoRowType, PlainTypes
  <2> QED BY <2>1 DEF Counted
<1> HIDE DEF S, T
<1>4. Cardinality(S \ D) = Cardinality(S) - Cardinality(S \cap D) BY <1>1, FS_Difference
<1>5. Cardinality(Counted(rows', q, s)) = Cardinality(S) - Cardinality(T) BY <1>2, <1>3, <1>4
<1> QED BY <1>5 DEF S, T

\* StateManager adds to one counter of an existing queue.
LEMMA AddCountAt ==
  ASSUME NEW c \in [QueueName -> [State -> Int]], NEW a \in QueueName, NEW b \in State,
         queues[a].exists, NEW n \in Int, NEW q \in QueueName, NEW s \in State
  PROVE  AddCount(c, a, b, n)[q][s] = c[q][s] + (IF q = a /\ s = b THEN n ELSE 0)
<1>1. AddCount(c, a, b, n) = [c EXCEPT ![a] = [c[a] EXCEPT ![b] = c[a][b] + n]]
  BY DEF AddCount
<1>2. c[q] \in [State -> Int] /\ c[a] \in [State -> Int] OBVIOUS
<1>3. c[q][s] \in Int BY <1>2
<1>4. CASE q # a
  <2>1. AddCount(c, a, b, n)[q] = c[q] BY <1>1, <1>4
  <2> QED BY <1>3, <1>4, <2>1
<1>5. CASE q = a
  <2>1. AddCount(c, a, b, n)[q] = [c[a] EXCEPT ![b] = c[a][b] + n] BY <1>1, <1>5
  <2>2. AddCount(c, a, b, n)[q][s] = IF s = b THEN c[a][b] + n ELSE c[a][s]
    BY <1>2, <2>1
  <2> QED BY <1>3, <1>5, <2>2
<1> QED BY <1>4, <1>5

\* A counter as the adjustments see it.
LEMMA CounterIs ==
  ASSUME TypeOK, CountersMatchRows, NEW q \in QueueName, NEW s \in State
  PROVE  /\ counts[q][s] = Cardinality(Counted(rows, q, s))
         /\ counts[q][s] \in Int
<1>1. counts[q][s] = Cardinality(Counted(rows, q, s)) BY DEF CountersMatchRows, Counted
<1>2. counts[q] \in [State -> Int] BY Basics
<1> QED BY <1>1, <1>2

-----------------------------------------------------------------------------
(* The adjustments.                                                         *)

\* A stored message is counted in an existing queue.
LEMMA StoredPlace ==
  ASSUME TypeOK, StorageInv, NEW r \in RowId, rows[r] # NoRow
  PROVE  /\ rows[r].queue \in QueueName /\ queues[rows[r].queue].exists
         /\ rows[r].state \in State
<1>1. rows[r].state # "NONE" /\ rows[r].queue \in QueueName /\ queues[rows[r].queue].exists
  BY DEF StorageInv, PlacedInv
<1>2. rows[r] \in Row BY Basics
<1>3. rows[r].state \in State \cup {"NONE"} BY <1>2 DEF Row
<1> QED BY <1>1, <1>3

\* A message that goes is no longer counted.
LEMMA RemoveCounted ==
  ASSUME TypeOK, StorageInv, CountersMatchRows, NEW r \in RowId, rows[r] # NoRow, OnlyRow(r),
         rows'[r] = NoRow, RemoveCounter(rows[r].queue, rows[r].state)
  PROVE  CountersMatchRows'
<1> DEFINE a == rows[r].queue
           b == rows[r].state
           minus == -1
<1>1. a \in QueueName /\ b \in State /\ queues[a].exists BY StoredPlace
<1>2. SUFFICES ASSUME NEW q \in QueueName, NEW s \in State
               PROVE  counts'[q][s] = Cardinality(Counted(rows', q, s))
  BY DEF CountersMatchRows, Counted
<1>3. counts[q][s] = Cardinality(Counted(rows, q, s)) /\ counts[q][s] \in Int BY CounterIs
<1>4. counts' = AddCount(counts, a, b, minus) BY DEF RemoveCounter
<1>5. counts \in [QueueName -> [State -> Int]] /\ minus \in Int BY Basics
<1> HIDE DEF a, b, minus
<1>6. counts'[q][s] = counts[q][s] + (IF q = a /\ s = b THEN minus ELSE 0)
  BY <1>1, <1>4, <1>5, AddCountAt
<1>7. Cardinality(Counted(rows', q, s)) =
        Cardinality(Counted(rows, q, s)) - Hit(rows[r], q, s) + Hit(rows'[r], q, s)
  BY RecountStep
<1>8. Hit(rows'[r], q, s) = 0 BY NoRowType, PlainTypes DEF Hit
<1>9. Hit(rows[r], q, s) = IF q = a /\ s = b THEN 1 ELSE 0 BY DEF Hit, a, b
<1> QED BY <1>3, <1>6, <1>7, <1>8, <1>9 DEF minus

\* A message that moves is counted where it goes.
LEMMA MoveCounted ==
  ASSUME TypeOK, StorageInv, CountersMatchRows, NEW r \in RowId, rows[r] # NoRow, OnlyRow(r),
         NEW d \in QueueName, NEW e \in State, queues[d].exists,
         rows'[r].queue = d, rows'[r].state = e,
         MoveCounter(rows[r].queue, rows[r].state, d, e)
  PROVE  CountersMatchRows'
<1> DEFINE a == rows[r].queue
           b == rows[r].state
           minus == -1
           plus == 1
           mid == AddCount(counts, a, b, minus)
<1>1. a \in QueueName /\ b \in State /\ queues[a].exists BY StoredPlace
<1>2. SUFFICES ASSUME NEW q \in QueueName, NEW s \in State
               PROVE  counts'[q][s] = Cardinality(Counted(rows', q, s))
  BY DEF CountersMatchRows, Counted
<1>3. counts[q][s] = Cardinality(Counted(rows, q, s)) /\ counts[q][s] \in Int BY CounterIs
<1>4. counts' = AddCount(mid, d, e, plus) BY DEF MoveCounter
<1>5. counts \in [QueueName -> [State -> Int]] /\ minus \in Int /\ plus \in Int BY Basics
<1> HIDE DEF a, b, minus, plus
<1>6. mid \in [QueueName -> [State -> Int]] BY <1>5, AddCountType
<1>7. mid[q][s] = counts[q][s] + (IF q = a /\ s = b THEN minus ELSE 0)
  BY <1>1, <1>5, AddCountAt
<1> HIDE DEF mid
<1>8. counts'[q][s] = mid[q][s] + (IF q = d /\ s = e THEN plus ELSE 0)
  BY <1>4, <1>5, <1>6, AddCountAt
<1>9. Cardinality(Counted(rows', q, s)) =
        Cardinality(Counted(rows, q, s)) - Hit(rows[r], q, s) + Hit(rows'[r], q, s)
  BY RecountStep
<1>10. Hit(rows'[r], q, s) = IF q = d /\ s = e THEN 1 ELSE 0 BY DEF Hit
<1>11. Hit(rows[r], q, s) = IF q = a /\ s = b THEN 1 ELSE 0 BY DEF Hit, a, b
<1> QED BY <1>3, <1>7, <1>8, <1>9, <1>10, <1>11 DEF minus, plus

\* Posted messages are counted.
LEMMA PostCounted ==
  ASSUME TypeOK, CountersMatchRows, NEW d \in QueueName, Posts(d)
  PROVE  CountersMatchRows'
<1> DEFINE a == nextRow
           plus == 1
           e == rows'[nextRow].state
           e2 == rows'[nextRow + 1].state
<1>1. a \in RowId /\ a \in Nat /\ rows[a] = NoRow /\ queues[d].exists
  BY Basics DEF Posts, RowId
<1>2. nextRow' > a /\ nextRow' \in Nat BY DEF Posts
<1>3. Fresh(d, a) BY <1>1, <1>2 DEF Posts
<1>4. rows'[a].queue = d /\ e \in State BY <1>3 DEF Fresh, State
<1>5. SUFFICES ASSUME NEW q \in QueueName, NEW s \in State
               PROVE  counts'[q][s] = Cardinality(Counted(rows', q, s))
  BY DEF CountersMatchRows, Counted
<1>6. counts[q][s] = Cardinality(Counted(rows, q, s)) /\ counts[q][s] \in Int BY CounterIs
<1>7. counts \in [QueueName -> [State -> Int]] /\ plus \in Int BY Basics
<1>8. Hit(NoRow, q, s) = 0 BY NoRowType, PlainTypes DEF Hit
<1>9. Hit(rows'[a], q, s) = IF q = d /\ s = e THEN 1 ELSE 0 BY <1>4 DEF Hit
<1>10. CASE nextRow' = nextRow + 1 /\ InsertCounter(d, e)
  <2>1. OnlyRow(a)
    <3>1. \A r \in RowId : nextRow <= r /\ r < nextRow' <=> r = a BY <1>1, <1>10 DEF RowId
    <3> QED BY <3>1 DEF Posts, OnlyRow
  <2>2. counts' = AddCount(counts, d, e, plus) BY <1>10 DEF InsertCounter
  <2> HIDE DEF a, e, plus
  <2>3. counts'[q][s] = counts[q][s] + (IF q = d /\ s = e THEN plus ELSE 0)
    BY <1>1, <1>4, <1>7, <2>2, AddCountAt
  <2>4. Cardinality(Counted(rows', q, s)) =
          Cardinality(Counted(rows, q, s)) - Hit(rows[a], q, s) + Hit(rows'[a], q, s)
    BY <1>1, <2>1, RecountStep
  <2> QED BY <1>1, <1>6, <1>8, <1>9, <2>3, <2>4 DEF plus
<1>11. CASE /\ nextRow' = nextRow + 2 /\ nextRow + 1 \in RowId
            /\ counts' = AddCount(AddCount(counts, d, e, 1), d, e2, 1)
  <2> DEFINE b == nextRow + 1
             mid == [rows EXCEPT ![a] = rows'[a]]
             c == AddCount(counts, d, e, plus)
  <2>1. b \in RowId /\ b # a /\ rows[b] = NoRow /\ a < b /\ b < nextRow'
    BY <1>1, <1>11, Basics DEF RowId
  <2>2. Fresh(d, b)
    <3>1. nextRow <= b BY <1>1
    <3> QED BY <2>1, <3>1 DEF Posts
  <2>3. rows'[b].queue = d /\ e2 \in State BY <2>2 DEF Fresh, State
  <2>4. \A r \in RowId : r # a /\ r # b => rows'[r] = rows[r]
    <3>1. \A r \in RowId : nextRow <= r /\ r < nextRow' <=> r \in {a, b}
      BY <1>1, <1>11 DEF RowId
    <3> QED BY <3>1 DEF Posts
  <2>5. mid[a] = rows'[a] /\ \A r \in RowId : r # a => mid[r] = rows[r] BY <1>1, Basics
  <2>6. mid[b] = NoRow /\ \A r \in RowId : r # b => rows'[r] = mid[r]
    BY <2>1, <2>4, <2>5
  <2>7. counts' = AddCount(c, d, e2, plus) BY <1>11
  <2>8. Hit(rows'[b], q, s) = IF q = d /\ s = e2 THEN 1 ELSE 0 BY <2>3 DEF Hit
  <2> HIDE DEF a, b, e, e2, plus, mid
  <2>9. c[q][s] = counts[q][s] + (IF q = d /\ s = e THEN plus ELSE 0)
    BY <1>1, <1>4, <1>7, AddCountAt
  <2>10. c \in [QueueName -> [State -> Int]] BY <1>7, AddCountType
  <2> HIDE DEF c
  <2>11. counts'[q][s] = c[q][s] + (IF q = d /\ s = e2 THEN plus ELSE 0)
    BY <1>1, <1>7, <2>3, <2>7, <2>10, AddCountAt
  <2>12. Cardinality(Counted(mid, q, s)) =
           Cardinality(Counted(rows, q, s)) - Hit(rows[a], q, s) + Hit(mid[a], q, s)
    <3>1. a \in RowId BY <1>1
    <3>2. \A r \in RowId : r # a => mid[r] = rows[r] BY <2>5
    <3> QED BY <3>1, <3>2, RecountOne
  <2>13. Cardinality(Counted(rows', q, s)) =
           Cardinality(Counted(mid, q, s)) - Hit(mid[b], q, s) + Hit(rows'[b], q, s)
    BY <2>1, <2>6, RecountOne
  <2> QED BY <1>1, <1>6, <1>8, <1>9, <2>5, <2>6, <2>8, <2>9, <2>11, <2>12, <2>13 DEF plus
<1> QED BY <1>10, <1>11 DEF Posts, TalliedPost

\* A batch of removals.
LEMMA BatchCounted ==
  ASSUME TypeOK, CountersMatchRows, NEW D \in SUBSET RowId, Removes(D)
  PROVE  CountersMatchRows'
<1>1. SUFFICES ASSUME NEW q \in QueueName, NEW s \in State
               PROVE  counts'[q][s] = Cardinality(Counted(rows', q, s))
  BY DEF CountersMatchRows, Counted
<1> DEFINE gone == Cardinality({r \in D : rows[r].queue = q /\ rows[r].state = s})
<1>2. counts[q][s] = Cardinality(Counted(rows, q, s)) BY CounterIs
<1>3. counts'[q][s] = counts[q][s] - gone BY DEF Removes, RemoveCounters
<1>4. rows' = [r \in RowId |-> IF r \in D THEN NoRow ELSE rows[r]] BY DEF Removes
<1>5. Cardinality(Counted(rows', q, s)) = Cardinality(Counted(rows, q, s)) - gone
  BY <1>4, RecountRemoved
<1> HIDE DEF gone
<1> QED BY <1>2, <1>3, <1>5

\* The deletion of a queue resets its counters.
LEMMA DeleteQueueCounted ==
  ASSUME TypeOK, CountersMatchRows, NEW d \in QueueName, DeleteQueue(d)
  PROVE  CountersMatchRows'
<1>1. SUFFICES ASSUME NEW q \in QueueName, NEW s \in State
               PROVE  counts'[q][s] = Cardinality(Counted(rows', q, s))
  BY DEF CountersMatchRows, Counted
<1>2. \A r \in RowId : rows'[r] = IF rows[r].queue = d THEN NoRow ELSE rows[r]
  BY DeleteQueueFacts
<1>3. NoRow.queue # q BY NoRowType, PlainTypes
<1>4. counts' = [counts EXCEPT ![d] = [t \in State |-> 0]] BY DEF DeleteQueue
<1>5. CASE q = d
  <2>1. counts'[q][s] = 0 BY <1>4, <1>5, Basics
  <2>2. Counted(rows', q, s) = {} BY <1>2, <1>3, <1>5 DEF Counted
  <2>3. Cardinality({}) = 0 BY FS_EmptySet
  <2> QED BY <2>1, <2>2, <2>3
<1>6. CASE q # d
  <2>1. counts'[q] = counts[q] BY <1>4, <1>6, Basics
  <2>2. Counted(rows', q, s) = Counted(rows, q, s) BY <1>2, <1>3, <1>6 DEF Counted
  <2>3. counts[q][s] = Cardinality(Counted(rows, q, s)) BY CounterIs
  <2> QED BY <2>1, <2>2, <2>3
<1> QED BY <1>5, <1>6

\* One message changes.
LEMMA AlterCounted ==
  ASSUME TypeOK, TypeOK', StorageInv, StorageInv', CountersMatchRows, NEW r \in RowId, Alters(r)
  PROVE  CountersMatchRows'
<1>1. OnlyRow(r) /\ queues' = queues BY DEF Alters
<1>2. rows[r] # NoRow
  BY NoRowType DEF Alters, Extends, Arrives, Starts, Returns, Fails, Completes, Cancels, Drops,
                   EndsAttempt
<1>3. CASE Extends(r) /\ counts' = counts
  <2>1. SUFFICES ASSUME NEW q \in QueueName, NEW s \in State
                 PROVE  counts'[q][s] = Cardinality(Counted(rows', q, s))
    BY DEF CountersMatchRows, Counted
  <2>2. rows'[r].queue = rows[r].queue /\ rows'[r].state = rows[r].state
    BY <1>3 DEF Extends, SamePlace
  <2>3. Counted(rows', q, s) = Counted(rows, q, s) BY <1>1, <2>2 DEF Counted, OnlyRow
  <2> QED BY <1>3, <2>3, CounterIs
<1>4. CASE Tallied(r) /\ rows'[r] = NoRow BY <1>1, <1>2, <1>4, RemoveCounted DEF Tallied
<1>5. CASE Tallied(r) /\ rows'[r] # NoRow
  <2> DEFINE d == rows'[r].queue
             e == rows'[r].state
  <2>1. d \in QueueName /\ queues[d].exists /\ e # "NONE"
    BY <1>1, <1>5 DEF StorageInv, PlacedInv
  <2>2. e \in State
    <3>1. rows'[r] \in Row BY DEF TypeOK, RowsOK
    <3>2. e \in State \cup {"NONE"} BY <3>1 DEF Row
    <3> QED BY <2>1, <3>2
  <2>3. MoveCounter(rows[r].queue, rows[r].state, d, e) BY <1>5 DEF Tallied
  <2>4. rows'[r].queue = d /\ rows'[r].state = e OBVIOUS
  <2> HIDE DEF d, e
  <2> QED BY <1>1, <1>2, <2>1, <2>2, <2>3, <2>4, MoveCounted
<1> QED BY <1>3, <1>4, <1>5 DEF Alters

\* The end of a DLQ call moves the counter of the row it has selected.
LEMMA DLQCounted ==
  ASSUME TypeOK, StorageInv, SessionInv, SerialWriters, CountersMatchRows, NEW x \in Session
  PROVE  /\ Misses(x) => CountersMatchRows'
         /\ Discards(x) => CountersMatchRows'
         /\ \A r \in RowId : Requeues(x, r) => CountersMatchRows'
<1> DEFINE q == dlqTx[x].dlq
           found == RowsOf(q, dlqTx[x].id)
<1>1. ASSUME Active(x)
      PROVE  \E r \in RowId : /\ found = {r} /\ rows[r].state = "ERRORED" /\ rows[r].queue = q
                              /\ rows[r] # NoRow
  <2>1. PICK r \in found : rows[r].state = "ERRORED"
    BY <1>1 DEF SessionInv, SelectedInv
  <2>2. dlqTx[x] \in DlqOp BY <1>1, ActiveOp
  <2>3. q # "" BY <2>2, PlainTypes DEF DlqOp
  <2>4. r \in RowId /\ rows[r].queue = q /\ rows[r] # NoRow BY <2>3, NoRowType DEF RowsOf
  <2>5. \A p \in found : p = r BY <2>3, NoRowType DEF StorageInv, KeyInv, RowsOf
  <2> QED BY <2>1, <2>4, <2>5
<1>2. ASSUME Misses(x) PROVE CountersMatchRows'
  <2>1. rows' = rows /\ counts' = counts BY <1>1, <1>2 DEF Misses, Finishes
  <2> QED BY <2>1 DEF CountersMatchRows
<1>3. ASSUME Discards(x) PROVE CountersMatchRows'
  <2>1. PICK r \in RowId : /\ found = {r} /\ rows[r].state = "ERRORED" /\ rows[r].queue = q
                           /\ rows[r] # NoRow
    BY <1>1, <1>3 DEF Discards, Finishes
  <2>2. rows'[r] = NoRow /\ OnlyRow(r) BY <1>3, <2>1 DEF Discards, OnlyRow
  <2>3. RemoveCounter(rows[r].queue, rows[r].state) BY <1>3, <2>1 DEF Discards
  <2> QED BY <2>1, <2>2, <2>3, RemoveCounted
<1>4. ASSUME NEW r \in RowId, Requeues(x, r) PROVE CountersMatchRows'
  <2> DEFINE d == dlqTx[x].target
             e == "PENDING"
  <2>1. r \in found /\ OnlyRow(r) BY <1>4 DEF Requeues
  <2>2. rows[r].state = "ERRORED" /\ rows[r].queue = q /\ rows[r] # NoRow
    BY <1>1, <1>4, <2>1 DEF Requeues, Finishes
  <2>3. d \in QueueName /\ queues[d].exists BY <1>4 DEF StorageInv, TargetInv, Requeues
  <2>4. e \in State BY DEF State
  <2>5. rows'[r].queue = d /\ rows'[r].state = e BY <1>4 DEF Requeues
  <2>6. MoveCounter(rows[r].queue, rows[r].state, d, e) BY <1>4, <2>2 DEF Requeues
  <2> HIDE DEF d, e
  <2> QED BY <2>1, <2>2, <2>3, <2>4, <2>5, <2>6, MoveCounted
<1> QED BY <1>2, <1>3, <1>4

\* Every step adjusts the counters by what it does to the rows.
LEMMA CounterStep ==
  ASSUME TypeOK, TypeOK', StorageInv, StorageInv', SessionInv, SerialWriters,
         CountersMatchRows, Effect
  PROVE  CountersMatchRows'
<1>1. CASE UNCHANGED <<rows, counts>> BY <1>1 DEF CountersMatchRows
<1>2. CASE Reads BY <1>1, <1>2 DEF Reads
<1>3. ASSUME NEW q \in QueueName, CreateQueue(q) PROVE CountersMatchRows'
  BY <1>1, <1>3 DEF CreateQueue
<1>4. ASSUME NEW x \in Session, Selects(x) PROVE CountersMatchRows'
  BY <1>1, <1>4 DEF Selects
<1> QED BY <1>2, <1>3, <1>4, DeleteQueueCounted, PostCounted, AlterCounted, BatchCounted,
           DLQCounted DEF Effect

\* The empty database is counted right.
LEMMA InitCounted == Init => CountersMatchRows
<1> SUFFICES ASSUME Init, NEW q \in QueueName, NEW s \in State
             PROVE  counts[q][s] = Cardinality(Counted(rows, q, s))
  BY DEF CountersMatchRows, Counted
<1>1. counts[q][s] = 0 BY DEF Init
<1>2. NoRow.queue # q BY NoRowType, PlainTypes
<1>3. Counted(rows, q, s) = {} BY <1>2 DEF Init, Counted
<1>4. Cardinality({}) = 0 BY FS_EmptySet
<1> QED BY <1>1, <1>3, <1>4

\* On SQLite the counters that StateManager keeps are at every moment the
\* numbers of messages per queue and state: no call, bulk request, batch of a
\* background service or half-done DLQ call lets them drift.
THEOREM CountersRight ==
  ASSUME SerialWriters PROVE Spec => []CountersMatchRows
<1>1. TypeOK /\ StorageInv /\ SessionInv /\ CountersMatchRows /\ [Next]_vars => CountersMatchRows'
  BY StorageStep, CounterStep
<1> QED BY <1>1, InitCounted, SessionInvariant, PTL DEF Spec

=============================================================================
