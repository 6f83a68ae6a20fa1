---------------------------- MODULE NzovuProofs -----------------------------
(***************************************************************************)
(* Theorems about Nzovu, for every value of its constants.                 *)
(*                                                                         *)
(* Each action is shown to keep TypeOK and to be a step of one of four     *)
(* kinds (StepKind): it leaves the attempts alone, hands a message to a    *)
(* new attempt, renews a lease, or ends the attempts of some messages.     *)
(* The invariants on leases and owners then need four cases, not twenty.   *)
(***************************************************************************)
EXTENDS Nzovu, FiniteSetTheorems, TLAPS

-----------------------------------------------------------------------------
(* Rows: what the updates of the model do to a row's type.  Numerals and    *)
(* NULL are kept folded: the provers do better on records of plain terms.   *)

\* SQL's NULL stands for an integer in columns of times and tokens.
LEMMA NullInt == NULL \in Int /\ 0 \in Int
BY DEF NULL

\* A free primary key has the type of a row.
LEMMA NoRowType == NoRow \in Row /\ NoRow.state = "NONE" /\ NoRow.queue = ""
BY DEF NoRow, Row, NULL

\* Releasing a row keeps its type.
LEMMA ReleasedType ==
  ASSUME NEW row \in Row
  PROVE  Released(row) \in Row
BY NullInt DEF Row, Released

\* Setting the renewal columns keeps the type of a row.
LEMMA RenewType ==
  ASSUME NEW row \in Row, NEW ext \in Int, NEW renew \in Int
  PROVE  [row EXCEPT !.ext = ext, !.renew = renew] \in Row
BY DEF Row

\* Clearing the lease columns keeps the type of a row.
LEMMA ClearedType ==
  ASSUME NEW row \in Row
  PROVE  Cleared(row) \in Row
BY ReleasedType, RenewType, NullInt, Zenon DEF Cleared

\* A message that goes back to its queue is a PENDING row.
LEMMA RetriedType ==
  ASSUME NEW row \in Row, NEW left \in Int
  PROVE  Retried(row, left) \in Row /\ Retried(row, left).state = "PENDING"
BY ClearedType DEF Retried, Row, State

\* A dead-lettered or errored message is an ERRORED row.
LEMMA ErroredType ==
  ASSUME NEW row \in Row, NEW left \in Int, NEW q \in QueueName \cup {""}, NEW d \in Int
  PROVE  LET e == [Cleared(row) EXCEPT !.state = "ERRORED", !.attempts = left] IN
         /\ [e EXCEPT !.queue = q] \in Row /\ [e EXCEPT !.queue = q].state = "ERRORED"
         /\ [e EXCEPT !.deleted = d] \in Row /\ [e EXCEPT !.deleted = d].state = "ERRORED"
<1> DEFINE e == [Cleared(row) EXCEPT !.state = "ERRORED", !.attempts = left]
<1>1. e \in Row /\ e.state = "ERRORED" BY ClearedType DEF Row, State
<1> HIDE DEF e
<1>2. [e EXCEPT !.queue = q] \in Row /\ [e EXCEPT !.queue = q].state = "ERRORED"
  BY <1>1 DEF Row
<1>3. [e EXCEPT !.deleted = d] \in Row /\ [e EXCEPT !.deleted = d].state = "ERRORED"
  BY <1>1 DEF Row
<1> QED BY <1>2, <1>3 DEF e

\* A claim gives a row the next attempt id and a fresh lease.
LEMMA ClaimedType ==
  ASSUME NEW row \in Row, nextToken \in Int, NEW now \in Int, NEW d \in Int,
         HeartbeatTimeout \in Int
  PROVE  LET c == Claimed(row, now, d) IN
         /\ c \in Row /\ c.state = "RUNNING" /\ c.token = nextToken /\ c.start = now
         /\ c.lease = now + d /\ c.ext = 0 /\ c.renew = 0
<1> DEFINE hb == IF HeartbeatTimeout > 0 THEN now + HeartbeatTimeout ELSE 0
           runs == row.runs + 1
           lease == now + d
           zero == 0
<1>1. row.runs \in Int BY DEF Row
<1>2. hb \in Int OBVIOUS
<1>3. runs \in Int BY <1>1
<1>4. lease \in Int /\ zero \in Int OBVIOUS
<1>5. Claimed(row, now, d) =
        [row EXCEPT !.state = "RUNNING", !.token = nextToken, !.start = now,
                    !.lease = lease, !.ext = zero, !.renew = zero,
                    !.hb = hb, !.runs = runs]
  BY DEF Claimed
<1> HIDE DEF hb, runs, lease, zero
<1> DEFINE first == [row EXCEPT !.state = "RUNNING", !.token = nextToken, !.start = now,
                               !.lease = lease]
<1>6. first \in Row /\ first.state = "RUNNING" /\ first.token = nextToken
        /\ first.start = now /\ first.lease = lease
  BY <1>4 DEF Row, State
<1>7. Claimed(row, now, d) =
        [first EXCEPT !.ext = zero, !.renew = zero, !.hb = hb, !.runs = runs]
  BY <1>5
<1> HIDE DEF first
<1> DEFINE second == [first EXCEPT !.ext = zero, !.renew = zero]
<1>8. second \in Row BY <1>4, <1>6, RenewType
<1>9. /\ second.state = "RUNNING" /\ second.token = nextToken /\ second.start = now
      /\ second.lease = lease /\ second.ext = zero /\ second.renew = zero
  BY <1>6 DEF Row
<1>10. Claimed(row, now, d) = [second EXCEPT !.hb = hb, !.runs = runs] BY <1>7
<1> HIDE DEF second
<1>11. Claimed(row, now, d) \in Row BY <1>2, <1>3, <1>8, <1>10 DEF Row
<1>12. LET c == Claimed(row, now, d) IN
         /\ c.state = "RUNNING" /\ c.token = nextToken /\ c.start = now
         /\ c.lease = lease /\ c.ext = zero /\ c.renew = zero
  BY <1>8, <1>9, <1>10 DEF Row
<1> QED BY <1>11, <1>12 DEF lease, zero

\* What the proofs use of the assumptions on the constants.
LEMMA ConstantTypes ==
  /\ MaxTime \in Nat /\ MaxRows \in Nat /\ MaxClaims \in Nat
  /\ RetentionPeriod \in Nat /\ HeartbeatTimeout \in Nat
  /\ ExtendStep \in Nat /\ MaxExtension \in Nat /\ MaxRenewals \in Nat
  /\ Extension \subseteq Nat /\ LeaseDuration \subseteq Nat \ {0}
  /\ Delay \subseteq Nat /\ MaxAttemptsInput \subseteq Int
  /\ Configs \in [QueueName -> SUBSET Config]
BY ConstantsAssumption, Zenon DEF ConstantsAssumption

\* The time a statement uses is a time of the past or the present.
LEMMA NowInt ==
  ASSUME TypeOK, NEW now \in NowMs
  PROVE  now \in Nat /\ now <= clock
<1>1. clock \in 0..MaxTime BY Zenon DEF TypeOK
<1> QED BY <1>1, ConstantTypes DEF NowMs

\* calculateDeletion yields a time or NULL.
LEMMA DeletedAtInt ==
  ASSUME NEW q, NEW now \in Int
  PROVE  DeletedAt(q, now) \in Int
<1>1. now + RetentionPeriod \in Int BY ConstantTypes
<1> QED BY <1>1, NullInt, Zenon DEF DeletedAt

-----------------------------------------------------------------------------
(* Counters.                                                                *)

\* An update of one counter keeps the type of the counters, also when the
\* queue does not exist.
LEMMA AddCountType ==
  ASSUME NEW c \in [QueueName -> [State -> Int]], NEW q, NEW s, NEW n \in Int
  PROVE  AddCount(c, q, s, n) \in [QueueName -> [State -> Int]]
<1> DEFINE m == IF queues[q].exists THEN n ELSE 0
<1>1. m \in Int OBVIOUS
<1>2. AddCount(c, q, s, n) = [c EXCEPT ![q][s] = @ + m] BY DEF AddCount
<1> HIDE DEF m
<1>3. CASE q \in QueueName /\ s \in State
  BY <1>1, <1>2, <1>3
<1>4. CASE q \in QueueName /\ s \notin State
  <2>1. [c[q] EXCEPT ![s] = @ + m] = c[q] BY <1>4
  <2> QED BY <1>2, <1>4, <2>1
<1>5. CASE q \notin QueueName
  BY <1>1, <1>2, <1>5
<1> QED BY <1>3, <1>4, <1>5

\* The counter operations of StateManager keep the type of the counters.
LEMMA CountersType ==
  ASSUME counts \in [QueueName -> [State -> Int]], NEW q, NEW s, NEW q2, NEW s2
  PROVE  /\ InsertCounter(q, s) => counts' \in [QueueName -> [State -> Int]]
         /\ RemoveCounter(q, s) => counts' \in [QueueName -> [State -> Int]]
         /\ MoveCounter(q, s, q2, s2) => counts' \in [QueueName -> [State -> Int]]
         /\ UpdateCounters(q, s, s2) => counts' \in [QueueName -> [State -> Int]]
<1>1. 1 \in Int /\ -1 \in Int OBVIOUS
<1> QED BY <1>1, AddCountType
        DEF InsertCounter, RemoveCounter, MoveCounter, UpdateCounters

\* So does the removal of a batch.
LEMMA RemoveCountersType ==
  ASSUME counts \in [QueueName -> [State -> Int]], NEW D \in SUBSET RowId,
         RemoveCounters(D)
  PROVE  counts' \in [QueueName -> [State -> Int]]
<1> DEFINE S(q, s) == {r \in D : rows[r].queue = q /\ rows[r].state = s}
<1>1. ASSUME NEW q, NEW s PROVE Cardinality(S(q, s)) \in Nat
  <2>1. IsFiniteSet(RowId) BY ConstantTypes, FS_Interval DEF RowId
  <2>2. IsFiniteSet(S(q, s)) BY <2>1, FS_Subset
  <2> QED BY <2>2, FS_CardinalityType
<1>2. counts' = [q \in QueueName |-> [s \in State |-> counts[q][s] - Cardinality(S(q, s))]]
  BY DEF RemoveCounters
<1> HIDE DEF S
<1> QED BY <1>1, <1>2

-----------------------------------------------------------------------------
(* Steps on the table of messages.                                          *)

\* What TypeOK says in the form that most proofs use.
LEMMA Basics ==
  ASSUME TypeOK
  PROVE  /\ clock \in Nat /\ nextRow \in Nat /\ nextToken \in Nat
         /\ counts \in [QueueName -> [State -> Int]]
         /\ rows \in [RowId -> Row]
         /\ outcome \in [Token -> Outcome]
         /\ \A r \in RowId : r >= nextRow => rows[r] = NoRow
         /\ \A r \in RowId : rows[r].state # "NONE" => r < nextRow
<1>1. clock \in Nat /\ nextRow \in Nat /\ nextToken \in Nat
  BY ConstantTypes DEF TypeOK
<1>2. counts \in [QueueName -> [State -> Int]] /\ rows \in [RowId -> Row]
      /\ outcome \in [Token -> Outcome]
  BY DEF TypeOK, RowsOK, OutcomeOK
<1>3. \A r \in RowId : r >= nextRow => rows[r] = NoRow BY DEF TypeOK, RowsOK
<1>4. \A r \in RowId : rows[r].state # "NONE" => r < nextRow
  <2>1. NoRow.state = "NONE" BY NoRowType
  <2> QED BY <1>1, <1>3, <2>1, ConstantTypes DEF RowId
<1> QED BY <1>1, <1>2, <1>3, <1>4

\* One stored row changes, to one that is held by the same attempt or by none.
LEMMA ChangeOne ==
  ASSUME TypeOK, NEW r \in RowId, r < nextRow,
         NEW row \in Row,
         row.state = "RUNNING" => row.token \in 1..(nextToken - 1),
         rows' = [rows EXCEPT ![r] = row],
         UNCHANGED <<nextRow, nextToken>>
  PROVE  RowsOK'
<1>1. rows \in [RowId -> Row] /\ nextRow \in Nat /\ r \in Nat
  BY Basics DEF RowId
<1>2. rows' \in [RowId -> Row] BY <1>1
<1>3. \A p \in RowId : rows'[p] = IF p = r THEN row ELSE rows[p] BY <1>1
<1>4. \A p \in RowId : p >= nextRow => rows'[p] = NoRow
  BY <1>1, <1>3 DEF TypeOK, RowsOK
<1>5. \A p \in RowId : rows'[p].state = "RUNNING" => rows'[p].token \in 1..(nextToken - 1)
  BY <1>3 DEF TypeOK, RowsOK
<1> QED BY <1>2, <1>4, <1>5 DEF RowsOK

\* Some rows go.
LEMMA RemoveSome ==
  ASSUME TypeOK, NEW D, rows' = [r \in RowId |-> IF r \in D THEN NoRow ELSE rows[r]],
         UNCHANGED <<nextRow, nextToken>>
  PROVE  RowsOK'
<1>1. NoRow.state = "NONE" BY DEF NoRow
<1> QED BY <1>1, NoRowType DEF TypeOK, RowsOK

\* One attempt that holds a message ends.
LEMMA EndAttempt ==
  ASSUME TypeOK, NEW r \in RowId, rows[r].state = "RUNNING",
         NEW how \in Outcome \ {"none"},
         outcome' = [outcome EXCEPT ![rows[r].token] = how],
         UNCHANGED nextToken
  PROVE  OutcomeOK'
<1>1. rows[r].token \in 1..(nextToken - 1) BY DEF TypeOK, RowsOK
<1> QED BY <1>1, Basics, ConstantTypes DEF TypeOK, OutcomeOK, Token

\* All attempts that hold messages of D end.
LEMMA DropAttempts ==
  ASSUME TypeOK, NEW D \in SUBSET RowId, outcome' = Dropped(D), UNCHANGED nextToken
  PROVE  OutcomeOK'
<1>1. \A r \in D : rows[r].state = "RUNNING" => rows[r].token \in 1..(nextToken - 1)
  BY DEF TypeOK, RowsOK
<1> QED BY <1>1, Basics, ConstantTypes DEF TypeOK, OutcomeOK, Outcome, Dropped, Token

-----------------------------------------------------------------------------
(* What a step does to the attempts: every step is of one of four kinds.    *)

Running(r) == rows[r].state = "RUNNING"

\* No message is taken, given back or renewed.
Quiet ==
  /\ UNCHANGED <<nextToken, outcome>>
  /\ \A p \in RowId : rows'[p] = rows[p] \/ (~Running(p) /\ ~Running(p)')

\* One message goes to a new attempt.
Takes(r) ==
  /\ rows[r].state = "PENDING" /\ Running(r)'
  /\ rows'[r].token = nextToken
  /\ rows'[r].lease - rows'[r].start \in LeaseDuration
  /\ rows'[r].ext = 0 /\ rows'[r].renew = 0
  /\ \A p \in RowId \ {r} : rows'[p] = rows[p]
  /\ nextToken \in Token
  /\ nextToken' = nextToken + 1
  /\ outcome' = [outcome EXCEPT ![nextToken] = "held"]

\* One attempt's lease is renewed, within the policy.
Renews(r) ==
  /\ UNCHANGED <<nextToken, outcome>>
  /\ Running(r) /\ Running(r)'
  /\ rows'[r].token = rows[r].token /\ rows'[r].start = rows[r].start
  /\ rows'[r].lease - rows'[r].ext = rows[r].lease - rows[r].ext
  /\ rows'[r].ext >= rows[r].ext
  /\ rows'[r].ext = rows[r].ext \/ rows'[r].ext <= MaxExtension
  /\ \/ rows'[r].renew = rows[r].renew
     \/ MaxRenewals > 0 => rows'[r].renew <= MaxRenewals
  /\ \A p \in RowId \ {r} : rows'[p] = rows[p]

\* The messages of D lose their attempts, which end in the same way.
Leaves(D) ==
  /\ UNCHANGED nextToken
  /\ \A p \in D : ~Running(p)'
  /\ \A p \in RowId \ D : rows'[p] = rows[p]
  /\ \E how \in Outcome \ {"none", "held"} :
       outcome' = [t \in Token |->
         IF \E p \in D : Running(p) /\ rows[p].token = t THEN how ELSE outcome[t]]

StepKind == \/ Quiet
            \/ \E r \in RowId : Takes(r) \/ Renews(r)
            \/ \E D \in SUBSET RowId : Leaves(D)

\* A step that leaves messages and attempts alone is a quiet one.
LEMMA SameRowsQuiet ==
  ASSUME UNCHANGED <<rows, nextToken, outcome>> PROVE StepKind
BY DEF StepKind, Quiet

\* A message that nobody holds changes into one that nobody holds.
LEMMA ChangeWaiting ==
  ASSUME TypeOK, NEW r \in RowId, ~Running(r), NEW row \in Row, row.state # "RUNNING",
         rows' = [rows EXCEPT ![r] = row], UNCHANGED <<nextToken, outcome>>
  PROVE  StepKind
<1>1. \A p \in RowId : rows'[p] = IF p = r THEN row ELSE rows[p] BY Basics
<1>2. Quiet BY <1>1 DEF Quiet, Running
<1> QED BY <1>2 DEF StepKind

\* A held message is given back or ended, with its attempt.
LEMMA ChangeHeld ==
  ASSUME TypeOK, NEW r \in RowId, Running(r), NEW row \in Row, row.state # "RUNNING",
         NEW how \in Outcome \ {"none", "held"},
         rows' = [rows EXCEPT ![r] = row], UNCHANGED <<nextRow, nextToken>>,
         outcome' = [outcome EXCEPT ![rows[r].token] = how]
  PROVE  RowsOK' /\ OutcomeOK' /\ StepKind
<1>1. \A p \in RowId : rows'[p] = IF p = r THEN row ELSE rows[p] BY Basics
<1>2. RowsOK' BY ChangeOne, Basics DEF Running
<1>3. OutcomeOK' BY EndAttempt DEF Running
<1>4. rows[r].token \in Token
  BY Basics, ConstantTypes DEF TypeOK, RowsOK, Token, Running
<1>5. outcome' = [t \in Token |->
         IF \E p \in {r} : Running(p) /\ rows[p].token = t THEN how ELSE outcome[t]]
  BY <1>4, Basics
<1>6. Leaves({r}) BY <1>1, <1>5 DEF Leaves, Running
<1> QED BY <1>2, <1>3, <1>6 DEF StepKind

\* Messages are deleted, with the attempts that hold them.
LEMMA DeleteRows ==
  ASSUME TypeOK, NEW D \in SUBSET RowId,
         rows' = [r \in RowId |-> IF r \in D THEN NoRow ELSE rows[r]],
         UNCHANGED <<nextRow, nextToken>>,
         outcome' = Dropped(D)
  PROVE  RowsOK' /\ OutcomeOK' /\ StepKind
<1>1. RowsOK' BY RemoveSome
<1>2. OutcomeOK' BY DropAttempts
<1>3. NoRow.state = "NONE" BY DEF NoRow
<1>4. \A p \in D : ~Running(p)' BY <1>3 DEF Running
<1>5. \A p \in RowId \ D : rows'[p] = rows[p] OBVIOUS
<1>6. "dropped" \in Outcome \ {"none", "held"} BY DEF Outcome
<1>7. outcome' = [t \in Token |->
         IF \E p \in D : Running(p) /\ rows[p].token = t THEN "dropped" ELSE outcome[t]]
  BY DEF Dropped, Running
<1>8. Leaves(D) BY <1>4, <1>5, <1>6, <1>7 DEF Leaves
<1> QED BY <1>1, <1>2, <1>8 DEF StepKind

-----------------------------------------------------------------------------
(* Every action keeps the types and is a step of one of the four kinds.     *)

\* Time passes.
LEMMA TickStep == ASSUME TypeOK, Tick PROVE TypeOK' /\ StepKind
<1>1. TypeOK' BY ConstantTypes DEF TypeOK, Tick, RowsOK, OutcomeOK
<1>2. StepKind BY SameRowsQuiet DEF Tick
<1> QED BY <1>1, <1>2

\* CreateQueue changes only the configuration.
LEMMA CreateQueueStep ==
  ASSUME TypeOK, NEW q \in QueueName, CreateQueue(q) PROVE TypeOK' /\ StepKind
<1>1. queues' \in [QueueName -> Config \cup {NoQueue}]
  <2>1. PICK c \in Configs[q] :
          \/ queues' = [queues EXCEPT ![q] = c, ![c.dlq] = PlainConfig]
          \/ queues' = [queues EXCEPT ![q] = c]
    BY DEF CreateQueue
  <2>2. c \in Config BY ConstantTypes
  <2>3. PlainConfig \in Config BY DEF PlainConfig, Config, Retention
  <2> QED BY <2>1, <2>2, <2>3 DEF TypeOK
<1>2. StepKind BY SameRowsQuiet DEF CreateQueue
<1> QED BY <1>1, <1>2 DEF TypeOK, CreateQueue, RowsOK, OutcomeOK

\* DeleteQueue drops the attempts on the queue's messages.
LEMMA DeleteQueueStep ==
  ASSUME TypeOK, NEW q \in QueueName, DeleteQueue(q) PROVE TypeOK' /\ StepKind
<1> DEFINE D == {r \in RowId : rows[r].queue = q}
<1>1. rows' = [r \in RowId |-> IF r \in D THEN NoRow ELSE rows[r]]
      /\ outcome' = Dropped(D) /\ UNCHANGED <<nextRow, nextToken>>
  BY DEF DeleteQueue
<1>2. D \in SUBSET RowId OBVIOUS
<1> HIDE DEF D
<1>3. RowsOK' /\ OutcomeOK' /\ StepKind BY <1>1, <1>2, DeleteRows
<1>4. counts' \in [QueueName -> [State -> Int]] BY DEF DeleteQueue, TypeOK
<1>5. queues' \in [QueueName -> Config \cup {NoQueue}] BY DEF DeleteQueue, TypeOK
<1> QED BY <1>3, <1>4, <1>5 DEF TypeOK, DeleteQueue

\* A posted message: a row of the right type that no attempt holds.
LEMMA NewRowType ==
  ASSUME TypeOK, NEW q \in QueueName, NEW m \in MessageId, NEW max \in Int,
         NEW left \in Int, NEW sched \in Int, NEW now
  PROVE  /\ NewRow(q, m, max, left, sched, now) \in Row
         /\ NewRow(q, m, max, left, sched, now).state \in {"INVISIBLE", "PENDING"}
<1> DEFINE s == IF sched > now THEN "INVISIBLE" ELSE "PENDING"
<1>1. queues[q].policy \in BOOLEAN
  <2>1. queues[q] \in Config \cup {NoQueue} BY DEF TypeOK
  <2> QED BY <2>1 DEF Config, NoQueue, PlainConfig
<1>2. s \in {"INVISIBLE", "PENDING"} OBVIOUS
<1>3. NewRow(q, m, max, left, sched, now) =
        [NoRow EXCEPT !.state = s, !.queue = q, !.id = m, !.policy = queues[q].policy,
                      !.attempts = left, !.max = max, !.sched = sched]
  BY DEF NewRow
<1> HIDE DEF s
<1> DEFINE first == [NoRow EXCEPT !.state = s, !.queue = q, !.id = m,
                                 !.policy = queues[q].policy]
<1>4. first \in Row /\ first.state = s BY <1>1, <1>2, NoRowType DEF Row, State
<1>5. NewRow(q, m, max, left, sched, now) =
        [first EXCEPT !.attempts = left, !.max = max, !.sched = sched]
  BY <1>3
<1> HIDE DEF first
<1> QED BY <1>2, <1>4, <1>5 DEF Row

\* The inputs of a producer have the right types.
LEMMA InputTypes ==
  ASSUME TypeOK, NEW now \in NowMs, NEW max \in MaxAttemptsInput
  PROVE  /\ max \in Int /\ AttemptsLeft(max) \subseteq Int
         /\ ScheduledTime(now) \subseteq Int
<1>1. max \in Int /\ now \in Int BY ConstantTypes, NowInt
<1>2. AttemptsLeft(max) \subseteq Int BY <1>1 DEF AttemptsLeft
<1>3. \A d \in Delay : now + d \in Int BY <1>1, ConstantTypes
<1>4. ScheduledTime(now) \subseteq Int BY <1>3, NullInt, Zenon DEF ScheduledTime
<1> QED BY <1>1, <1>2, <1>4

\* A posted message takes the next primary key and is held by nobody.
LEMMA EnqueueMessageStep ==
  ASSUME TypeOK, NEW q \in QueueName, NEW m \in MessageId, EnqueueMessage(q, m)
  PROVE  TypeOK' /\ StepKind
<1>1. PICK now \in NowMs, max \in MaxAttemptsInput :
        \E left \in AttemptsLeft(max), sched \in ScheduledTime(now) :
          LET row == NewRow(q, m, max, left, sched, now) IN
            /\ rows' = [rows EXCEPT ![nextRow] = row]
            /\ InsertCounter(q, row.state)
  BY DEF EnqueueMessage
<1>2. PICK left \in AttemptsLeft(max), sched \in ScheduledTime(now) :
          LET row == NewRow(q, m, max, left, sched, now) IN
            /\ rows' = [rows EXCEPT ![nextRow] = row]
            /\ InsertCounter(q, row.state)
  BY <1>1
<1> DEFINE row == NewRow(q, m, max, left, sched, now)
<1>3. row \in Row /\ row.state # "RUNNING"
  BY NewRowType, InputTypes
<1>4. nextRow \in RowId /\ nextRow' = nextRow + 1 /\ nextRow' \in 1..(MaxRows + 1)
      /\ nextToken' = nextToken
  BY ConstantTypes DEF TypeOK, EnqueueMessage, RowId
<1>5. rows' = [rows EXCEPT ![nextRow] = row] /\ InsertCounter(q, row.state) BY <1>2
<1> HIDE DEF row
<1>6. RowsOK' BY <1>3, <1>4, <1>5, ConstantTypes DEF TypeOK, RowsOK, RowId
<1>7. counts' \in [QueueName -> [State -> Int]] BY <1>5, CountersType DEF TypeOK
<1>8. StepKind
  <2>1. rows[nextRow] = NoRow BY <1>4, Basics
  <2>2. ~Running(nextRow) BY <2>1, NoRowType DEF Running
  <2> QED BY <1>3, <1>4, <1>5, <2>2, ChangeWaiting DEF EnqueueMessage
<1> QED BY <1>4, <1>6, <1>7, <1>8 DEF TypeOK, EnqueueMessage, OutcomeOK

\* So do the messages of a bulk request.
LEMMA EnqueueMessagesBulkStep ==
  ASSUME TypeOK, NEW q \in QueueName, NEW m1 \in MessageId, NEW m2 \in MessageId,
         EnqueueMessagesBulk(q, m1, m2)
  PROVE  TypeOK' /\ StepKind
<1>1. PICK now \in NowMs, max \in MaxAttemptsInput : \E sched \in ScheduledTime(now) :
       LET row1 == NewRow(q, m1, max, max, NULL, now)
           row2 == NewRow(q, m2, max, max, sched, now) IN
         /\ rows' = [rows EXCEPT ![nextRow] = row1, ![nextRow + 1] = row2]
         /\ counts' = AddCount(AddCount(counts, q, row1.state, 1), q, row2.state, 1)
  BY DEF EnqueueMessagesBulk
<1>2. PICK sched \in ScheduledTime(now) :
       LET row1 == NewRow(q, m1, max, max, NULL, now)
           row2 == NewRow(q, m2, max, max, sched, now) IN
         /\ rows' = [rows EXCEPT ![nextRow] = row1, ![nextRow + 1] = row2]
         /\ counts' = AddCount(AddCount(counts, q, row1.state, 1), q, row2.state, 1)
  BY <1>1
<1> DEFINE row1 == NewRow(q, m1, max, max, NULL, now)
           row2 == NewRow(q, m2, max, max, sched, now)
<1>3. row1 \in Row /\ row1.state # "RUNNING" /\ row2 \in Row /\ row2.state # "RUNNING"
  BY NewRowType, InputTypes, NullInt
<1>4. /\ nextRow \in RowId /\ nextRow + 1 \in RowId /\ nextRow' = nextRow + 2
      /\ nextRow' \in 1..(MaxRows + 1) /\ nextToken' = nextToken
  BY ConstantTypes DEF TypeOK, EnqueueMessagesBulk, RowId
<1>5. /\ rows' = [rows EXCEPT ![nextRow] = row1, ![nextRow + 1] = row2]
      /\ counts' = AddCount(AddCount(counts, q, row1.state, 1), q, row2.state, 1)
  BY <1>2
<1> HIDE DEF row1, row2
<1>6. RowsOK'
  <2>1. rows \in [RowId -> Row] /\ nextRow \in Nat BY Basics
  <2>2. rows' \in [RowId -> Row] BY <1>3, <1>4, <1>5, <2>1
  <2>3. \A p \in RowId : rows'[p] = IF p = nextRow + 1 THEN row2
                                     ELSE IF p = nextRow THEN row1 ELSE rows[p]
    BY <1>4, <1>5, <2>1
  <2>4. \A p \in RowId : p >= nextRow' => rows'[p] = NoRow
    <3>1. \A p \in RowId : p >= nextRow => rows[p] = NoRow BY DEF TypeOK, RowsOK
    <3> QED BY <1>4, <2>1, <2>3, <3>1 DEF RowId
  <2>5. \A p \in RowId : rows'[p].state = "RUNNING" => rows'[p].token \in 1..(nextToken' - 1)
    BY <1>3, <1>4, <2>3 DEF TypeOK, RowsOK
  <2> QED BY <2>2, <2>4, <2>5 DEF RowsOK
<1>7. counts' \in [QueueName -> [State -> Int]]
  <2>1. 1 \in Int OBVIOUS
  <2> QED BY <1>5, <2>1, AddCountType DEF TypeOK
<1>8. StepKind
  <2>1. rows[nextRow] = NoRow /\ rows[nextRow + 1] = NoRow BY <1>4, Basics
  <2>2. \A p \in RowId : rows'[p] = IF p = nextRow + 1 THEN row2
                                     ELSE IF p = nextRow THEN row1 ELSE rows[p]
    BY <1>4, <1>5, Basics
  <2>3. Quiet BY <1>3, <1>4, <2>1, <2>2, NoRowType DEF Quiet, Running, EnqueueMessagesBulk
  <2> QED BY <2>3 DEF StepKind
<1> QED BY <1>4, <1>6, <1>7, <1>8 DEF TypeOK, EnqueueMessagesBulk, OutcomeOK

\* A claim takes one message.
LEMMA ClaimMessageStep ==
  ASSUME TypeOK, NEW q \in QueueName, ClaimMessage(q) PROVE TypeOK' /\ StepKind
<1>1. PICK now \in NowMs, duration \in LeaseDuration :
        \E r \in Claimable(q, now) : rows' = [rows EXCEPT ![r] = Claimed(@, now, duration)]
  BY DEF ClaimMessage
<1>2. PICK r \in Claimable(q, now) : rows' = [rows EXCEPT ![r] = Claimed(@, now, duration)]
  BY <1>1
<1> DEFINE row == Claimed(rows[r], now, duration)
<1>3. r \in RowId /\ rows[r].state = "PENDING" BY DEF Claimable
<1>4. /\ rows \in [RowId -> Row] /\ nextToken \in Int /\ now \in Int /\ duration \in Int
      /\ HeartbeatTimeout \in Int
  BY Basics, NowInt, ConstantTypes
<1>5. /\ row \in Row /\ row.state = "RUNNING" /\ row.token = nextToken
      /\ row.start = now /\ row.lease = now + duration /\ row.ext = 0 /\ row.renew = 0
  BY <1>3, <1>4, ClaimedType
<1>6. rows' = [rows EXCEPT ![r] = row] BY <1>2, <1>3, <1>4
<1>7. /\ nextToken' = nextToken + 1 /\ nextToken' \in 1..(MaxClaims + 1) /\ nextToken \in Token
      /\ outcome' = [outcome EXCEPT ![nextToken] = "held"] /\ nextRow' = nextRow
  BY ConstantTypes DEF ClaimMessage, TypeOK, Token
<1> HIDE DEF row
<1>8. \A p \in RowId : rows'[p] = IF p = r THEN row ELSE rows[p] BY <1>3, <1>4, <1>6
<1>9. RowsOK'
  <2>1. rows' \in [RowId -> Row] BY <1>3, <1>4, <1>5, <1>6
  <2>2. r < nextRow BY <1>3, Basics
  <2>3. \A p \in RowId : p >= nextRow' => rows'[p] = NoRow
    BY <1>7, <1>8, <2>2, Basics DEF TypeOK, RowsOK, RowId
  <2>4. \A p \in RowId : rows'[p].state = "RUNNING" => rows'[p].token \in 1..(nextToken' - 1)
    <3>1. \A p \in RowId : rows[p].state = "RUNNING" => rows[p].token \in 1..(nextToken - 1)
      BY DEF TypeOK, RowsOK
    <3>2. nextToken \in 1..nextToken BY <1>7 DEF Token
    <3> QED BY <1>4, <1>5, <1>7, <1>8, <3>1, <3>2
  <2> QED BY <2>1, <2>3, <2>4 DEF RowsOK
<1>10. OutcomeOK'
  BY <1>7, ConstantTypes DEF TypeOK, OutcomeOK, Outcome, Token
<1>11. counts' \in [QueueName -> [State -> Int]]
  BY CountersType, Basics DEF ClaimMessage
<1>12. TypeOK' BY <1>7, <1>9, <1>10, <1>11 DEF TypeOK, ClaimMessage
<1>13. row.lease - row.start \in LeaseDuration BY <1>4, <1>5
<1>14. Takes(r) BY <1>3, <1>5, <1>7, <1>8, <1>13 DEF Takes, Running
<1> QED BY <1>3, <1>12, <1>14 DEF StepKind

\* An ack ends the attempt that holds the message.
LEMMA AcknowledgeMessageStep ==
  ASSUME TypeOK, NEW q \in QueueName, NEW m, NEW t \in Token, AcknowledgeMessage(q, m, t)
  PROVE  TypeOK' /\ StepKind
<1> DEFINE done(r, now) ==
      [rows[r] EXCEPT !.state = "COMPLETED", !.deleted = DeletedAt(q, now),
                      !.token = NULL, !.start = NULL, !.lease = NULL]
<1>1. PICK now \in NowMs : \E r \in OwnedRows(q, m, t, now) :
       \/ rows' = [rows EXCEPT ![r] = NoRow] /\ RemoveCounter(q, "RUNNING")
       \/ /\ rows' = [rows EXCEPT ![r] = done(r, now)]
          /\ UpdateCounters(q, "RUNNING", "COMPLETED")
  BY DEF AcknowledgeMessage
<1>2. PICK r \in OwnedRows(q, m, t, now) :
       \/ rows' = [rows EXCEPT ![r] = NoRow] /\ RemoveCounter(q, "RUNNING")
       \/ /\ rows' = [rows EXCEPT ![r] = done(r, now)]
          /\ UpdateCounters(q, "RUNNING", "COMPLETED")
  BY <1>1
<1>3. r \in RowId /\ Running(r) /\ rows[r].token = t BY DEF OwnedRows, RowsOf, Running
<1>4. rows[r] \in Row /\ DeletedAt(q, now) \in Int BY <1>3, Basics, NowInt, DeletedAtInt
<1>5. done(r, now) \in Row /\ done(r, now).state # "RUNNING"
  BY <1>4, NullInt DEF Row, State
<1> HIDE DEF done
<1>6. PICK row \in Row : row.state # "RUNNING" /\ rows' = [rows EXCEPT ![r] = row]
  <2>1. NoRow.state # "RUNNING" BY DEF NoRow
  <2> QED BY <1>2, <1>5, <2>1, NoRowType
<1>7. counts' \in [QueueName -> [State -> Int]] BY <1>2, CountersType, Basics
<1>8. "acked" \in Outcome \ {"none", "held"} BY DEF Outcome
<1>9. RowsOK' /\ OutcomeOK' /\ StepKind
  BY <1>3, <1>6, <1>8, ChangeHeld DEF AcknowledgeMessage
<1> QED BY <1>7, <1>9 DEF TypeOK, AcknowledgeMessage

\* The end of a message that has used its last attempt.
LEMMA DeadLetterEffect ==
  ASSUME TypeOK, NEW r \in RowId, rows[r].queue \in QueueName, NEW left \in Int,
         NEW now \in NowMs, DeadLetter(r, left, now)
  PROVE  /\ counts' \in [QueueName -> [State -> Int]]
         /\ \E row \in Row : row.state # "RUNNING" /\ rows' = [rows EXCEPT ![r] = row]
<1> DEFINE q     == rows[r].queue
           dlq   == queues[q].dlq
           err   == [Cleared(rows[r]) EXCEPT !.state = "ERRORED", !.attempts = left]
           moved == [err EXCEPT !.queue = dlq]
           kept  == [err EXCEPT !.deleted = DeletedAt(q, now)]
<1>1. \/ /\ rows' = [rows EXCEPT ![r] = moved]
         /\ MoveCounter(q, "RUNNING", dlq, "ERRORED")
      \/ rows' = [rows EXCEPT ![r] = NoRow] /\ RemoveCounter(q, "RUNNING")
      \/ /\ rows' = [rows EXCEPT ![r] = kept]
         /\ UpdateCounters(q, "RUNNING", "ERRORED")
  BY DEF DeadLetter
<1>2. dlq \in QueueName \cup {""}
  <2>1. queues[q] \in Config \cup {NoQueue} BY DEF TypeOK
  <2> QED BY <2>1 DEF Config, NoQueue, PlainConfig
<1>3. rows[r] \in Row /\ DeletedAt(q, now) \in Int BY Basics, NowInt, DeletedAtInt
<1>4. moved \in Row /\ moved.state # "RUNNING" /\ kept \in Row /\ kept.state # "RUNNING"
  BY <1>2, <1>3, ErroredType
<1>5. NoRow.state # "RUNNING" BY DEF NoRow
<1> HIDE DEF moved, kept
<1> QED BY <1>1, <1>4, <1>5, NoRowType, CountersType, Basics

\* So does a nack, whether the message is retried or has to go.
LEMMA NackMessageStep ==
  ASSUME TypeOK, NEW q \in QueueName, NEW m, NEW t \in Token, NackMessage(q, m, t)
  PROVE  TypeOK' /\ StepKind
<1> DEFINE left(r) == AttemptsAfterNack(rows[r])
<1>1. PICK now \in NowMs : \E r \in OwnedRows(q, m, t, now) :
       \/ DeadLetter(r, left(r), now)
       \/ /\ rows' = [rows EXCEPT ![r] = Retried(@, left(r))]
          /\ UpdateCounters(q, "RUNNING", "PENDING")
  BY DEF NackMessage
<1>2. PICK r \in OwnedRows(q, m, t, now) :
       \/ DeadLetter(r, left(r), now)
       \/ /\ rows' = [rows EXCEPT ![r] = Retried(@, left(r))]
          /\ UpdateCounters(q, "RUNNING", "PENDING")
  BY <1>1
<1>3. r \in RowId /\ Running(r) /\ rows[r].token = t /\ rows[r].queue = q
  BY DEF OwnedRows, RowsOf, Running
<1>4. rows[r] \in Row /\ left(r) \in Int
  <2>1. rows[r] \in Row BY <1>3, Basics
  <2>2. rows[r].attempts \in Int BY <2>1 DEF Row
  <2> QED BY <2>1, <2>2 DEF AttemptsAfterNack
<1> HIDE DEF left
<1>5. /\ counts' \in [QueueName -> [State -> Int]]
      /\ \E row \in Row : row.state # "RUNNING" /\ rows' = [rows EXCEPT ![r] = row]
  <2>1. CASE DeadLetter(r, left(r), now) BY <1>3, <1>4, <2>1, DeadLetterEffect
  <2>2. CASE /\ rows' = [rows EXCEPT ![r] = Retried(@, left(r))]
             /\ UpdateCounters(q, "RUNNING", "PENDING")
    <3>1. Retried(rows[r], left(r)) \in Row /\ Retried(rows[r], left(r)).state # "RUNNING"
      BY <1>4, RetriedType
    <3>2. rows' = [rows EXCEPT ![r] = Retried(rows[r], left(r))] BY <2>2, <1>3, Basics
    <3> QED BY <2>2, <3>1, <3>2, CountersType, Basics
  <2> QED BY <1>2, <2>1, <2>2
<1>6. PICK row \in Row : row.state # "RUNNING" /\ rows' = [rows EXCEPT ![r] = row] BY <1>5
<1>7. "nacked" \in Outcome \ {"none", "held"} BY DEF Outcome
<1>8. RowsOK' /\ OutcomeOK' /\ StepKind
  BY <1>3, <1>6, <1>7, ChangeHeld DEF NackMessage
<1> QED BY <1>5, <1>8 DEF TypeOK, NackMessage

\* Only messages that nobody holds are cancelled.
LEMMA CancelMessageStep ==
  ASSUME TypeOK, NEW q \in QueueName, NEW m, CancelMessage(q, m)
  PROVE  TypeOK' /\ StepKind
<1> DEFINE gone(r, now) == [Released(rows[r]) EXCEPT !.state = "CANCELED",
                                                     !.deleted = DeletedAt(q, now)]
<1>1. PICK now \in NowMs, r \in RowsOf(q, m) :
        /\ rows[r].state \in {"INVISIBLE", "PENDING"}
        /\ \/ rows' = [rows EXCEPT ![r] = NoRow] /\ RemoveCounter(q, rows[r].state)
           \/ /\ rows' = [rows EXCEPT ![r] = gone(r, now)]
              /\ UpdateCounters(q, rows[r].state, "CANCELED")
  BY DEF CancelMessage
<1>2. r \in RowId /\ ~Running(r) /\ rows[r].state # "NONE" BY <1>1 DEF RowsOf, Running
<1>3. Released(rows[r]) \in Row /\ DeletedAt(q, now) \in Int
  BY <1>2, Basics, NowInt, DeletedAtInt, ReleasedType
<1>4. gone(r, now) \in Row /\ gone(r, now).state # "RUNNING"
  BY <1>3 DEF Row, State
<1> HIDE DEF gone
<1>5. PICK row \in Row : row.state # "RUNNING" /\ rows' = [rows EXCEPT ![r] = row]
  <2>1. NoRow.state # "RUNNING" BY DEF NoRow
  <2> QED BY <1>1, <1>4, <2>1, NoRowType
<1>6. counts' \in [QueueName -> [State -> Int]] BY <1>1, CountersType, Basics
<1>7. RowsOK' BY <1>2, <1>5, Basics, ChangeOne DEF CancelMessage
<1>8. StepKind BY <1>2, <1>5, ChangeWaiting DEF CancelMessage
<1> QED BY <1>6, <1>7, <1>8 DEF TypeOK, CancelMessage, OutcomeOK

\* An extension never exceeds what the policy has left.
LEMMA GrantedBound ==
  ASSUME NEW used \in Int, NEW requested \in Nat
  PROVE  /\ Granted(used, requested) \in Nat
         /\ Granted(used, requested) > 0 => used + Granted(used, requested) <= MaxExtension
BY ConstantTypes DEF Granted

\* A renewal changes only the lease columns.
LEMMA RenewedType ==
  ASSUME NEW row \in Row, NEW amount \in Int, NEW hb \in Int, NEW renewals \in Int
  PROVE  LET new == Renewed(row, amount, hb, renewals) IN
         /\ new \in Row
         /\ new.state = row.state /\ new.token = row.token /\ new.start = row.start
         /\ new.lease = row.lease + amount /\ new.ext = row.ext + amount
         /\ new.renew = renewals
<1> DEFINE lease == row.lease + amount
           ext   == row.ext + amount
<1>1. lease \in Int /\ ext \in Int
  <2>1. row.lease \in Int /\ row.ext \in Int BY DEF Row
  <2> QED BY <2>1
<1>2. Renewed(row, amount, hb, renewals) =
        [row EXCEPT !.lease = lease, !.ext = ext, !.hb = hb, !.renew = renewals]
  BY DEF Renewed
<1> HIDE DEF lease, ext
<1>3. Renewed(row, amount, hb, renewals) \in Row
  <2> DEFINE first == [row EXCEPT !.lease = lease, !.ext = ext]
  <2>1. first \in Row BY <1>1 DEF Row
  <2>2. Renewed(row, amount, hb, renewals) = [first EXCEPT !.hb = hb, !.renew = renewals]
    BY <1>2
  <2> HIDE DEF first
  <2> QED BY <2>1, <2>2 DEF Row
<1>4. LET new == Renewed(row, amount, hb, renewals) IN
         /\ new.state = row.state /\ new.token = row.token /\ new.start = row.start
         /\ new.lease = lease /\ new.ext = ext /\ new.renew = renewals
  BY <1>2 DEF Row
<1> QED BY <1>3, <1>4 DEF lease, ext

\* A renewal by amount, counted or not.
LEMMA RenewalStep ==
  ASSUME TypeOK, NEW r \in RowId, Running(r), NEW amount \in Nat, NEW hb \in Int,
         NEW renewals \in Int,
         amount > 0 => rows[r].ext + amount <= MaxExtension,
         renewals = rows[r].renew \/ (MaxRenewals > 0 => renewals <= MaxRenewals),
         rows' = [rows EXCEPT ![r] = Renewed(@, amount, hb, renewals)],
         UNCHANGED <<nextRow, nextToken, outcome>>
  PROVE  RowsOK' /\ StepKind
<1> DEFINE row == Renewed(rows[r], amount, hb, renewals)
<1>1. rows \in [RowId -> Row] /\ rows[r] \in Row BY Basics
<1>2. rows[r].lease \in Int /\ rows[r].ext \in Int BY <1>1 DEF Row
<1>3. /\ row \in Row
      /\ row.state = "RUNNING" /\ row.token = rows[r].token /\ row.start = rows[r].start
      /\ row.lease = rows[r].lease + amount /\ row.ext = rows[r].ext + amount
      /\ row.renew = renewals
  BY <1>1, RenewedType DEF Running
<1>4. rows' = [rows EXCEPT ![r] = row] BY <1>1
<1> HIDE DEF row
<1>5. row.ext >= rows[r].ext /\ (row.ext = rows[r].ext \/ row.ext <= MaxExtension)
      /\ row.lease - row.ext = rows[r].lease - rows[r].ext
  BY <1>2, <1>3
<1>6. rows[r].token \in 1..(nextToken - 1) BY DEF TypeOK, RowsOK, Running
<1>7. RowsOK' BY <1>3, <1>4, <1>6, Basics, ChangeOne DEF Running
<1>8. \A p \in RowId : rows'[p] = IF p = r THEN row ELSE rows[p] BY <1>1, <1>4
<1>9. Renews(r) BY <1>3, <1>5, <1>8 DEF Renews, Running
<1> QED BY <1>7, <1>9 DEF StepKind

\* An extension is a renewal within the policy.
LEMMA ExtendMessageLeaseStep ==
  ASSUME TypeOK, NEW q \in QueueName, NEW m, NEW t \in Token, ExtendMessageLease(q, m, t)
  PROVE  TypeOK' /\ StepKind
<1> DEFINE amount(r, requested) == Granted(rows[r].ext, requested)
           Extended(r, requested) ==
             /\ MaxRenewals > 0 => rows[r].renew < MaxRenewals
             /\ rows' = [rows EXCEPT ![r] =
                  Renewed(@, amount(r, requested), rows[r].hb, rows[r].renew + 1)]
<1>1. PICK now \in NowMs, requested \in Extension : \E r \in OwnedRows(q, m, t, now) :
        Extended(r, requested)
  BY DEF ExtendMessageLease
<1>2. PICK r \in OwnedRows(q, m, t, now) : Extended(r, requested)
  BY <1>1
<1>3. r \in RowId /\ Running(r) BY DEF OwnedRows, RowsOf, Running
<1>4. rows[r] \in Row BY <1>3, Basics
<1>5. rows[r].ext \in Int /\ rows[r].renew \in Int /\ rows[r].hb \in Int BY <1>4 DEF Row
<1>6. /\ amount(r, requested) \in Nat
      /\ amount(r, requested) > 0 => rows[r].ext + amount(r, requested) <= MaxExtension
  BY <1>5, GrantedBound, ConstantTypes
<1> HIDE DEF amount
<1>7. rows[r].renew + 1 \in Int /\ (MaxRenewals > 0 => rows[r].renew + 1 <= MaxRenewals)
  BY <1>2, <1>5, ConstantTypes
<1>8. RowsOK' /\ StepKind
  BY <1>2, <1>3, <1>5, <1>6, <1>7, RenewalStep DEF ExtendMessageLease
<1> QED BY <1>8 DEF TypeOK, ExtendMessageLease, OutcomeOK

\* So is a heartbeat, whether or not it renews the lease.
LEMMA HeartbeatMessageStep ==
  ASSUME TypeOK, NEW q \in QueueName, NEW m, NEW t \in Token, HeartbeatMessage(q, m, t)
  PROVE  TypeOK' /\ StepKind
<1> DEFINE hb(now) == IF HeartbeatTimeout > 0 THEN now + HeartbeatTimeout ELSE NULL
           amount(r) == Granted(rows[r].ext, ExtendStep)
           Beaten(r, now) ==
             \/ /\ MaxRenewals = 0 \/ rows[r].renew < MaxRenewals
                /\ rows' = [rows EXCEPT ![r] =
                     Renewed(@, amount(r), hb(now), rows[r].renew + 1)]
             \/ rows' = [rows EXCEPT ![r] = Renewed(@, 0, hb(now), rows[r].renew)]
<1>1. PICK now \in NowMs : \E r \in OwnedRows(q, m, t, now) : Beaten(r, now)
  BY DEF HeartbeatMessage
<1>2. PICK r \in OwnedRows(q, m, t, now) : Beaten(r, now)
  BY <1>1
<1>3. r \in RowId /\ Running(r) BY DEF OwnedRows, RowsOf, Running
<1>4. rows[r] \in Row BY <1>3, Basics
<1>5. rows[r].ext \in Int /\ rows[r].renew \in Int BY <1>4 DEF Row
<1>6. amount(r) \in Nat /\ (amount(r) > 0 => rows[r].ext + amount(r) <= MaxExtension)
  BY <1>5, GrantedBound, ConstantTypes
<1>7. hb(now) \in Int
  <2>1. now \in Int /\ now + HeartbeatTimeout \in Int BY NowInt, ConstantTypes
  <2> QED BY <2>1, NullInt, Zenon
<1> HIDE DEF amount, hb
<1>8. RowsOK' /\ StepKind
  <2>1. CASE /\ MaxRenewals = 0 \/ rows[r].renew < MaxRenewals
             /\ rows' = [rows EXCEPT ![r] =
                  Renewed(@, amount(r), hb(now), rows[r].renew + 1)]
    <3>1. rows[r].renew + 1 \in Int /\ (MaxRenewals > 0 => rows[r].renew + 1 <= MaxRenewals)
      BY <2>1, <1>5, ConstantTypes
    <3> QED BY <2>1, <3>1, <1>3, <1>6, <1>7, RenewalStep DEF HeartbeatMessage
  <2>2. CASE rows' = [rows EXCEPT ![r] = Renewed(@, 0, hb(now), rows[r].renew)]
    <3> DEFINE zero == 0
    <3>1. rows' = [rows EXCEPT ![r] = Renewed(@, zero, hb(now), rows[r].renew)] BY <2>2
    <3>2. zero \in Nat /\ (zero > 0 => rows[r].ext + zero <= MaxExtension) OBVIOUS
    <3> HIDE DEF zero
    <3> QED BY <3>1, <3>2, <1>3, <1>5, <1>7, RenewalStep DEF HeartbeatMessage
  <2> QED BY <1>2, <2>1, <2>2
<1> QED BY <1>8 DEF TypeOK, HeartbeatMessage, OutcomeOK

-----------------------------------------------------------------------------
(* DLQ calls.                                                               *)

\* The operation that a DLQ call starts has the right type.
LEMMA DlqOpType ==
  ASSUME NEW kind \in {"retry", "delete"}, NEW q \in QueueName, NEW m \in MessageId,
         NEW target \in QueueName \cup {""}, NEW left \in Int
  PROVE  [kind |-> kind, dlq |-> q, id |-> m, target |-> target, left |-> left] \in DlqOp
BY DEF DlqOp

\* The SELECT of a DLQ call changes no message.
LEMMA BeginDLQStep ==
  ASSUME TypeOK, NEW x \in Session, NEW op \in DlqOp, BeginDLQ(x, op)
  PROVE  TypeOK' /\ StepKind
<1>1. PICK r \in RowsOf(op.dlq, op.id) :
        dlqTx' = [dlqTx EXCEPT ![x] = [op EXCEPT !.left = rows[r].max]]
  BY DEF BeginDLQ
<1>2. rows[r].max \in Int
  <2>1. rows[r] \in Row BY Basics DEF RowsOf
  <2> QED BY <2>1 DEF Row
<1>3. [op EXCEPT !.left = rows[r].max] \in DlqOp BY <1>2 DEF DlqOp
<1>4. dlqTx' \in [Session -> DlqOp \cup {Idle}] BY <1>1, <1>3 DEF TypeOK
<1>5. StepKind BY SameRowsQuiet DEF BeginDLQ
<1> QED BY <1>4, <1>5 DEF TypeOK, BeginDLQ, RowsOK, OutcomeOK

\* The first half of RetryDLQMessage.
LEMMA BeginRetryDLQMessageStep ==
  ASSUME TypeOK, NEW x \in Session, NEW q \in QueueName, NEW m \in MessageId,
         NEW target \in QueueName, BeginRetryDLQMessage(x, q, m, target)
  PROVE  TypeOK' /\ StepKind
<1> DEFINE op == [kind |-> "retry", dlq |-> q, id |-> m, target |-> target, left |-> 0]
<1>1. op \in DlqOp BY DlqOpType, NullInt
<1>2. BeginDLQ(x, op) BY DEF BeginRetryDLQMessage
<1> HIDE DEF op
<1> QED BY <1>1, <1>2, BeginDLQStep

\* The first half of DeleteDLQMessage.
LEMMA BeginDeleteDLQMessageStep ==
  ASSUME TypeOK, NEW x \in Session, NEW q \in QueueName, NEW m \in MessageId,
         BeginDeleteDLQMessage(x, q, m)
  PROVE  TypeOK' /\ StepKind
<1> DEFINE op == [kind |-> "delete", dlq |-> q, id |-> m, target |-> "", left |-> 0]
<1>1. op \in DlqOp BY DlqOpType, NullInt
<1>2. BeginDLQ(x, op) BY DEF BeginDeleteDLQMessage
<1> HIDE DEF op
<1> QED BY <1>1, <1>2, BeginDLQStep

\* A stored row changes into one that nobody holds; its attempt, if any, ends.
LEMMA ChangeAny ==
  ASSUME TypeOK, NEW r \in RowId, r < nextRow, NEW row \in Row,
         row.state # "RUNNING", rows' = [rows EXCEPT ![r] = row],
         UNCHANGED <<nextRow, nextToken>>, outcome' = Dropped({r})
  PROVE  RowsOK' /\ OutcomeOK' /\ StepKind
<1>1. \A p \in RowId : rows'[p] = IF p = r THEN row ELSE rows[p] BY Basics
<1>2. RowsOK' BY ChangeOne
<1>3. {r} \in SUBSET RowId OBVIOUS
<1>4. OutcomeOK' BY <1>3, DropAttempts
<1>5. "dropped" \in Outcome \ {"none", "held"} BY DEF Outcome
<1>6. outcome' = [t \in Token |->
         IF \E p \in {r} : Running(p) /\ rows[p].token = t THEN "dropped" ELSE outcome[t]]
  BY DEF Dropped, Running
<1>7. Leaves({r}) BY <1>1, <1>5, <1>6 DEF Leaves, Running
<1> QED BY <1>2, <1>3, <1>4, <1>7 DEF StepKind

\* A requeued message is a row that nobody holds.
LEMMA RequeuedType ==
  ASSUME NEW row \in Row, NEW op \in DlqOp
  PROVE  Requeued(row, op) \in Row /\ Requeued(row, op).state # "RUNNING"
<1> DEFINE zero == 0
<1>1. zero \in Int OBVIOUS
<1> HIDE DEF zero
<1>2. op.left \in Int /\ op.target \in QueueName \cup {""} BY DEF DlqOp
<1>3. Requeued(row, op) = [row EXCEPT !.queue = op.target, !.state = "PENDING",
                                      !.attempts = op.left, !.runs = zero]
  BY DEF Requeued, zero
<1> QED BY <1>1, <1>2, <1>3 DEF Row, State

\* A session's row, if it is still there, has been given out.
LEMMA StoredRow ==
  ASSUME TypeOK, NEW op \in DlqOp, NEW r \in RowsOf(op.dlq, op.id)
  PROVE  r \in RowId /\ r < nextRow /\ rows[r] \in Row
<1>1. r \in RowId /\ rows[r].queue = op.dlq BY DEF RowsOf
<1>2. op.dlq # "" BY ConstantsAssumption DEF DlqOp
<1>3. rows[r] # NoRow BY <1>1, <1>2, NoRowType
<1>4. ~(r >= nextRow) /\ r \in Int /\ nextRow \in Int BY <1>1, <1>3, Basics DEF RowId
<1> QED BY <1>1, <1>4, Basics


\* A requeue changes the row that has the id now, if there is one.
LEMMA RetryDLQMessageStep ==
  ASSUME TypeOK, NEW x \in Session, RetryDLQMessage(x)
  PROVE  TypeOK' /\ StepKind
<1> DEFINE op == dlqTx[x]
<1>1. op.kind = "retry" BY DEF RetryDLQMessage
<1>2. op \in DlqOp
  <2>1. op \in DlqOp \cup {Idle} BY DEF TypeOK
  <2>2. Idle.kind # "retry" BY DEF Idle
  <2> QED BY <1>1, <2>1, <2>2
<1>3. \/ UNCHANGED <<rows, outcome>>
      \/ \E r \in RowsOf(op.dlq, op.id) :
           rows' = [rows EXCEPT ![r] = Requeued(@, op)] /\ outcome' = Dropped({r})
  BY DEF RetryDLQMessage
<1>4. counts' = counts \/ MoveCounter(op.dlq, "ERRORED", op.target, "PENDING")
  BY DEF RetryDLQMessage
<1>5. counts' \in [QueueName -> [State -> Int]] BY <1>4, CountersType, Basics
<1>6. dlqTx' \in [Session -> DlqOp \cup {Idle}] BY DEF RetryDLQMessage, TypeOK
<1>7. UNCHANGED <<clock, queues, nextRow, nextToken, expired, due>> BY DEF RetryDLQMessage
<1> HIDE DEF op
<1>8. RowsOK' /\ OutcomeOK' /\ StepKind
  <2>1. CASE UNCHANGED <<rows, outcome>>
    BY <1>7, <2>1, SameRowsQuiet DEF TypeOK, RowsOK, OutcomeOK
  <2>2. ASSUME NEW r \in RowsOf(op.dlq, op.id),
               rows' = [rows EXCEPT ![r] = Requeued(@, op)], outcome' = Dropped({r})
        PROVE  RowsOK' /\ OutcomeOK' /\ StepKind
    <3>1. r \in RowId /\ r < nextRow /\ rows[r] \in Row BY <1>2, StoredRow
    <3>2. Requeued(rows[r], op) \in Row /\ Requeued(rows[r], op).state # "RUNNING"
      BY <1>2, <3>1, RequeuedType
    <3>3. rows' = [rows EXCEPT ![r] = Requeued(rows[r], op)] BY <2>2, <3>1, Basics
    <3> QED BY <1>7, <2>2, <3>1, <3>2, <3>3, ChangeAny
  <2> QED BY <1>3, <2>1, <2>2
<1> QED BY <1>5, <1>6, <1>7, <1>8 DEF TypeOK

\* A deletion drops whatever holds the row that has the id now.
LEMMA DeleteDLQMessageStep ==
  ASSUME TypeOK, NEW x \in Session, DeleteDLQMessage(x)
  PROVE  TypeOK' /\ StepKind
<1> DEFINE D == RowsOf(dlqTx[x].dlq, dlqTx[x].id)
<1>1. D \in SUBSET RowId BY DEF RowsOf
<1>2. \/ UNCHANGED <<rows, counts, outcome>>
      \/ /\ rows' = [r \in RowId |-> IF r \in D THEN NoRow ELSE rows[r]]
         /\ RemoveCounter(dlqTx[x].dlq, "ERRORED")
         /\ outcome' = Dropped(D)
  BY DEF DeleteDLQMessage
<1>3. counts' \in [QueueName -> [State -> Int]] BY <1>2, CountersType, Basics
<1>4. dlqTx' \in [Session -> DlqOp \cup {Idle}] BY DEF DeleteDLQMessage, TypeOK
<1>5. UNCHANGED <<clock, queues, nextRow, nextToken, expired, due>> BY DEF DeleteDLQMessage
<1> HIDE DEF D
<1>6. RowsOK' /\ OutcomeOK' /\ StepKind
  <2>1. CASE UNCHANGED <<rows, counts, outcome>>
    BY <1>5, <2>1, SameRowsQuiet DEF TypeOK, RowsOK, OutcomeOK
  <2>2. CASE /\ rows' = [r \in RowId |-> IF r \in D THEN NoRow ELSE rows[r]]
             /\ RemoveCounter(dlqTx[x].dlq, "ERRORED")
             /\ outcome' = Dropped(D)
    BY <1>1, <1>5, <2>2, DeleteRows
  <2> QED BY <1>2, <2>1, <2>2
<1> QED BY <1>3, <1>4, <1>5, <1>6 DEF TypeOK

\* A purge deletes messages that nobody holds.
LEMMA PurgeDLQBatchStep ==
  ASSUME TypeOK, NEW q \in QueueName, PurgeDLQBatch(q)
  PROVE  TypeOK' /\ StepKind
<1>1. PICK D \in SUBSET {r \in RowId : rows[r].queue = q /\ rows[r].state = "ERRORED"} :
        /\ rows' = [r \in RowId |-> IF r \in D THEN NoRow ELSE rows[r]]
        /\ RemoveCounters(D)
  BY DEF PurgeDLQBatch
<1>2. D \in SUBSET RowId /\ \A r \in D : rows[r].state # "RUNNING" OBVIOUS
<1>3. outcome' = Dropped(D)
  BY <1>2, Basics DEF PurgeDLQBatch, Dropped
<1>4. counts' \in [QueueName -> [State -> Int]] BY <1>1, <1>2, RemoveCountersType, Basics
<1>5. RowsOK' /\ OutcomeOK' /\ StepKind BY <1>1, <1>2, <1>3, DeleteRows DEF PurgeDLQBatch
<1> QED BY <1>4, <1>5 DEF TypeOK, PurgeDLQBatch

-----------------------------------------------------------------------------
(* Background services.                                                     *)

\* The scheduler reads a batch.
LEMMA CollectScheduledMessagesStep ==
  ASSUME TypeOK, NEW n \in Replica, CollectScheduledMessages(n)
  PROVE  TypeOK' /\ StepKind
<1>1. PICK now \in NowMs : \E D \in Batches(DueBy(now)) : due' = [due EXCEPT ![n] = D \X {now}]
  BY DEF CollectScheduledMessages
<1>2. PICK D \in Batches(DueBy(now)) : due' = [due EXCEPT ![n] = D \X {now}] BY <1>1
<1>3. D \subseteq RowId BY DEF Batches, DueBy
<1>4. now \in Nat BY NowInt
<1>5. D \X {now} \in SUBSET (RowId \X Nat) BY <1>3, <1>4
<1>6. due' \in [Replica -> SUBSET (RowId \X Nat)] BY <1>2, <1>5 DEF TypeOK
<1>7. StepKind BY SameRowsQuiet DEF CollectScheduledMessages
<1> QED BY <1>6, <1>7 DEF TypeOK, CollectScheduledMessages, RowsOK, OutcomeOK

\* The scheduler activates a message that is still INVISIBLE, or none.
LEMMA ActivateMessageStep ==
  ASSUME TypeOK, NEW n \in Replica, NEW r \in RowId, NEW now, ActivateMessage(n, r, now)
  PROVE  TypeOK' /\ StepKind
<1> DEFINE row == [rows[r] EXCEPT !.state = "PENDING"]
<1>1. UNCHANGED <<clock, queues, nextRow, nextToken, dlqTx, expired, outcome>>
  BY DEF ActivateMessage
<1>2. due' \in [Replica -> SUBSET (RowId \X Nat)] BY DEF ActivateMessage, TypeOK
<1>3. rows[r] \in Row BY Basics
<1>4. row \in Row /\ row.state = "PENDING" BY <1>3 DEF Row, State
<1>5. \/ UNCHANGED <<rows, counts>>
      \/ /\ rows[r].state = "INVISIBLE"
         /\ rows' = [rows EXCEPT ![r] = row]
         /\ UpdateCounters(rows[r].queue, "INVISIBLE", "PENDING")
  BY Basics DEF ActivateMessage
<1>6. counts' \in [QueueName -> [State -> Int]] BY <1>5, CountersType, Basics
<1> HIDE DEF row
<1>7. RowsOK' /\ StepKind
  <2>1. CASE UNCHANGED <<rows, counts>> BY <1>1, <2>1, SameRowsQuiet DEF TypeOK, RowsOK
  <2>2. CASE rows[r].state = "INVISIBLE" /\ rows' = [rows EXCEPT ![r] = row]
    <3>1. ~Running(r) /\ r < nextRow BY <2>2, Basics DEF Running
    <3>2. RowsOK' BY <1>1, <1>4, <2>2, <3>1, ChangeOne
    <3>3. StepKind BY <1>1, <1>4, <2>2, <3>1, ChangeWaiting
    <3> QED BY <3>2, <3>3
  <2> QED BY <1>5, <2>1, <2>2
<1> QED BY <1>1, <1>2, <1>6, <1>7 DEF TypeOK, OutcomeOK

\* The reclaimer reads a batch.
LEMMA FindExpiredMessagesStep ==
  ASSUME TypeOK, NEW n \in Replica, NEW q \in QueueName, FindExpiredMessages(n, q)
  PROVE  TypeOK' /\ StepKind
<1> DEFINE item(r) == [queue |-> q, id |-> rows[r].id, token |-> rows[r].token]
<1>1. PICK now \in NowMs : \E D \in Batches(ExpiredRows(q, now)) :
        expired' = [expired EXCEPT ![n] = {item(r) : r \in D}]
  BY DEF FindExpiredMessages
<1>2. PICK D \in Batches(ExpiredRows(q, now)) :
        expired' = [expired EXCEPT ![n] = {item(r) : r \in D}]
  BY <1>1
<1>3. D \subseteq RowId BY DEF Batches, ExpiredRows
<1>4. \A r \in RowId : item(r) \in ExpiredItem
  <2>1. \A r \in RowId : rows[r].id \in MessageId \cup {""} /\ rows[r].token \in Int
    BY Basics DEF Row
  <2> QED BY <2>1 DEF ExpiredItem
<1> HIDE DEF item
<1>5. expired' \in [Replica -> SUBSET ExpiredItem] BY <1>2, <1>3, <1>4 DEF TypeOK
<1>6. StepKind BY SameRowsQuiet DEF FindExpiredMessages
<1> QED BY <1>5, <1>6 DEF TypeOK, FindExpiredMessages, RowsOK, OutcomeOK

\* The reclaimer ends the attempt that it looked for, or none.
LEMMA ReclaimExpiredMessageStep ==
  ASSUME TypeOK, NEW n \in Replica, NEW item \in expired[n], ReclaimExpiredMessage(n, item)
  PROVE  TypeOK' /\ StepKind
<1> DEFINE left(r) == IF rows[r].max = -1 THEN -1 ELSE rows[r].attempts - 1
           Again(r) == /\ rows' = [rows EXCEPT ![r] = Retried(@, left(r))]
                       /\ UpdateCounters(item.queue, "RUNNING", "PENDING")
           Ended == outcome' = [outcome EXCEPT ![item.token] = "reclaimed"]
<1>1. PICK now \in NowMs :
        \/ UNCHANGED <<rows, counts, outcome>>
        \/ \E r \in StillExpired(item, now) :
             Ended /\ (Again(r) \/ DeadLetter(r, left(r), now))
  BY DEF ReclaimExpiredMessage
<1>2. UNCHANGED <<clock, queues, nextRow, nextToken, dlqTx, due>> BY DEF ReclaimExpiredMessage
<1>3. item \in ExpiredItem /\ expired' \in [Replica -> SUBSET ExpiredItem]
  BY DEF ReclaimExpiredMessage, TypeOK
<1>4. CASE UNCHANGED <<rows, counts, outcome>>
  BY <1>2, <1>3, <1>4, SameRowsQuiet DEF TypeOK, RowsOK, OutcomeOK
<1>5. ASSUME NEW r \in StillExpired(item, now),
             Ended, Again(r) \/ DeadLetter(r, left(r), now)
      PROVE  TypeOK' /\ StepKind
  <2>1. r \in RowId /\ Running(r) /\ rows[r].token = item.token /\ rows[r].queue = item.queue
    BY DEF StillExpired, RowsOf, IsExpired, Running
  <2>2. rows[r] \in Row /\ left(r) \in Int
    <3>1. rows[r] \in Row BY <2>1, Basics
    <3>2. rows[r].attempts \in Int BY <3>1 DEF Row
    <3> QED BY <3>1, <3>2
  <2>3. item.queue \in QueueName BY <1>3 DEF ExpiredItem
  <2> HIDE DEF left
  <2>4. /\ counts' \in [QueueName -> [State -> Int]]
        /\ \E row \in Row : row.state # "RUNNING" /\ rows' = [rows EXCEPT ![r] = row]
    <3>1. CASE DeadLetter(r, left(r), now) BY <2>1, <2>2, <2>3, <3>1, DeadLetterEffect
    <3>2. CASE Again(r)
      <4>1. Retried(rows[r], left(r)) \in Row /\ Retried(rows[r], left(r)).state # "RUNNING"
        BY <2>2, RetriedType
      <4>2. rows' = [rows EXCEPT ![r] = Retried(rows[r], left(r))] BY <3>2, <2>1, Basics
      <4> QED BY <3>2, <4>1, <4>2, CountersType, Basics
    <3> QED BY <1>5, <3>1, <3>2
  <2>5. PICK row \in Row : row.state # "RUNNING" /\ rows' = [rows EXCEPT ![r] = row] BY <2>4
  <2>6. "reclaimed" \in Outcome \ {"none", "held"} BY DEF Outcome
  <2>7. RowsOK' /\ OutcomeOK' /\ StepKind
    BY <1>2, <1>5, <2>1, <2>5, <2>6, ChangeHeld
  <2> QED BY <1>2, <1>3, <2>4, <2>7 DEF TypeOK
<1> QED BY <1>1, <1>4, <1>5

\* The cleanup service deletes rows with the attempts that hold them.
LEMMA CleanupExpiredBatchStep ==
  ASSUME TypeOK, CleanupExpiredBatch PROVE TypeOK' /\ StepKind
<1>1. PICK now \in NowMs : \E D \in SUBSET Outdated(now) :
        /\ rows' = [r \in RowId |-> IF r \in D THEN NoRow ELSE rows[r]]
        /\ RemoveCounters(D)
        /\ outcome' = Dropped(D)
  BY DEF CleanupExpiredBatch
<1>2. PICK D \in SUBSET Outdated(now) :
        /\ rows' = [r \in RowId |-> IF r \in D THEN NoRow ELSE rows[r]]
        /\ RemoveCounters(D)
        /\ outcome' = Dropped(D)
  BY <1>1
<1>3. D \in SUBSET RowId BY DEF Outdated
<1>4. counts' \in [QueueName -> [State -> Int]] BY <1>2, <1>3, RemoveCountersType, Basics
<1>5. RowsOK' /\ OutcomeOK' /\ StepKind BY <1>2, <1>3, DeleteRows DEF CleanupExpiredBatch
<1> QED BY <1>4, <1>5 DEF TypeOK, CleanupExpiredBatch

-----------------------------------------------------------------------------
\* Every step, and stuttering, keeps the types and is of one of the four kinds.
LEMMA EveryStep ==
  ASSUME TypeOK, [Next]_vars PROVE TypeOK' /\ StepKind
<1>1. CASE UNCHANGED vars
  BY <1>1, SameRowsQuiet DEF TypeOK, RowsOK, OutcomeOK, vars
<1>2. CASE Tick BY <1>2, TickStep
<1>3. CASE Admin BY <1>3, CreateQueueStep, DeleteQueueStep DEF Admin
<1>4. CASE Producer
  BY <1>4, EnqueueMessageStep, EnqueueMessagesBulkStep, CancelMessageStep DEF Producer
<1>5. CASE Consumer
  BY <1>5, ClaimMessageStep, AcknowledgeMessageStep, NackMessageStep,
     ExtendMessageLeaseStep, HeartbeatMessageStep DEF Consumer
<1>6. CASE DLQCalls
  BY <1>6, PurgeDLQBatchStep, BeginDeleteDLQMessageStep, BeginRetryDLQMessageStep,
     RetryDLQMessageStep, DeleteDLQMessageStep DEF DLQCalls
<1>7. ASSUME NEW n \in Replica, Scheduler(n) PROVE TypeOK' /\ StepKind
  <2>1. \A item \in due[n] : item[1] \in RowId BY DEF TypeOK
  <2> QED BY <1>7, <2>1, CollectScheduledMessagesStep, ActivateMessageStep DEF Scheduler
<1>8. ASSUME NEW n \in Replica, Reclaimer(n) PROVE TypeOK' /\ StepKind
  BY <1>8, FindExpiredMessagesStep, ReclaimExpiredMessageStep DEF Reclaimer
<1>9. CASE CleanupExpiredBatch BY <1>9, CleanupExpiredBatchStep
<1> QED BY <1>1, <1>2, <1>3, <1>4, <1>5, <1>6, <1>7, <1>8, <1>9 DEF Next

\* The empty database is well typed.
LEMMA InitType == Init => TypeOK
<1> SUFFICES ASSUME Init PROVE TypeOK OBVIOUS
<1>1. clock \in 0..MaxTime /\ nextRow \in 1..(MaxRows + 1) /\ nextToken \in 1..(MaxClaims + 1)
  BY ConstantTypes DEF Init
<1>2. RowsOK
  <2>1. NoRow \in Row /\ NoRow.state # "RUNNING" BY NoRowType
  <2> QED BY <2>1 DEF Init, RowsOK
<1>3. OutcomeOK BY ConstantTypes DEF Init, OutcomeOK, Outcome, Token
<1>4. counts \in [QueueName -> [State -> Int]] BY DEF Init
<1>5. /\ queues \in [QueueName -> Config \cup {NoQueue}]
      /\ dlqTx \in [Session -> DlqOp \cup {Idle}]
      /\ expired \in [Replica -> SUBSET ExpiredItem]
      /\ due \in [Replica -> SUBSET (RowId \X Nat)]
  BY DEF Init
<1> QED BY <1>1, <1>2, <1>3, <1>4, <1>5 DEF TypeOK

\* The tables, batches and histories keep their types: every primary key and
\* every attempt id in use has been given out, whatever the calls, the
\* replicas' background services and a stale DLQ session do.
THEOREM TypeCorrect == Spec => []TypeOK
<1>1. TypeOK /\ [Next]_vars => TypeOK' BY EveryStep
<1> QED BY <1>1, InitType, PTL DEF Spec

-----------------------------------------------------------------------------
(* Leases.                                                                  *)

\* Each kind of step keeps every lease within its policy.
LEMMA LeaseStep ==
  ASSUME TypeOK, TypeOK', LeaseWithinPolicy, StepKind PROVE LeaseWithinPolicy'
<1> DEFINE Within(row) ==
      row.state = "RUNNING" =>
        /\ row.lease - row.start - row.ext \in LeaseDuration
        /\ row.ext \in 0..MaxExtension
        /\ MaxRenewals > 0 => row.renew <= MaxRenewals
<1>1. SUFFICES ASSUME NEW r \in RowId PROVE Within(rows'[r])
  BY DEF LeaseWithinPolicy
<1>2. Within(rows[r]) BY DEF LeaseWithinPolicy
<1>3. CASE rows'[r] = rows[r] \/ rows'[r].state # "RUNNING" BY <1>2, <1>3
<1>4. CASE Takes(r)
  <2>1. rows'[r].ext = 0 /\ rows'[r].renew = 0
        /\ rows'[r].lease - rows'[r].start \in LeaseDuration
    BY <1>4 DEF Takes
  <2>2. rows'[r].lease - rows'[r].start \in Nat BY <2>1, ConstantTypes
  <2> QED BY <2>1, <2>2, ConstantTypes
<1>5. CASE Renews(r)
  <2>1. rows[r] \in Row /\ rows'[r] \in Row BY DEF TypeOK, RowsOK
  <2>2. rows[r].lease \in Int /\ rows[r].ext \in Int /\ rows[r].start \in Int BY <2>1 DEF Row
  <2>3. rows'[r].lease \in Int /\ rows'[r].ext \in Int BY <2>1 DEF Row
  <2>4. /\ rows[r].lease - rows[r].start - rows[r].ext \in LeaseDuration
        /\ rows[r].ext \in 0..MaxExtension
        /\ MaxRenewals > 0 => rows[r].renew <= MaxRenewals
    BY <1>2, <1>5 DEF Renews, Running
  <2>5. rows'[r].lease - rows'[r].start - rows'[r].ext = rows[r].lease - rows[r].start - rows[r].ext
    BY <1>5, <2>2, <2>3 DEF Renews
  <2>6. rows'[r].ext \in 0..MaxExtension BY <1>5, <2>2, <2>3, <2>4, ConstantTypes DEF Renews
  <2>7. MaxRenewals > 0 => rows'[r].renew <= MaxRenewals BY <1>5, <2>4 DEF Renews
  <2> QED BY <2>4, <2>5, <2>6, <2>7
<1>6. Takes(r) \/ Renews(r) \/ rows'[r] = rows[r] \/ rows'[r].state # "RUNNING"
  BY DEF StepKind, Quiet, Takes, Renews, Leaves, Running
<1> QED BY <1>3, <1>4, <1>5, <1>6

\* No lease outlives its policy, whatever sequence of claims, heartbeats,
\* renewals and reclaims a message goes through (postgres/messages.go,
\* sql/lease.go).
THEOREM LeaseBound == Spec => []LeaseWithinPolicy
<1>1. Init => LeaseWithinPolicy
  <2>1. NoRow.state # "RUNNING" BY NoRowType
  <2> QED BY <2>1 DEF Init, LeaseWithinPolicy
<1>2. TypeOK /\ LeaseWithinPolicy /\ [Next]_vars => LeaseWithinPolicy'
  BY EveryStep, LeaseStep
<1> QED BY <1>1, <1>2, TypeCorrect, PTL DEF Spec

-----------------------------------------------------------------------------
(* Owners.                                                                  *)

\* The inductive form of OneOwner: an injection between RUNNING messages and
\* the attempts that have not ended.
OwnerInv ==
  /\ \A r \in RowId : Running(r) => rows[r].token \in Token /\ outcome[rows[r].token] = "held"
  /\ \A r, p \in RowId : Running(r) /\ Running(p) /\ rows[r].token = rows[p].token => r = p
  /\ \A t \in Token : outcome[t] = "held" => \E r \in RowId : Running(r) /\ rows[r].token = t

\* Each kind of step keeps the correspondence of messages and attempts.
LEMMA OwnerStep ==
  ASSUME TypeOK, OwnerInv, StepKind PROVE OwnerInv'
<1>1. outcome \in [Token -> Outcome] /\ nextToken \in Nat
      /\ \A r \in RowId : Running(r) => rows[r].token \in 1..(nextToken - 1)
  BY Basics DEF TypeOK, RowsOK, Running
<1>2. CASE Quiet
  <2>1. \A r \in RowId : Running(r)' <=> Running(r) BY <1>2 DEF Quiet, Running
  <2>2. \A r \in RowId : Running(r) => rows'[r] = rows[r] BY <1>2 DEF Quiet
  <2>3. outcome' = outcome BY <1>2 DEF Quiet
  <2> QED BY <2>1, <2>2, <2>3 DEF OwnerInv
<1>3. ASSUME NEW r \in RowId, Renews(r) PROVE OwnerInv'
  <2>1. \A p \in RowId : (Running(p)' <=> Running(p)) /\ rows'[p].token = rows[p].token
    BY <1>3 DEF Renews, Running
  <2>2. outcome' = outcome BY <1>3 DEF Renews
  <2> QED BY <2>1, <2>2 DEF OwnerInv
<1>4. ASSUME NEW r \in RowId, Takes(r) PROVE OwnerInv'
  <2>1. ~Running(r) /\ Running(r)' /\ rows'[r].token = nextToken /\ nextToken \in Token
    BY <1>4 DEF Takes, Running
  <2>2. \A p \in RowId \ {r} : (Running(p)' <=> Running(p)) /\ rows'[p].token = rows[p].token
    BY <1>4 DEF Takes, Running
  <2>3. \A t \in Token : outcome'[t] = IF t = nextToken THEN "held" ELSE outcome[t]
    BY <1>1, <1>4 DEF Takes
  <2>4. \A p \in RowId : Running(p) => rows[p].token # nextToken BY <1>1
  <2>5. \A p \in RowId : Running(p)' =>
          rows'[p].token \in Token /\ outcome'[rows'[p].token] = "held"
    BY <2>1, <2>2, <2>3, <2>4 DEF OwnerInv
  <2>6. \A p1, p2 \in RowId : Running(p1)' /\ Running(p2)' /\ rows'[p1].token = rows'[p2].token
          => p1 = p2
    BY <2>1, <2>2, <2>4 DEF OwnerInv
  <2>7. \A t \in Token : outcome'[t] = "held" =>
          \E p \in RowId : Running(p)' /\ rows'[p].token = t
    <3>1. SUFFICES ASSUME NEW t \in Token, outcome'[t] = "held"
                   PROVE  \E p \in RowId : Running(p)' /\ rows'[p].token = t
      OBVIOUS
    <3>2. CASE t = nextToken BY <2>1, <3>2
    <3>3. CASE t # nextToken
      <4>1. PICK p \in RowId : Running(p) /\ rows[p].token = t
        BY <2>3, <3>1, <3>3 DEF OwnerInv
      <4> QED BY <2>1, <2>2, <4>1
    <3> QED BY <3>2, <3>3
  <2> QED BY <2>5, <2>6, <2>7 DEF OwnerInv
<1>5. ASSUME NEW D \in SUBSET RowId, Leaves(D) PROVE OwnerInv'
  <2>1. \A p \in RowId : Running(p)' => p \notin D /\ Running(p) /\ rows'[p].token = rows[p].token
    BY <1>5 DEF Leaves, Running
  <2>2. \A p \in RowId \ D : Running(p) => Running(p)' /\ rows'[p].token = rows[p].token
    BY <1>5 DEF Leaves, Running
  <2>3. PICK how \in Outcome \ {"none", "held"} : outcome' = [t \in Token |->
          IF \E p \in D : Running(p) /\ rows[p].token = t THEN how ELSE outcome[t]]
    BY <1>5 DEF Leaves
  <2>4. \A p \in RowId : Running(p)' =>
          rows'[p].token \in Token /\ outcome'[rows'[p].token] = "held"
    BY <2>1, <2>3 DEF OwnerInv
  <2>5. \A p1, p2 \in RowId : Running(p1)' /\ Running(p2)' /\ rows'[p1].token = rows'[p2].token
          => p1 = p2
    BY <2>1 DEF OwnerInv
  <2>6. \A t \in Token : outcome'[t] = "held" =>
          \E p \in RowId : Running(p)' /\ rows'[p].token = t
    <3>1. SUFFICES ASSUME NEW t \in Token, outcome'[t] = "held"
                   PROVE  \E p \in RowId : Running(p)' /\ rows'[p].token = t
      OBVIOUS
    <3>2. outcome[t] = "held" /\ ~\E p \in D : Running(p) /\ rows[p].token = t
      BY <2>3, <3>1
    <3>3. PICK p \in RowId : Running(p) /\ rows[p].token = t BY <3>2 DEF OwnerInv
    <3> QED BY <2>2, <3>2, <3>3
  <2> QED BY <2>4, <2>5, <2>6 DEF OwnerInv
<1> QED BY <1>2, <1>3, <1>4, <1>5 DEF StepKind

\* OwnerInv holds in every state.
LEMMA OwnerInvariant == Spec => []OwnerInv
<1>1. Init => OwnerInv
  <2>1. NoRow.state # "RUNNING" BY NoRowType
  <2> SUFFICES ASSUME Init PROVE OwnerInv OBVIOUS
  <2>2. \A r \in RowId : ~Running(r) BY <2>1 DEF Init, Running
  <2>3. \A t \in Token : outcome[t] # "held" BY DEF Init
  <2> QED BY <2>2, <2>3 DEF OwnerInv
<1>2. TypeOK /\ OwnerInv /\ [Next]_vars => OwnerInv' BY EveryStep, OwnerStep
<1> QED BY <1>1, <1>2, TypeCorrect, PTL DEF Spec

\* The correspondence says what OneOwner counts.
LEMMA OwnerImpliesOneOwner == OwnerInv => OneOwner
<1> SUFFICES ASSUME OwnerInv PROVE OneOwner OBVIOUS
<1> DEFINE Held(t) == {r \in RowId : rows[r].state = "RUNNING" /\ rows[r].token = t}
<1>1. ASSUME NEW t \in Token PROVE outcome[t] = "held" <=> Cardinality(Held(t)) = 1
  <2>1. CASE outcome[t] = "held"
    <3>1. PICK r \in RowId : Running(r) /\ rows[r].token = t BY <2>1 DEF OwnerInv
    <3>2. Held(t) = {r} BY <3>1 DEF OwnerInv, Running
    <3> QED BY <2>1, <3>2, FS_Singleton
  <2>2. CASE outcome[t] # "held"
    <3>1. Held(t) = {} BY <2>2 DEF OwnerInv, Running
    <3>2. Cardinality({}) = 0 BY FS_EmptySet
    <3> HIDE DEF Held
    <3> QED BY <2>2, <3>1, <3>2
  <2> QED BY <2>1, <2>2
<1>2. \A r \in RowId : rows[r].state = "RUNNING" => rows[r].token \in Token
  BY DEF OwnerInv, Running
<1> QED BY <1>1, <1>2 DEF OneOwner

\* Every attempt that has not ended is the owner of exactly one RUNNING
\* message: stale batches of any number of replicas, concurrent DLQ calls and
\* reused message ids never give a message two owners or none.
THEOREM OwnerUnique == Spec => []OneOwner
BY OwnerInvariant, OwnerImpliesOneOwner, PTL

\* An attempt ends once: the owner's ack or nack and the reclaim of its lease
\* exclude each other, for ever.
THEOREM EndsOnce == Spec => AttemptEndsOnce
<1>1. TypeOK /\ OwnerInv /\ [Next]_vars =>
        [\A t \in Token : outcome[t] \notin {"none", "held"} => outcome'[t] = outcome[t]]_vars
  <2> SUFFICES ASSUME TypeOK, OwnerInv, [Next]_vars, NEW t \in Token,
                      outcome[t] \notin {"none", "held"}
               PROVE  outcome'[t] = outcome[t]
    BY DEF vars
  <2>1. StepKind BY EveryStep
  <2>2. CASE Quiet BY <2>2 DEF Quiet
  <2>3. ASSUME NEW r \in RowId, Takes(r) PROVE outcome'[t] = outcome[t]
    <3>1. outcome[nextToken] = "none" BY <2>3, Basics DEF TypeOK, OutcomeOK, Takes
    <3> QED BY <2>3, <3>1, Basics DEF Takes
  <2>4. ASSUME NEW r \in RowId, Renews(r) PROVE outcome'[t] = outcome[t]
    BY <2>4 DEF Renews
  <2>5. ASSUME NEW D \in SUBSET RowId, Leaves(D) PROVE outcome'[t] = outcome[t]
    BY <2>5 DEF Leaves, OwnerInv
  <2> QED BY <2>1, <2>2, <2>3, <2>4, <2>5 DEF StepKind
<1> QED BY <1>1, TypeCorrect, OwnerInvariant, PTL DEF Spec, AttemptEndsOnce

=============================================================================
