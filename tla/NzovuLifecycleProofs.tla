------------------------ MODULE NzovuLifecycleProofs ------------------------
(***************************************************************************)
(* Nzovu implements the state diagram of message.proto: under the mapping  *)
(* of Nzovu!Lifecycle every step of the service is a step of               *)
(* MessageLifecycle or leaves the diagram's variables alone.               *)
(***************************************************************************)
EXTENDS NzovuSafetyProofs

-----------------------------------------------------------------------------
(* What a DLQ call may find.                                                *)

\* A message cancelled in a DLQ is deleted, not kept as CANCELED.
PlainDLQs == \A q \in DLQNames : \A c \in Configs[q] : c.retention = "DELETE_IMMEDIATELY"

\* The deployments for which the diagram holds.  Outside SQLite a requeue
\* writes whatever row has the id by then: in a DLQ that keeps what it
\* cancels, a CANCELED one.
DiagramApplies == UntimedDLQs /\ (SerialWriters \/ PlainDLQs)

\* The states from which the diagram has an edge to PENDING, or that is it.
Revivable == {"ERRORED", "INVISIBLE", "PENDING", "RUNNING"}

\* What a DLQ call finds may be requeued.
RevivableInv == \A x \in Session : Active(x) =>
  \A r \in RowsOf(dlqTx[x].dlq, dlqTx[x].id) : rows[r].state \in Revivable

\* A plain DLQ holds no COMPLETED or CANCELED message, and neither does an
\* ordinary queue created under its name.
LEMMA RevivableStep ==
  ASSUME TypeOK, TypeOK', StorageInv, SessionInv, RetentionInv, DiagramApplies, RevivableInv,
         Effect
  PROVE  RevivableInv'
<1> DEFINE Good(row) == row.state \in Revivable
<1>1. SUFFICES ASSUME NEW x \in Session, dlqTx'[x].kind # "idle", NEW r \in RowId,
                      rows'[r].queue = dlqTx'[x].dlq, rows'[r].id = dlqTx'[x].id
               PROVE  Good(rows'[r])
  BY DEF RevivableInv, RowsOf, Active
<1>2. CASE Selects(x)
  <2>1. PICK op \in DlqOp : \E p \in RowsOf(op.dlq, op.id) :
          /\ rows[p].state = "ERRORED" /\ dlqTx' = [dlqTx EXCEPT ![x] = op] /\ rows' = rows
    BY <1>2 DEF Selects
  <2>2. PICK p \in RowsOf(op.dlq, op.id) :
          /\ rows[p].state = "ERRORED" /\ dlqTx' = [dlqTx EXCEPT ![x] = op] /\ rows' = rows
    BY <2>1
  <2>3. dlqTx'[x] = op BY <2>2 DEF TypeOK
  <2>4. op.dlq # "" BY PlainTypes DEF DlqOp
  <2>5. r = p
    <3>1. p \in RowId /\ rows[p].queue = op.dlq /\ rows[p].id = op.id BY <2>2 DEF RowsOf
    <3>2. rows[r].queue = op.dlq /\ rows[r].id = op.id BY <1>1, <2>2, <2>3
    <3>3. rows[p] # NoRow /\ rows[r] # NoRow BY <2>4, <3>1, <3>2, NoRowType
    <3> QED BY <3>1, <3>2, <3>3 DEF StorageInv, KeyInv
  <2> QED BY <2>2, <2>5 DEF Revivable
<1>3. CASE dlqTx'[x] = dlqTx[x] /\ Active(x)
  <2>1. /\ rows'[r].queue = dlqTx[x].dlq /\ rows'[r].id = dlqTx[x].id
        /\ dlqTx[x] \in DlqOp
    BY <1>1, <1>3, ActiveOp
  <2>2. rows'[r] # NoRow
    <3>1. dlqTx[x].dlq # "" BY <2>1, PlainTypes DEF DlqOp
    <3> QED BY <2>1, <3>1, NoRowType
  <2>3. SamePlace(r) => Good(rows[r]) /\ rows[r].queue = dlqTx[x].dlq
    BY <1>3, <2>1 DEF SamePlace, SameMessage, RowsOf, RevivableInv
  <2>4. CASE rows'[r] = rows[r] BY <2>3, <2>4 DEF SamePlace, SameMessage
  <2>5. CASE SerialWriters
    <3>1. rows' = rows BY <1>1, <1>3, <2>5, SerialStep DEF SessionInv, Reads
    <3> QED BY <2>4, <3>1
  <2>6. CASE PlainDLQs
    <3>1. HardDelete(dlqTx[x].dlq)
      <4>1. dlqTx[x].dlq \in DLQNames BY <1>3 DEF RetentionInv, SourceInv
      <4>2. dlqTx[x].dlq \in QueueName BY <4>1 DEF DLQNames
      <4>3. queues[dlqTx[x].dlq] \in Configs[dlqTx[x].dlq] \cup {PlainConfig, NoQueue}
        BY <4>2 DEF RetentionInv, ConfigInv
      <4>4. /\ PlainConfig.retention = "DELETE_IMMEDIATELY"
            /\ NoQueue.retention = "DELETE_IMMEDIATELY"
        BY DEF PlainConfig, NoQueue
      <4> QED BY <2>6, <4>1, <4>3, <4>4 DEF PlainDLQs, HardDelete
    <3>2. ASSUME NEW q \in QueueName, CreateQueue(q) \/ DeleteQueue(q) PROVE rows'[r] = rows[r]
      BY <2>2, <3>2, DeleteQueueFacts DEF CreateQueue
    <3>3. ASSUME NEW q \in QueueName, Posts(q) PROVE rows'[r] = rows[r] \/ Good(rows'[r])
      BY <3>3 DEF Posts, Fresh, Revivable
    <3>4. CASE Alters(r)
      <4>1. CASE SamePlace(r)
        <5>1. rows[r].state \in Revivable /\ HardDelete(rows[r].queue)
          BY <2>3, <3>1, <4>1
        <5>2. CASE Extends(r) \/ Arrives(r) \/ Starts(r) \/ Returns(r)
          BY <5>2 DEF Extends, Arrives, Starts, Returns, Revivable
        <5>3. CASE Fails(r) BY <5>3 DEF Fails, Revivable
        <5>4. ~(Completes(r) \/ Cancels(r) \/ Drops(r))
          BY <2>2, <5>1 DEF Completes, Cancels, Drops
        <5> QED BY <3>4, <5>2, <5>3, <5>4 DEF Alters
      <4>2. CASE Fails(r) BY <4>2 DEF Fails, Revivable
      <4> QED BY <2>2, <3>4, <4>1, <4>2
            DEF Alters, Extends, Arrives, Starts, Returns, Completes, Cancels, Drops
    <3>5. ASSUME NEW y \in Session, Requeues(y, r) PROVE Good(rows'[r])
      BY <3>5 DEF Requeues, Revivable
    <3> HIDE DEF Good
    <3> QED BY <2>2, <2>4, <3>2, <3>3, <3>4, <3>5, UnchangedRow
  <2> QED BY <2>5, <2>6 DEF DiagramApplies
<1> QED BY <1>1, <1>2, <1>3, OneSession

DiagramInv == TypeOK /\ StorageInv /\ SessionInv /\ RetentionInv /\ RevivableInv

\* DiagramInv holds in every state.
LEMMA DiagramInvariant ==
  ASSUME DiagramApplies PROVE Spec => []DiagramInv
<1>1. UntimedDLQs BY DEF DiagramApplies
<1>2. Init => RevivableInv
  <2> SUFFICES ASSUME Init PROVE RevivableInv OBVIOUS
  <2>1. \A x \in Session : ~Active(x) BY PlainTypes DEF Init, Active
  <2> QED BY <2>1 DEF RevivableInv
<1>3. TypeOK /\ StorageInv /\ SessionInv /\ RetentionInv /\ RevivableInv /\ [Next]_vars
        => RevivableInv'
  BY StorageStep, RevivableStep
<1>4. Spec => [](TypeOK /\ StorageInv /\ RetentionInv) BY <1>1, RetentionInvariant
<1> QED BY <1>2, <1>3, <1>4, SessionInvariant, PTL DEF Spec, DiagramInv

-----------------------------------------------------------------------------
(* The mapping.                                                             *)

\* The variables of the diagram, as Nzovu!Lifecycle defines them.
StatusOf(row) == IF row.state = "NONE" THEN "GONE" ELSE row.state
OwnerOf(row) == IF row.state = "RUNNING" THEN row.token ELSE 0
Status == [r \in RowId |-> IF r >= nextRow THEN "NEW"
                           ELSE IF rows[r].state = "NONE" THEN "GONE"
                           ELSE rows[r].state]
Owner == [r \in RowId |-> IF rows[r].state = "RUNNING" THEN rows[r].token ELSE 0]

\* A stored message has the status of its row.
LEMMA StoredStatus ==
  ASSUME TypeOK, NEW r \in RowId, r < nextRow
  PROVE  Status[r] = StatusOf(rows[r]) /\ Owner[r] = OwnerOf(rows[r])
<1>1. ~(r >= nextRow) BY Basics DEF RowId
<1> QED BY <1>1 DEF Status, Owner, StatusOf, OwnerOf

\* One stored message changes.
LEMMA OneStatus ==
  ASSUME TypeOK, NEW r \in RowId, r < nextRow, OnlyRow(r), nextRow' = nextRow
  PROVE  /\ Status' = [Status EXCEPT ![r] = StatusOf(rows'[r])]
         /\ Owner' = [Owner EXCEPT ![r] = OwnerOf(rows'[r])]
<1>1. ~(r >= nextRow) BY Basics DEF RowId
<1>2. \A p \in RowId : p # r => rows'[p] = rows[p] BY DEF OnlyRow
<1> QED BY <1>1, <1>2 DEF Status, Owner, StatusOf, OwnerOf

\* A message that is not held has no owner, before and after.
LEMMA SameOwner ==
  ASSUME TypeOK, NEW r \in RowId, r < nextRow, OnlyRow(r), nextRow' = nextRow,
         OwnerOf(rows'[r]) = OwnerOf(rows[r])
  PROVE  Owner' = Owner
<1>1. Owner' = [Owner EXCEPT ![r] = OwnerOf(rows'[r])] BY OneStatus
<1>2. Owner[r] = OwnerOf(rows[r]) BY StoredStatus
<1> QED BY <1>1, <1>2 DEF Owner

-----------------------------------------------------------------------------
(* Every kind of step is one of the diagram.                                *)

\* Posting.
LEMMA PostStep ==
  ASSUME TypeOK, NEW q \in QueueName, Posts(q)
  PROVE  \E S \in SUBSET RowId : Lifecycle!Post(S)
<1> DEFINE S == {r \in RowId : nextRow <= r /\ r < nextRow'}
           initial == [r \in S |-> rows'[r].state]
<1>1. nextRow \in Nat /\ nextRow' \in Nat /\ nextRow' > nextRow BY Basics DEF Posts
<1>2. \A r \in S : rows[r] = NoRow /\ r >= nextRow /\ ~(r >= nextRow')
  BY <1>1, Basics DEF RowId
<1>3. \A r \in S : rows'[r].state \in {"INVISIBLE", "PENDING"} BY DEF Posts, Fresh
<1>4. \A r \in RowId : r \notin S => rows'[r] = rows[r] /\ (r >= nextRow' <=> r >= nextRow)
  BY <1>1 DEF Posts, RowId
<1>5. S \in SUBSET RowId /\ initial \in [S -> {"INVISIBLE", "PENDING"}] BY <1>3
<1>6. \A r \in S : Status[r] = "NEW" BY <1>2 DEF Status
<1>7. Status' = [r \in RowId |-> IF r \in S THEN initial[r] ELSE Status[r]]
  <2>1. \A r \in RowId : (IF r >= nextRow' THEN "NEW"
                          ELSE IF rows'[r].state = "NONE" THEN "GONE" ELSE rows'[r].state)
                         = IF r \in S THEN initial[r] ELSE Status[r]
    BY <1>2, <1>3, <1>4 DEF Status
  <2> HIDE DEF initial, S
  <2> QED BY <2>1 DEF Status
<1>8. Owner' = Owner
  <2>1. \A r \in RowId : OwnerOf(rows'[r]) = OwnerOf(rows[r])
    BY <1>2, <1>3, <1>4, NoRowType DEF OwnerOf
  <2> QED BY <2>1 DEF Owner, OwnerOf
<1>9. nextToken' = nextToken BY DEF Posts
<1> HIDE DEF S, initial
<1> QED BY <1>5, <1>6, <1>7, <1>8, <1>9 DEF Lifecycle!Post, Status, Owner

\* A worker's call, a cancellation, the scheduler or the reclaimer.
LEMMA AlterStep ==
  ASSUME TypeOK, NEW r \in RowId, Alters(r)
  PROVE  \/ UNCHANGED <<Status, Owner, nextToken>>
         \/ Lifecycle!Arrive(r) \/ Lifecycle!Take(r) \/ Lifecycle!Return(r)
         \/ Lifecycle!End(r) \/ Lifecycle!Cancel(r)
<1> DEFINE old == rows[r].state
           new == StatusOf(rows'[r])
<1>1. r < nextRow /\ OnlyRow(r) /\ nextRow' = nextRow BY DEF Alters
<1>2. old # "NONE"
  BY DEF Alters, Extends, Arrives, Starts, Returns, Fails, Completes, Cancels, Drops, EndsAttempt
<1>3. Status[r] = old /\ Owner[r] = OwnerOf(rows[r]) BY <1>1, <1>2, StoredStatus DEF StatusOf
<1>4. Status' = [Status EXCEPT ![r] = new] /\ Owner' = [Owner EXCEPT ![r] = OwnerOf(rows'[r])]
  BY <1>1, OneStatus
<1>5. OwnerOf(rows'[r]) = OwnerOf(rows[r]) => Owner' = Owner BY <1>1, SameOwner
<1>6. NoRow.state = "NONE" BY NoRowType
<1>7. CASE Extends(r)
  <2>1. new = old /\ Owner' = Owner /\ nextToken' = nextToken
    BY <1>2, <1>5, <1>7 DEF Extends, StatusOf, OwnerOf
  <2>2. Status' = Status BY <1>3, <1>4, <2>1 DEF Status
  <2> QED BY <2>1, <2>2
<1>8. CASE Arrives(r)
  <2>1. old = "INVISIBLE" /\ new = "PENDING" /\ Owner' = Owner /\ nextToken' = nextToken
    BY <1>5, <1>8 DEF Arrives, StatusOf, OwnerOf
  <2> HIDE DEF new, old
  <2>2. Lifecycle!Arrive(r) BY <1>3, <1>4, <2>1 DEF Lifecycle!Arrive, Status, Owner
  <2> QED BY <2>2
<1>9. CASE Starts(r)
  <2>1. old = "PENDING" /\ new = "RUNNING" /\ OwnerOf(rows'[r]) = nextToken
        /\ nextToken' = nextToken + 1
    BY <1>9 DEF Starts, StatusOf, OwnerOf
  <2>2. nextToken' - 1 = (nextToken - 1) + 1 /\ nextToken' - 1 = nextToken
    <3>1. nextToken \in Nat BY Basics
    <3>2. nextToken' = nextToken + 1 BY <2>1
    <3> QED BY <3>1, <3>2
  <2>3. Owner' = [Owner EXCEPT ![r] = nextToken' - 1] BY <1>4, <2>1, <2>2
  <2> HIDE DEF new, old
  <2>4. Lifecycle!Take(r)
    BY <1>3, <1>4, <2>1, <2>2, <2>3 DEF Lifecycle!Take, Status, Owner
  <2> QED BY <2>4
<1>10. CASE EndsAttempt(r)
  <2>1. old = "RUNNING" /\ nextToken' = nextToken BY <1>10 DEF EndsAttempt
  <2>2. ASSUME rows'[r].state # "RUNNING" PROVE Owner' = [Owner EXCEPT ![r] = 0]
    BY <1>4, <2>2 DEF OwnerOf
  <2>3. CASE Returns(r)
    <3>1. new = "PENDING" /\ Owner' = [Owner EXCEPT ![r] = 0]
      BY <2>2, <2>3 DEF Returns, StatusOf
    <3> HIDE DEF new, old
    <3>2. Lifecycle!Return(r) BY <1>3, <1>4, <2>1, <3>1 DEF Lifecycle!Return, Status, Owner
    <3> QED BY <3>2
  <2>4. CASE Fails(r) \/ Completes(r) \/ Drops(r)
    <3>1. new \in {"COMPLETED", "ERRORED", "GONE"} /\ Owner' = [Owner EXCEPT ![r] = 0]
      BY <1>6, <2>2, <2>4 DEF Fails, Completes, Drops, StatusOf
    <3> HIDE DEF new, old
    <3>2. Lifecycle!End(r) BY <1>3, <1>4, <2>1, <3>1 DEF Lifecycle!End, Status, Owner
    <3> QED BY <3>2
  <2> QED BY <1>7, <2>1, <2>3, <2>4 DEF Alters, Arrives, Starts, Cancels
<1>11. CASE Cancels(r) \/ (Drops(r) /\ ~EndsAttempt(r))
  <2>1. old \in {"INVISIBLE", "PENDING"} /\ new \in {"CANCELED", "GONE"}
        /\ Owner' = Owner /\ nextToken' = nextToken
    BY <1>5, <1>6, <1>11 DEF Cancels, Drops, StatusOf, OwnerOf
  <2> HIDE DEF new, old
  <2>2. Lifecycle!Cancel(r) BY <1>3, <1>4, <2>1 DEF Lifecycle!Cancel, Status, Owner
  <2> QED BY <2>2
<1> QED BY <1>7, <1>8, <1>9, <1>10, <1>11 DEF Alters, Returns, Fails, Completes

\* Rows deleted together.
LEMMA ManyStatus ==
  ASSUME TypeOK, NEW D \in SUBSET RowId, \A r \in D : r < nextRow, nextRow' = nextRow,
         \A r \in RowId : rows'[r] = IF r \in D THEN NoRow ELSE rows[r]
  PROVE  /\ Status' = [r \in RowId |-> IF r \in D THEN "GONE" ELSE Status[r]]
         /\ Owner' = [r \in RowId |-> IF r \in D THEN 0 ELSE Owner[r]]
<1>1. \A r \in D : ~(r >= nextRow) BY Basics DEF RowId
<1>2. NoRow.state = "NONE" BY NoRowType
<1> QED BY <1>1, <1>2 DEF Status, Owner

\* What has ended is forgotten.
LEMMA ForgetStep ==
  ASSUME TypeOK, NEW D \in SUBSET RowId, \A r \in D : rows[r].state \in Terminal,
         UNCHANGED <<nextRow, nextToken>>,
         \A r \in RowId : rows'[r] = IF r \in D THEN NoRow ELSE rows[r]
  PROVE  Lifecycle!Forget(D)
<1>1. \A r \in D : r < nextRow /\ rows[r].state # "NONE" BY PostedRow DEF Terminal
<1>2. \A r \in D : Status[r] \in Terminal BY <1>1, StoredStatus DEF StatusOf
<1>3. /\ Status' = [r \in RowId |-> IF r \in D THEN "GONE" ELSE Status[r]]
      /\ Owner' = [r \in RowId |-> IF r \in D THEN 0 ELSE Owner[r]]
  BY <1>1, ManyStatus
<1>4. Owner' = Owner
  <2>1. \A r \in D : Owner[r] = 0 BY <1>1, StoredStatus DEF OwnerOf, Terminal
  <2> QED BY <1>3, <2>1 DEF Owner
<1> QED BY <1>2, <1>3, <1>4 DEF Lifecycle!Forget, Lifecycle!Ended, Terminal, Status, Owner

\* Purges and the cleanup service remove only what has ended.
LEMMA RemoveStep ==
  ASSUME TypeOK, StorageInv, RetentionInv, NEW D \in SUBSET RowId, Removes(D)
  PROVE  Lifecycle!Forget(D)
<1>1. \A r \in D : rows[r].state \in Terminal
  <2> SUFFICES ASSUME NEW r \in D PROVE rows[r].state \in Terminal OBVIOUS
  <2>1. CASE rows[r].state = "ERRORED" BY <2>1 DEF Terminal
  <2>2. CASE rows[r].deleted # NULL
    <3>1. rows[r] # NoRow BY <2>2, PlainTypes
    <3>2. rows[r].state \in State BY <3>1, Basics DEF StorageInv, PlacedInv, Row
    <3>3. rows[r].state \notin {"INVISIBLE", "PENDING", "RUNNING"}
      BY <2>2 DEF RetentionInv, MarkedInv
    <3> QED BY <3>2, <3>3 DEF State, Terminal
  <2> QED BY <2>1, <2>2 DEF Removes
<1> QED BY <1>1, ForgetStep DEF Removes

\* The deletion of a queue.
LEMMA WithdrawStep ==
  ASSUME TypeOK, StorageInv, NEW q \in QueueName, DeleteQueue(q)
  PROVE  \E S \in SUBSET RowId : Lifecycle!Withdraw(S)
<1> DEFINE D == {r \in RowId : rows[r].queue = q}
<1>1. q # "" BY PlainTypes
<1>2. \A r \in D : rows[r].state \in State
  BY <1>1, NoRowType, Basics DEF StorageInv, PlacedInv, Row
<1>3. \A r \in D : r < nextRow /\ rows[r].state # "NONE" BY <1>2, PostedRow DEF State
<1>4. \A r \in D : Status[r] \notin {"NEW", "GONE"}
  <2>1. \A r \in D : Status[r] = rows[r].state BY <1>3, StoredStatus DEF StatusOf
  <2> QED BY <1>2, <2>1 DEF State
<1>5. \A r \in RowId : rows'[r] = IF r \in D THEN NoRow ELSE rows[r] BY DeleteQueueFacts
<1>6. /\ Deletable # {} /\ UNCHANGED <<nextRow, nextToken>> BY DeleteQueueFacts
<1>7. D \in SUBSET RowId OBVIOUS
<1> HIDE DEF D
<1>8. /\ Status' = [r \in RowId |-> IF r \in D THEN "GONE" ELSE Status[r]]
      /\ Owner' = [r \in RowId |-> IF r \in D THEN 0 ELSE Owner[r]]
  BY <1>3, <1>5, <1>6, <1>7, ManyStatus
<1> QED BY <1>4, <1>6, <1>7, <1>8 DEF Lifecycle!Withdraw, Status, Owner

\* The end of a DLQ call.  Outside SQLite the row may have changed since the
\* call selected it; each state it can be in by then has its edge.
LEMMA DLQDiagramStep ==
  ASSUME TypeOK, StorageInv, RevivableInv, NEW x \in Session
  PROVE  /\ \A r \in RowId : Requeues(x, r) =>
              \/ UNCHANGED <<Status, Owner, nextToken>>
              \/ Lifecycle!Revive(r) \/ Lifecycle!Arrive(r) \/ Lifecycle!Return(r)
         /\ Discards(x) =>
              \/ \E r \in RowId : Lifecycle!Cancel(r) \/ Lifecycle!End(r)
              \/ \E D \in SUBSET RowId : Lifecycle!Forget(D)
<1> DEFINE found == RowsOf(dlqTx[x].dlq, dlqTx[x].id)
<1>1. ASSUME Finishes(x), NEW r \in found
      PROVE  /\ r \in RowId /\ r < nextRow /\ rows[r].state \in Revivable
             /\ rows[r] # NoRow /\ Status[r] = rows[r].state
  <2>1. r \in RowId /\ rows[r].state \in Revivable
    BY <1>1 DEF RowsOf, RevivableInv, Finishes
  <2>2. r < nextRow /\ rows[r] # NoRow BY <2>1, PostedRow DEF Revivable
  <2> QED BY <2>1, <2>2, StoredStatus DEF StatusOf, Revivable
<1>2. ASSUME NEW r \in RowId, Requeues(x, r)
      PROVE  \/ UNCHANGED <<Status, Owner, nextToken>>
             \/ Lifecycle!Revive(r) \/ Lifecycle!Arrive(r) \/ Lifecycle!Return(r)
  <2>1. r < nextRow /\ rows[r].state \in Revivable /\ Status[r] = rows[r].state
    BY <1>1, <1>2 DEF Requeues
  <2>2. OnlyRow(r) /\ UNCHANGED <<nextRow, nextToken>> BY <1>2 DEF Requeues, Finishes
  <2>3. StatusOf(rows'[r]) = "PENDING" /\ OwnerOf(rows'[r]) = 0
    BY <1>2 DEF Requeues, StatusOf, OwnerOf
  <2>4. /\ Status' = [Status EXCEPT ![r] = "PENDING"]
        /\ Owner' = [Owner EXCEPT ![r] = 0]
    BY <2>1, <2>2, <2>3, OneStatus
  <2>5. ASSUME rows[r].state # "RUNNING" PROVE Owner' = Owner
    BY <2>1, <2>2, <2>3, <2>5, SameOwner DEF OwnerOf
  <2>6. CASE rows[r].state = "ERRORED"
    BY <2>1, <2>2, <2>4, <2>5, <2>6 DEF Lifecycle!Revive, Status, Owner
  <2>7. CASE rows[r].state = "PENDING"
    <3>1. Status' = Status BY <2>1, <2>4, <2>7 DEF Status
    <3> QED BY <2>2, <2>5, <2>7, <3>1
  <2>8. CASE rows[r].state = "INVISIBLE"
    BY <2>1, <2>2, <2>4, <2>5, <2>8 DEF Lifecycle!Arrive, Status, Owner
  <2>9. CASE rows[r].state = "RUNNING"
    BY <2>1, <2>2, <2>4, <2>9 DEF Lifecycle!Return, Status, Owner
  <2> QED BY <2>1, <2>6, <2>7, <2>8, <2>9 DEF Revivable
<1>3. ASSUME Discards(x)
      PROVE  \/ \E r \in RowId : Lifecycle!Cancel(r) \/ Lifecycle!End(r)
             \/ \E D \in SUBSET RowId : Lifecycle!Forget(D)
  <2>1. Finishes(x) /\ UNCHANGED <<nextRow, nextToken>> BY <1>3 DEF Discards, Finishes
  <2>2. \A r \in RowId : rows'[r] = IF r \in found THEN NoRow ELSE rows[r]
    BY <1>3 DEF Discards
  <2>3. found \in SUBSET RowId BY DEF RowsOf
  <2>4. CASE \A r \in found : rows[r].state = "ERRORED"
    <3>1. \A r \in found : rows[r].state \in Terminal BY <2>4 DEF Terminal
    <3> HIDE DEF found
    <3> QED BY <2>1, <2>2, <2>3, <3>1, ForgetStep
  <2>5. ASSUME NEW r \in found, rows[r].state # "ERRORED"
        PROVE  r \in RowId /\ (Lifecycle!Cancel(r) \/ Lifecycle!End(r))
    <3>1. /\ r \in RowId /\ r < nextRow /\ Status[r] = rows[r].state
          /\ rows[r] # NoRow /\ rows[r].state \in {"INVISIBLE", "PENDING", "RUNNING"}
      BY <1>1, <2>1, <2>5 DEF Revivable
    <3>2. \A p \in found : p = r
      <4>1. \A p \in found : p \in RowId /\ rows[p] # NoRow BY <1>1, <2>1
      <4> QED BY <3>1, <4>1 DEF StorageInv, KeyInv, RowsOf
    <3>3. rows'[r] = NoRow /\ OnlyRow(r) BY <2>2, <3>1, <3>2 DEF OnlyRow
    <3>4. StatusOf(rows'[r]) = "GONE" /\ OwnerOf(rows'[r]) = 0
      BY <3>3, NoRowType DEF StatusOf, OwnerOf
    <3>5. /\ Status' = [Status EXCEPT ![r] = "GONE"]
          /\ Owner' = [Owner EXCEPT ![r] = 0]
      BY <2>1, <3>1, <3>3, <3>4, OneStatus
    <3>6. CASE rows[r].state = "RUNNING"
      <4>1. Lifecycle!End(r) BY <2>1, <3>1, <3>5, <3>6 DEF Lifecycle!End, Status, Owner
      <4> QED BY <3>1, <4>1
    <3>7. CASE rows[r].state \in {"INVISIBLE", "PENDING"}
      <4>1. OwnerOf(rows[r]) = 0 BY <3>7 DEF OwnerOf
      <4>2. Owner' = Owner BY <2>1, <3>1, <3>3, <3>4, <4>1, SameOwner
      <4>3. Lifecycle!Cancel(r)
        BY <2>1, <3>1, <3>5, <3>7, <4>2 DEF Lifecycle!Cancel, Status, Owner
      <4> QED BY <3>1, <4>3
    <3> QED BY <3>1, <3>6, <3>7
  <2> QED BY <2>4, <2>5
<1> QED BY <1>2, <1>3

\* Every step of the service is a step of the diagram, or none.
LEMMA DiagramStep ==
  ASSUME DiagramInv, [Next]_vars PROVE [Lifecycle!Next]_(Lifecycle!vars)
<1>1. TypeOK /\ StorageInv /\ RetentionInv /\ RevivableInv BY DEF DiagramInv
<1>2. Effect BY <1>1, StorageStep
<1>3. ASSUME UNCHANGED <<Status, Owner, nextToken>> PROVE UNCHANGED Lifecycle!vars
  BY <1>3 DEF Status, Owner, Lifecycle!vars
<1>4. ASSUME UNCHANGED <<rows, nextRow, nextToken>> PROVE UNCHANGED Lifecycle!vars
  BY <1>4 DEF Lifecycle!vars
<1>5. CASE Reads BY <1>4, <1>5 DEF Reads
<1>6. ASSUME NEW q \in QueueName, CreateQueue(q) PROVE UNCHANGED Lifecycle!vars
  BY <1>4, <1>6 DEF CreateQueue
<1>7. ASSUME NEW q \in QueueName, DeleteQueue(q) PROVE Lifecycle!Next
  BY <1>1, <1>7, WithdrawStep DEF Lifecycle!Next
<1>8. ASSUME NEW q \in QueueName, Posts(q) PROVE Lifecycle!Next
  BY <1>1, <1>8, PostStep DEF Lifecycle!Next
<1>9. ASSUME NEW r \in RowId, Alters(r) PROVE [Lifecycle!Next]_(Lifecycle!vars)
  BY <1>1, <1>3, <1>9, AlterStep DEF Lifecycle!Next
<1>10. ASSUME NEW D \in SUBSET RowId, Removes(D) PROVE Lifecycle!Next
  BY <1>1, <1>10, RemoveStep DEF Lifecycle!Next
<1>11. ASSUME NEW x \in Session, Selects(x) \/ Misses(x) PROVE UNCHANGED Lifecycle!vars
  BY <1>4, <1>11 DEF Selects, Misses, Finishes
<1>12. ASSUME NEW x \in Session, Discards(x) PROVE Lifecycle!Next
  BY <1>1, <1>12, DLQDiagramStep DEF Lifecycle!Next
<1>13. ASSUME NEW x \in Session, NEW r \in RowId, Requeues(x, r)
       PROVE  [Lifecycle!Next]_(Lifecycle!vars)
  BY <1>1, <1>3, <1>13, DLQDiagramStep DEF Lifecycle!Next
<1> QED BY <1>2, <1>5, <1>6, <1>7, <1>8, <1>9, <1>10, <1>11, <1>12, <1>13 DEF Effect

\* Every behaviour of the service is one of the state diagram in
\* message.proto: no interleaving of calls, batches and background services
\* moves a message along an edge that the diagram does not have.
THEOREM ImplementsLifecycle ==
  ASSUME DiagramApplies PROVE Spec => FollowsLifecycle
<1>1. Init => Lifecycle!Init
  <2> SUFFICES ASSUME Init PROVE Lifecycle!Init OBVIOUS
  <2>1. \A r \in RowId : rows[r].state = "NONE" /\ r >= nextRow
    <3>1. \A r \in RowId : rows[r] = NoRow BY DEF Init
    <3>2. \A r \in RowId : r >= nextRow BY DEF Init, RowId
    <3> QED BY <3>1, <3>2, NoRowType
  <2>2. nextToken - 1 = 0 BY DEF Init
  <2> QED BY <2>1, <2>2 DEF Lifecycle!Init
<1>2. DiagramInv /\ [Next]_vars => [Lifecycle!Next]_(Lifecycle!vars) BY DiagramStep
<1> QED BY <1>1, <1>2, DiagramInvariant, PTL DEF Spec, FollowsLifecycle, Lifecycle!Spec

=============================================================================
