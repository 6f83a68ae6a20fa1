-------------------------------- MODULE DLQ ---------------------------------
(***************************************************************************)
(* Dead-letter administration (repository/implementation.go,               *)
(* postgres/dlq.go, sqlite/dlq.go).                                        *)
(*                                                                         *)
(* RetryDLQMessage and DeleteDLQMessage SELECT the row without FOR UPDATE  *)
(* and write it in a later statement of the same transaction.  Under       *)
(* PostgreSQL's READ COMMITTED other transactions commit in between; under *)
(* SQLite's BEGIN IMMEDIATE they cannot (Writable).                        *)
(***************************************************************************)
EXTENDS Storage

RequireDLQ(q) == queues[q].exists /\ IsDLQ(q)

\* The SELECT of either call: the row has to be ERRORED.
BeginDLQ(x, op) ==
  /\ Writable
  /\ dlqTx[x].kind = "idle"
  /\ RequireDLQ(op.dlq)
  /\ \E r \in RowsOf(op.dlq, op.id) :
       /\ rows[r].state = "ERRORED"
       /\ dlqTx' = [dlqTx EXCEPT ![x] = [op EXCEPT !.left = rows[r].max]]
  /\ UNCHANGED <<clock, queues, counts, rows, nextRow, nextToken, expired, due,
                 outcome>>

\* RequeueFromDLQ; the server always asks for the attempts to be reset.
BeginRetryDLQMessage(x, q, m, target) ==
  /\ queues[target].exists
  /\ BeginDLQ(x, [kind |-> "retry", dlq |-> q, id |-> m, target |-> target,
                  left |-> 0])

BeginDeleteDLQMessage(x, q, m) ==
  BeginDLQ(x, [kind |-> "delete", dlq |-> q, id |-> m, target |-> "", left |-> 0])

\* Mutant: the attempts are not reset.
RequeuedAsIs(row, op) == [row EXCEPT !.queue = op.target, !.state = "PENDING", !.runs = 0]

\* Mutant: the message is hidden first.
RequeuedInvisible(row, op) ==
  [row EXCEPT !.queue = op.target, !.state = "INVISIBLE", !.attempts = op.left, !.runs = 0]

\* What the UPDATE of RetryDLQMessage sets.
Requeued(row, op) ==
  [row EXCEPT !.queue = op.target, !.state = "PENDING", !.attempts = op.left, !.runs = 0]

\* The UPDATE looks for the (queue, id) pair again and its result is not
\* checked: when the row has gone, only the counters move.  deleted_at keeps
\* its value.  A duplicate id or a missing queue at the target rolls back.
RetryDLQMessage(x) ==
  LET op    == dlqTx[x]
      found == RowsOf(op.dlq, op.id)
  IN  /\ op.kind = "retry"
      /\ \/ /\ found = {}
            /\ rows' = rows
            /\ MoveCounter(op.dlq, "ERRORED", op.target, "PENDING")
            /\ outcome' = outcome
         \/ \E r \in found :
              /\ queues[op.target].exists
              /\ RowsOf(op.target, op.id) \subseteq {r}
              /\ rows' = [rows EXCEPT ![r] = Requeued(@, op)]
              /\ MoveCounter(op.dlq, "ERRORED", op.target, "PENDING")
              /\ outcome' = Dropped({r})
         \/ /\ found # {}
            /\ \/ ~queues[op.target].exists
               \/ ~(RowsOf(op.target, op.id) \subseteq found)
            /\ UNCHANGED <<rows, counts, outcome>>
      /\ dlqTx' = [dlqTx EXCEPT ![x] = Idle]
      /\ UNCHANGED <<clock, queues, nextRow, nextToken, expired, due>>

\* The DELETE is checked: NotFound when the row has gone.
DeleteDLQMessage(x) ==
  LET op    == dlqTx[x]
      found == RowsOf(op.dlq, op.id)
  IN  /\ op.kind = "delete"
      /\ \/ /\ found = {}
            /\ UNCHANGED <<rows, counts, outcome>>
         \/ /\ found # {}
            /\ rows' = [r \in RowId |-> IF r \in found THEN NoRow ELSE rows[r]]
            /\ RemoveCounter(op.dlq, "ERRORED")
            /\ outcome' = Dropped(found)
      /\ dlqTx' = [dlqTx EXCEPT ![x] = Idle]
      /\ UNCHANGED <<clock, queues, nextRow, nextToken, expired, due>>

\* One batch of PurgeDLQ: FOR UPDATE SKIP LOCKED may pass over some rows.
PurgeDLQBatch(q) ==
  /\ Writable
  /\ RequireDLQ(q)
  /\ \E D \in SUBSET {r \in RowId : rows[r].queue = q /\ rows[r].state = "ERRORED"} :
       /\ D # {} /\ Cardinality(D) <= BatchSize
       /\ rows' = [r \in RowId |-> IF r \in D THEN NoRow ELSE rows[r]]
       /\ RemoveCounters(D)
  /\ UNCHANGED <<clock, queues, nextRow, nextToken, dlqTx, expired, due, outcome>>

=============================================================================
