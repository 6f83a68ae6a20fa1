------------------------------- MODULE Queues -------------------------------
(***************************************************************************)
(* Queue administration (repository/implementation.go, postgres/queues.go).*)
(* Creation and deletion hold cq_queues in SHARE ROW EXCLUSIVE mode, so     *)
(* each is one step.  A queue's configuration never changes while the      *)
(* queue exists.                                                           *)
(***************************************************************************)
EXTENDS Storage

\* A DLQ is either created with the queue or has to exist already; it may be
\* any queue, also one that holds messages.
CreateQueue(q) ==
  /\ Writable
  /\ ~queues[q].exists
  /\ \E c \in Configs[q] :
       \/ /\ q \in AutoDLQ
          /\ c.dlq \in QueueName \ {q} /\ ~queues[c.dlq].exists
          /\ queues' = [queues EXCEPT ![q] = c, ![c.dlq] = PlainConfig]
       \/ /\ q \notin AutoDLQ
          /\ c.dlq # "" => queues[c.dlq].exists
          /\ queues' = [queues EXCEPT ![q] = c]
  /\ UNCHANGED <<clock, counts, rows, nextRow, nextToken, dlqTx, expired, due,
                 outcome>>

\* Refused while another queue names q as its DLQ.  The foreign key of
\* cq_messages deletes the messages with the queue, in whatever state.
DeleteQueue(q) ==
  /\ Writable
  /\ q \in Deletable
  /\ queues[q].exists
  /\ ~IsDLQ(q)
  /\ queues' = [queues EXCEPT ![q] = NoQueue]
  /\ counts' = [counts EXCEPT ![q] = [s \in State |-> 0]]
  /\ rows' = [r \in RowId |-> IF rows[r].queue = q THEN NoRow ELSE rows[r]]
  /\ outcome' = Dropped({r \in RowId : rows[r].queue = q})
  /\ UNCHANGED <<clock, nextRow, nextToken, dlqTx, expired, due>>

=============================================================================
