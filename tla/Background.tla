---------------------------- MODULE Background ------------------------------
(***************************************************************************)
(* The background services that every replica runs on a ticker             *)
(* (repository/sql/background): the scheduler activates delayed messages,  *)
(* the reclaimer takes back expired ones, the cleaner deletes what the     *)
(* retention policy no longer keeps.  Scheduler and reclaimer read a batch *)
(* outside any transaction and then treat each message of it in its own.   *)
(***************************************************************************)
EXTENDS Storage

\* Mutant: only messages that became due since the last cycle.
DueNow(now) == {r \in RowId : rows[r].state = "INVISIBLE" /\ rows[r].sched = now}

DueBy(now) == {r \in RowId : rows[r].state = "INVISIBLE" /\ rows[r].sched <= now}

\* collectScheduledMessages; the cycle keeps the nowMs it was started with.
CollectScheduledMessages(n) ==
  /\ due[n] = {}
  /\ \E now \in NowMs :
       /\ DueBy(now) # {}
       /\ \E D \in Batches(DueBy(now)) : due' = [due EXCEPT ![n] = D \X {now}]
  /\ UNCHANGED <<clock, queues, counts, rows, nextRow, nextToken, dlqTx, expired,
                 outcome>>

\* UPDATE ... WHERE id = r AND state = INVISIBLE AND scheduled_at <= nowMs; no
\* row, no error: the message was cancelled or activated by another replica.
ActivateMessage(n, r, now) ==
  /\ Writable
  /\ <<r, now>> \in due[n]
  /\ \/ /\ rows[r].state = "INVISIBLE" /\ rows[r].sched <= now
        /\ rows' = [rows EXCEPT ![r].state = "PENDING"]
        /\ UpdateCounters(rows[r].queue, "INVISIBLE", "PENDING")
     \/ /\ rows[r].state # "INVISIBLE" \/ rows[r].sched > now
        /\ UNCHANGED <<rows, counts>>
  /\ due' = [due EXCEPT ![n] = @ \ {<<r, now>>}]
  /\ UNCHANGED <<clock, queues, nextRow, nextToken, dlqTx, expired, outcome>>

-----------------------------------------------------------------------------
\* Mutant: expired heartbeats are overlooked.
ExpiredByLease(q, now) ==
  {r \in RowId : /\ rows[r].queue = q /\ rows[r].state = "RUNNING"
                 /\ rows[r].lease <= now /\ rows[r].deleted = NULL}

ExpiredRows(q, now) == {r \in RowId : rows[r].queue = q /\ IsExpired(rows[r], now)}

FindExpiredMessages(n, q) ==
  /\ expired[n] = {}
  /\ queues[q].exists
  /\ \E now \in NowMs :
       /\ ExpiredRows(q, now) # {}
       /\ \E D \in Batches(ExpiredRows(q, now)) :
            expired' = [expired EXCEPT ![n] =
              {[queue |-> q, id |-> rows[r].id, token |-> rows[r].token] : r \in D}]
  /\ UNCHANGED <<clock, queues, counts, rows, nextRow, nextToken, dlqTx, due,
                 outcome>>

\* Mutant: whatever attempt has expired by now.
StillExpiredAny(item, now) ==
  {r \in RowsOf(item.queue, item.id) : IsExpired(rows[r], now)}

\* Mutant: the attempt is still running, so it is taken to be expired.
StillRunning(item, now) ==
  {r \in RowsOf(item.queue, item.id) :
     rows[r].state = "RUNNING" /\ rows[r].token = item.token}

StillExpired(item, now) ==
  {r \in RowsOf(item.queue, item.id) :
     IsExpired(rows[r], now) /\ rows[r].token = item.token}

\* ReclaimExpiredMessage looks again, under FOR UPDATE, for the attempt that
\* had expired; an error skips the message and leaves it to a later cycle.
ReclaimExpiredMessage(n, item) ==
  /\ Writable
  /\ item \in expired[n]
  /\ \E now \in NowMs :
       LET late == StillExpired(item, now)
           LastAttempt(r) == rows[r].max # -1 /\ rows[r].attempts <= 1
           LeftOf(r) == IF rows[r].max = -1 THEN -1 ELSE rows[r].attempts - 1
           Blocked(r) == /\ LastAttempt(r)
                         /\ queues[item.queue].dlq # ""
                         /\ RowsOf(queues[item.queue].dlq, item.id) # {}
       IN  \/ \E r \in late :
                /\ ~LastAttempt(r)
                /\ rows' = [rows EXCEPT ![r] = Retried(@, LeftOf(r))]
                /\ UpdateCounters(item.queue, "RUNNING", "PENDING")
                /\ outcome' = [outcome EXCEPT ![item.token] = "reclaimed"]
           \/ \E r \in late :
                /\ LastAttempt(r)
                /\ DeadLetter(r, LeftOf(r), now)
                /\ outcome' = [outcome EXCEPT ![item.token] = "reclaimed"]
           \/ /\ \A r \in late : Blocked(r)
              /\ UNCHANGED <<rows, counts, outcome>>
  /\ expired' = [expired EXCEPT ![n] = @ \ {item}]
  /\ UNCHANGED <<clock, queues, nextRow, nextToken, dlqTx, due>>

-----------------------------------------------------------------------------
\* Mutant: only completed messages.
OutdatedCompleted(now) ==
  {r \in RowId : /\ rows[r].deleted # NULL /\ rows[r].deleted <= now
                 /\ rows[r].state = "COMPLETED"}

Outdated(now) == {r \in RowId : rows[r].deleted # NULL /\ rows[r].deleted <= now}

\* One batch of the cleanup service: rows whose deleted_at has come, in any
\* state.  FOR UPDATE SKIP LOCKED may pass over some.
CleanupExpiredBatch ==
  /\ Writable
  /\ \E now \in NowMs :
     \E D \in SUBSET Outdated(now) :
       /\ D # {} /\ Cardinality(D) <= BatchSize
       /\ rows' = [r \in RowId |-> IF r \in D THEN NoRow ELSE rows[r]]
       /\ RemoveCounters(D)
       /\ outcome' = Dropped(D)
  /\ UNCHANGED <<clock, queues, nextRow, nextToken, dlqTx, expired, due>>

=============================================================================
