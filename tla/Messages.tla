------------------------------ MODULE Messages ------------------------------
(***************************************************************************)
(* The message API: producers post and cancel, workers claim, renew and    *)
(* acknowledge (repository/implementation.go, postgres/messages.go).       *)
(*                                                                         *)
(* A call that fails changes nothing and is no step.  Any caller may       *)
(* present any attempt id ever issued, on any queue and message.           *)
(***************************************************************************)
EXTENDS Storage

\* Mutant: a message scheduled for the next moment is posted as visible.
NewRowVisible(q, m, max, left, sched, now) ==
  [NoRow EXCEPT !.state = IF sched > now + 1 THEN "INVISIBLE" ELSE "PENDING",
                !.queue = q, !.id = m, !.policy = queues[q].policy,
                !.attempts = left, !.max = max, !.sched = sched]

\* CreateQueueMessage: defaults and initial state of a posted message.  It
\* inherits the lease policy of the queue, if the queue has one.
NewRow(q, m, max, left, sched, now) ==
  [NoRow EXCEPT !.state = IF sched > now THEN "INVISIBLE" ELSE "PENDING",
                !.queue = q, !.id = m, !.policy = queues[q].policy,
                !.attempts = left, !.max = max, !.sched = sched]

\* The attempts_left a producer may set; left unset it is max_attempts.
AttemptsLeft(max) == IF max = -1 THEN {-1} ELSE 1..max

ScheduledTime(now) == {NULL} \cup {now + d : d \in Delay}

\* INSERT ... ON CONFLICT DO NOTHING: a duplicate id is an error.
EnqueueMessage(q, m) ==
  /\ Writable
  /\ queues[q].exists /\ ~IsDLQ(q)
  /\ RowsOf(q, m) = {}
  /\ nextRow <= MaxRows
  /\ \E now \in NowMs, max \in MaxAttemptsInput :
     \E left \in AttemptsLeft(max), sched \in ScheduledTime(now) :
       LET row == NewRow(q, m, max, left, sched, now) IN
         /\ rows' = [rows EXCEPT ![nextRow] = row]
         /\ InsertCounter(q, row.state)
  /\ nextRow' = nextRow + 1
  /\ UNCHANGED <<clock, queues, nextToken, dlqTx, expired, due, outcome>>

\* ALL_OR_NOTHING for a request of two messages: one transaction, rolled back
\* when either insert meets a duplicate.  (BEST_EFFORT is a series of
\* EnqueueMessage steps.)
EnqueueMessagesBulk(q, m1, m2) ==
  /\ Writable
  /\ queues[q].exists /\ ~IsDLQ(q)
  /\ m1 # m2 /\ RowsOf(q, m1) = {} /\ RowsOf(q, m2) = {}
  /\ nextRow + 1 <= MaxRows
  /\ \E now \in NowMs, max \in MaxAttemptsInput : \E sched \in ScheduledTime(now) :
       LET row1 == NewRow(q, m1, max, max, NULL, now)
           row2 == NewRow(q, m2, max, max, sched, now) IN
         /\ rows' = [rows EXCEPT ![nextRow] = row1, ![nextRow + 1] = row2]
         /\ counts' = AddCount(AddCount(counts, q, row1.state, 1), q, row2.state, 1)
  /\ nextRow' = nextRow + 2
  /\ UNCHANGED <<clock, queues, nextToken, dlqTx, expired, due, outcome>>

-----------------------------------------------------------------------------
\* Mutant: a message whose heartbeat has expired does not count.
HasLiveWorker(q, now) ==
  \E r \in RowId : /\ rows[r].queue = q /\ rows[r].state = "RUNNING"
                   /\ rows[r].lease > now /\ rows[r].deleted = NULL
                   /\ rows[r].hb <= 0 \/ rows[r].hb > now

\* SELECT EXISTS ... lease_expiry > now: an EXCLUSIVE queue is taken as long
\* as a lease has not run out, whether or not its heartbeat has.
HasActiveLease(q, now) ==
  \E r \in RowId : /\ rows[r].queue = q /\ rows[r].state = "RUNNING"
                   /\ rows[r].lease > now /\ rows[r].deleted = NULL

\* Mutant: claims also take delayed messages whose time has come.
ClaimableInvisible(q, now) ==
  {r \in RowId : /\ rows[r].queue = q /\ rows[r].state \in {"INVISIBLE", "PENDING"}
                 /\ rows[r].sched <= now
                 /\ rows[r].deleted = NULL
                 /\ rows[r].policy}

\* Mutant: claims also take over messages whose lease has expired.
ClaimableExpired(q, now) ==
  {r \in RowId : /\ rows[r].queue = q
                 /\ rows[r].state = "PENDING" \/ IsExpired(rows[r], now)
                 /\ rows[r].sched <= now
                 /\ rows[r].deleted = NULL
                 /\ rows[r].policy}

\* The messages a claim may return.  FOR UPDATE SKIP LOCKED passes over rows
\* that another transaction holds, and the weighted policies pick a priority
\* level at random, so any of them may be the one.  When the one selected has
\* no lease policy the claim fails.
Claimable(q, now) ==
  {r \in RowId : /\ rows[r].queue = q /\ rows[r].state = "PENDING"
                 /\ rows[r].sched <= now
                 /\ rows[r].deleted = NULL
                 /\ rows[r].policy}

\* Mutant: the attempt id is not stored.
ClaimedByNobody(row, now, duration) ==
  [row EXCEPT !.state = "RUNNING", !.start = now, !.lease = now + duration,
              !.ext = 0, !.renew = 0, !.hb = 0, !.runs = @ + 1]

\* The lease that CalculateLeaseRuntimeWithDuration and the UPDATE give a row.
Claimed(row, now, duration) ==
  [row EXCEPT !.state = "RUNNING", !.token = nextToken, !.start = now,
              !.lease = now + duration, !.ext = 0, !.renew = 0,
              !.hb = IF HeartbeatTimeout > 0 THEN now + HeartbeatTimeout ELSE 0,
              !.runs = @ + 1]

\* ClaimMessageWithLeaseDuration, with a generated attempt id.
ClaimMessage(q) ==
  /\ Writable
  /\ queues[q].exists /\ ~IsDLQ(q)
  /\ nextToken <= MaxClaims
  /\ \E now \in NowMs, duration \in LeaseDuration :
       /\ queues[q].exclusive => ~HasActiveLease(q, now)
       /\ \E r \in Claimable(q, now) :
            rows' = [rows EXCEPT ![r] = Claimed(@, now, duration)]
  /\ UpdateCounters(q, "PENDING", "RUNNING")
  /\ nextToken' = nextToken + 1
  /\ outcome' = [outcome EXCEPT ![nextToken] = "held"]
  /\ UNCHANGED <<clock, queues, nextRow, dlqTx, expired, due>>

\* AcknowledgeMessage with state COMPLETED.  heartbeat_expiry and the renewal
\* columns keep their values.
AcknowledgeMessage(q, m, t) ==
  /\ Writable
  /\ queues[q].exists
  /\ \E now \in NowMs : \E r \in OwnedRows(q, m, t, now) :
       \/ /\ HardDelete(q)
          /\ rows' = [rows EXCEPT ![r] = NoRow]
          /\ RemoveCounter(q, "RUNNING")
       \/ /\ ~HardDelete(q)
          /\ rows' = [rows EXCEPT ![r] =
               [@ EXCEPT !.state = "COMPLETED", !.deleted = DeletedAt(q, now),
                         !.token = NULL, !.start = NULL, !.lease = NULL]]
          /\ UpdateCounters(q, "RUNNING", "COMPLETED")
  /\ outcome' = [outcome EXCEPT ![t] = "acked"]
  /\ UNCHANGED <<clock, queues, nextRow, nextToken, dlqTx, expired, due>>

\* Mutant: a nack costs no attempt.
AttemptsKept(row) == row.attempts

\* AcknowledgeMessage with state ERRORED: one attempt less, -1 is unlimited.
AttemptsAfterNack(row) ==
  IF row.attempts = -1 THEN -1 ELSE row.attempts - 1

NackMessage(q, m, t) ==
  /\ Writable
  /\ queues[q].exists
  /\ \E now \in NowMs : \E r \in OwnedRows(q, m, t, now) :
       LET left      == AttemptsAfterNack(rows[r])
           exhausted == left # -1 /\ left <= 0
       IN  \/ /\ exhausted
              /\ DeadLetter(r, left, now)
           \/ /\ ~exhausted
              /\ rows' = [rows EXCEPT ![r] = Retried(@, left)]
              /\ UpdateCounters(q, "RUNNING", "PENDING")
  /\ outcome' = [outcome EXCEPT ![t] = "nacked"]
  /\ UNCHANGED <<clock, queues, nextRow, nextToken, dlqTx, expired, due>>

\* Only messages that wait; deleted_at is not looked at.
CancelMessage(q, m) ==
  /\ Writable
  /\ queues[q].exists
  /\ \E now \in NowMs, r \in RowsOf(q, m) :
       /\ rows[r].state \in {"INVISIBLE", "PENDING"}
       /\ \/ /\ HardDelete(q)
             /\ rows' = [rows EXCEPT ![r] = NoRow]
             /\ RemoveCounter(q, rows[r].state)
          \/ /\ ~HardDelete(q)
             /\ rows' = [rows EXCEPT ![r] =
                  [Released(@) EXCEPT !.state = "CANCELED",
                                      !.deleted = DeletedAt(q, now)]]
             /\ UpdateCounters(q, rows[r].state, "CANCELED")
  /\ UNCHANGED <<clock, queues, nextRow, nextToken, dlqTx, expired, due, outcome>>

-----------------------------------------------------------------------------
\* The lease columns of a renewed row.
Renewed(row, amount, hb, renewals) ==
  [row EXCEPT !.lease = @ + amount, !.ext = @ + amount, !.hb = hb, !.renew = renewals]

\* RenewMessageLease: counted even when the granted extension is capped.
ExtendMessageLease(q, m, t) ==
  /\ Writable
  /\ \E now \in NowMs, requested \in Extension : \E r \in OwnedRows(q, m, t, now) :
       LET amount == Granted(rows[r].ext, requested) IN
         /\ MaxRenewals > 0 => rows[r].renew < MaxRenewals
         /\ amount > 0
         /\ rows' = [rows EXCEPT ![r] =
              Renewed(@, amount, rows[r].hb, rows[r].renew + 1)]
  /\ UNCHANGED <<clock, queues, counts, nextRow, nextToken, dlqTx, expired, due,
                 outcome>>

\* A heartbeat also renews the lease by one step while the policy allows it.
HeartbeatMessage(q, m, t) ==
  /\ Writable
  /\ \E now \in NowMs : \E r \in OwnedRows(q, m, t, now) :
       LET hb       == IF HeartbeatTimeout > 0 THEN now + HeartbeatTimeout ELSE NULL
           canRenew == /\ MaxRenewals = 0 \/ rows[r].renew < MaxRenewals
                       /\ ExtendStep > 0 /\ rows[r].ext < MaxExtension
       IN  \/ /\ canRenew
              /\ rows' = [rows EXCEPT ![r] =
                   Renewed(@, Granted(rows[r].ext, ExtendStep), hb, rows[r].renew + 1)]
           \/ /\ ~canRenew
              /\ rows' = [rows EXCEPT ![r] = Renewed(@, 0, hb, rows[r].renew)]
  /\ UNCHANGED <<clock, queues, counts, nextRow, nextToken, dlqTx, expired, due,
                 outcome>>

=============================================================================
