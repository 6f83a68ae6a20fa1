----------------------------- MODULE Schedules ------------------------------
(***************************************************************************)
(* Recurring schedules: rows of cq_schedules that the cron processor and   *)
(* the calendar service of every replica turn into messages.  A service    *)
(* reads a list of due schedules outside any transaction and then treats   *)
(* each in a transaction of its own that locks the row (FOR UPDATE SKIP    *)
(* LOCKED, or SQLite's write lock), looks at it again, inserts the message *)
(* and advances next_run.                                                  *)
(*                                                                         *)
(* A cron rule fires at every multiple of CronPeriod, a calendar rule on   *)
(* the finitely many Dates: rules may expire.  The inserted message is     *)
(* INVISIBLE until its run time, as one posted with a delay (Messages).    *)
(***************************************************************************)
EXTENDS Integers, Sequences, FiniteSets

CONSTANTS
  Schedule,    \* schedule ids
  CronPeriod,
  Dates,       \* when the calendar rule fires
  Limits,      \* max_messages a client may ask for, 0 for has_max_messages = false
  Replica,
  Behind,      \* how far the clock of each replica is behind the fastest one
  MaxTime      \* bound: the last tick of the clock

ASSUME SchedulesAssumption ==
  /\ CronPeriod \in Nat \ {0} /\ MaxTime \in Nat
  /\ Dates \subseteq Nat /\ IsFiniteSet(Dates)
  /\ Limits \subseteq Nat
  /\ Behind \in [Replica -> Nat]

VARIABLES
  schedules,  \* cq_schedules
  todo,       \* per replica and service: what its query returned and it has yet to
              \*   treat, with the time of the query
  clock,
  posted,     \* history: the run times of the messages inserted since the creation
  quota,      \* history: how many since the creation or the last resume
  missed      \* history: the occurrences that came while the schedule was paused,
              \*   but for the one in next_run

vars == <<schedules, todo, clock, posted, quota, missed>>

Service == {"cron", "calendar"}
NULL == -1

NoSchedule == [state |-> "NONE", kind |-> "cron", next |-> NULL, limit |-> 0, count |-> 0]

\* cron.Schedule.Next: the first occurrence after time t.
CronNext(t) == (t \div CronPeriod + 1) * CronPeriod

\* CalculateNextRun, with NULL for its error ErrNoExecutionTime.
CalendarNext(t) ==
  LET later == {d \in Dates : d > t}
  IN  IF later = {} THEN NULL ELSE CHOOSE d \in later : \A e \in later : d <= e

Occurs(kind, t) == IF kind = "cron" THEN t % CronPeriod = 0 ELSE t \in Dates

NowMs(n) == IF clock > Behind[n] THEN clock - Behind[n] ELSE 0

Init ==
  /\ schedules = [s \in Schedule |-> NoSchedule]
  /\ todo = [n \in Replica |-> [k \in Service |-> {}]]
  /\ clock = 0
  /\ posted = [s \in Schedule |-> <<>>]
  /\ quota = [s \in Schedule |-> 0]
  /\ missed = [s \in Schedule |-> {}]

Tick ==
  /\ clock < MaxTime
  /\ clock' = clock + 1
  /\ missed' = [s \in Schedule |->
       IF schedules[s].state = "PAUSED" /\ schedules[s].next # clock'
          /\ Occurs(schedules[s].kind, clock')
       THEN missed[s] \cup {clock'} ELSE missed[s]]
  /\ UNCHANGED <<schedules, todo, posted, quota>>

-----------------------------------------------------------------------------
(* The API *)

\* Mutant: the state that the client sent is not checked.
CreatedUnchecked(n, kind, limit) ==
  [state |-> "UNSPECIFIED", kind |-> kind, next |-> NULL, limit |-> limit, count |-> 0]

\* The first run of a calendar is computed at once; one that has none is
\* stored as PAUSED.  A cron schedule is planned by the processor.
Created(n, kind, limit) ==
  LET first == IF kind = "cron" THEN NULL ELSE CalendarNext(NowMs(n))
  IN  [state |-> IF kind = "calendar" /\ first = NULL THEN "PAUSED" ELSE "SCHEDULED",
       kind |-> kind, next |-> first, limit |-> limit, count |-> 0]

Forgotten(gone) ==
  /\ schedules' = [s \in Schedule |-> IF s \in gone THEN NoSchedule ELSE schedules[s]]
  /\ posted' = [s \in Schedule |-> IF s \in gone THEN <<>> ELSE posted[s]]
  /\ quota' = [s \in Schedule |-> IF s \in gone THEN 0 ELSE quota[s]]
  /\ missed' = [s \in Schedule |-> IF s \in gone THEN {} ELSE missed[s]]
  /\ UNCHANGED <<todo, clock>>

CreateSchedule(s, n, kind, limit) ==
  /\ schedules[s].state = "NONE"
  /\ schedules' = [schedules EXCEPT ![s] = Created(n, kind, limit)]
  /\ UNCHANGED <<todo, clock, posted, quota, missed>>

DeleteSchedule(s) ==
  /\ schedules[s].state # "NONE"
  /\ Forgotten({s})

\* Archives the queue's schedules and deletes them with it.  (The queue may
\* be created again before the next schedule is.)
DeleteQueue ==
  /\ \E s \in Schedule : schedules[s].state # "NONE"
  /\ Forgotten(Schedule)

PauseSchedule(s) ==
  /\ schedules[s].state = "SCHEDULED"
  /\ schedules' = [schedules EXCEPT ![s].state = "PAUSED"]
  /\ UNCHANGED <<todo, clock, posted, quota, missed>>

Resumed(row) == [row EXCEPT !.state = "SCHEDULED", !.count = 0]

ResumeSchedule(s) ==
  /\ schedules[s].state = "PAUSED"
  /\ schedules' = [schedules EXCEPT ![s] = Resumed(@)]
  /\ quota' = [quota EXCEPT ![s] = 0]
  /\ UNCHANGED <<todo, clock, posted, missed>>

-----------------------------------------------------------------------------
(* The services *)

\* Mutant: a cron schedule that has not been planned is not found.
IsPlanned(k, s, now) ==
  LET row == schedules[s] IN
  /\ row.state = "SCHEDULED" /\ row.kind = k
  /\ row.next # NULL /\ row.next <= now

\* The WHERE clauses of the two queries.
IsDue(k, s, now) ==
  LET row == schedules[s] IN
  /\ row.state = "SCHEDULED"
  /\ row.kind = k
  /\ row.next <= now /\ (k = "calendar" => row.next # NULL)

CollectDue(n, k) ==
  /\ todo[n][k] = {}
  /\ todo' = [todo EXCEPT ![n][k] =
       [id : {s \in Schedule : IsDue(k, s, NowMs(n))}, now : {NowMs(n)}]]
  /\ UNCHANGED <<schedules, clock, posted, quota, missed>>

\* Mutant: off by one.
LimitPassed(row, count) == row.limit > 0 /\ count > row.limit

LimitReached(row, count) == row.limit > 0 /\ count >= row.limit

\* Outcomes of a transaction: the new row, and the run whose message it
\* inserts, NULL for none.
Writes(row) == [row |-> row, run |-> NULL]

MarkScheduleError(row) == [row EXCEPT !.state = "ERRORED", !.next = NULL]

\* The message is in; the schedule moves on to the run after the one it had.
Ran(row, next) ==
  [row |-> [row EXCEPT !.count = @ + 1, !.next = next,
              !.state = IF LimitReached(row, row.count + 1) THEN "PAUSED" ELSE @],
   run |-> row.next]

\* Mutant: the next run is counted from the present, not from the last run.
CronOutcomesFromNow(row, now) ==
  CASE row.state # "SCHEDULED" -> {Writes(row)}
    [] row.state = "SCHEDULED" /\ row.kind # "cron" -> {Writes(MarkScheduleError(row))}
    [] OTHER -> IF row.next = NULL THEN {Writes([row EXCEPT !.next = CronNext(now)])}
                ELSE IF row.next > now THEN {Writes(row)} ELSE {Ran(row, CronNext(now))}

\* Mutant: the state is not looked at again.
CronOutcomesAnyState(row, now) ==
  CASE row.kind # "cron" -> {Writes(MarkScheduleError(row))}
    [] row.kind = "cron" ->
         IF row.next = NULL THEN {Writes([row EXCEPT !.next = CronNext(now)])}
         ELSE IF row.next > now THEN {Writes(row)} ELSE {Ran(row, CronNext(row.next))}

\* processSchedule of cron_processor.go.  A schedule it did not expect is an
\* error to it.
CronOutcomes(row, now) ==
  CASE row.state # "SCHEDULED" -> {Writes(row)}
    [] row.state = "SCHEDULED" /\ row.kind # "cron" -> {Writes(MarkScheduleError(row))}
    [] OTHER ->
         IF LimitReached(row, row.count)
         THEN {Writes([row EXCEPT !.state = "PAUSED", !.next = NULL])}
         ELSE CASE row.next = NULL -> {Writes([row EXCEPT !.next = CronNext(now)])}
                [] row.next > now  -> {Writes(row)}
                [] row.next \in 0 .. now ->
                     {Writes(MarkScheduleError(row)), Ran(row, CronNext(row.next))}

\* processSchedule of calendar.go.  When there is no further run,
\* CalculateNextRun's error makes the schedule ERRORED, and the message just
\* inserted is committed with that.
CalendarOutcomes(row, now) ==
  CASE row.state # "SCHEDULED" \/ row.next = NULL \/ row.next > now -> {Writes(row)}
    [] OTHER ->
         IF LimitReached(row, row.count) THEN {Writes([row EXCEPT !.state = "PAUSED"])}
         ELSE IF row.kind = "cron" THEN {Writes(row)}
         ELSE {Writes(MarkScheduleError(row)),
               IF CalendarNext(row.next) = NULL
               THEN [row |-> MarkScheduleError(row), run |-> row.next]
               ELSE Ran(row, CalendarNext(row.next))}

\* The cron processor reads the clock again, the calendar service does not.
Outcomes(n, k, item) ==
  IF k = "cron" THEN CronOutcomes(schedules[item.id], NowMs(n))
                ELSE CalendarOutcomes(schedules[item.id], item.now)

ProcessSchedule(n, k, item) ==
  /\ item \in todo[n][k]
  /\ todo' = [todo EXCEPT ![n][k] = @ \ {item}]
  /\ \E out \in Outcomes(n, k, item) :
       /\ schedules' = [schedules EXCEPT ![item.id] = out.row]
       /\ posted' = IF out.run = NULL THEN posted
                    ELSE [posted EXCEPT ![item.id] = Append(@, out.run)]
       /\ quota' = IF out.run = NULL THEN quota ELSE [quota EXCEPT ![item.id] = @ + 1]
  /\ UNCHANGED <<clock, missed>>

\* The transaction is rolled back, or finds the row locked and skips it.
SkipSchedule(n, k, item) ==
  /\ item \in todo[n][k]
  /\ todo' = [todo EXCEPT ![n][k] = @ \ {item}]
  /\ UNCHANGED <<schedules, clock, posted, quota, missed>>

\* The replica's process ends in the middle of a cycle and is started again.
Restart(n) ==
  /\ todo' = [todo EXCEPT ![n] = [k \in Service |-> {}]]
  /\ UNCHANGED <<schedules, clock, posted, quota, missed>>

Client ==
  \/ \E s \in Schedule, n \in Replica, kind \in Service, limit \in Limits :
       CreateSchedule(s, n, kind, limit)
  \/ \E s \in Schedule : DeleteSchedule(s) \/ PauseSchedule(s) \/ ResumeSchedule(s)
  \/ DeleteQueue

Next ==
  \/ Tick
  \/ Client
  \/ \E n \in Replica, k \in Service :
       \/ CollectDue(n, k)
       \/ \E s \in Schedule, now \in 0 .. MaxTime :
            \/ ProcessSchedule(n, k, [id |-> s, now |-> now])
            \/ SkipSchedule(n, k, [id |-> s, now |-> now])
  \/ \E n \in Replica : Restart(n)

Spec == Init /\ [][Next]_vars

\* The services run on tickers.  A row is locked for the length of a short
\* transaction and errors pass: what is treated again and again succeeds.
Fairness ==
  \A n \in Replica, k \in Service :
    /\ WF_vars(CollectDue(n, k))
    /\ \A s \in Schedule : SF_vars(\E now \in 0 .. MaxTime :
                                   ProcessSchedule(n, k, [id |-> s, now |-> now]))

FairSpec == Spec /\ Fairness

-----------------------------------------------------------------------------
TypeOK ==
  /\ schedules \in [Schedule -> [state : {"NONE", "SCHEDULED", "PAUSED", "ERRORED"},
                                 kind : Service,
                                 next : {NULL} \cup Nat, limit : {0} \cup Limits, count : Nat]]
  /\ todo \in [Replica -> [Service -> SUBSET [id : Schedule, now : 0 .. MaxTime]]]
  /\ clock \in 0 .. MaxTime
  /\ posted \in [Schedule -> Seq(Nat)]
  /\ quota \in [Schedule -> Nat]
  /\ missed \in [Schedule -> SUBSET Nat]

\* However many replicas treat a schedule from however old lists, and
\* however often it is paused, resumed and retried, the messages are for
\* successive occurrences: none twice, none left out (cron_processor.go
\* 171-322, calendar.go 180-330).
EachRunOnce ==
  \A s \in Schedule : \A i \in 1 .. Len(posted[s]) :
    /\ Occurs(schedules[s].kind, posted[s][i])
    /\ i > 1 => posted[s][i] = IF schedules[s].kind = "cron"
                               THEN CronNext(posted[s][i - 1])
                               ELSE CalendarNext(posted[s][i - 1])

\* Since it was created or resumed a schedule has not posted more than
\* max_messages messages, although the counter is only looked at in a
\* transaction of each service, and is not written when a calendar ends
\* (calendar.go 224-230, 270-273).
LimitKept == \A s \in Schedule : schedules[s].limit > 0 => quota[s] <= schedules[s].limit

\* What a replica read earlier does not outlive a pause, an end at the limit
\* or an error: a message is inserted only for a schedule that is SCHEDULED,
\* and never before its time by the fastest clock.
PauseHolds ==
  [][\A s \in Schedule : Len(posted'[s]) > Len(posted[s]) =>
       schedules[s].state = "SCHEDULED" /\ posted'[s][Len(posted'[s])] <= clock]_vars

\* A schedule that has to be planned or run is, unless it is paused, deleted
\* or failed first.
Waiting(s, r) ==
  /\ schedules[s].state = "SCHEDULED" /\ schedules[s].next = r
  /\ r <= clock /\ (r = NULL => schedules[s].kind = "cron")

\* Under the fairness of the tickers, whatever else the replicas are doing,
\* a due run is posted and a new cron schedule gets its first run.
DueIsPosted ==
  \A s \in Schedule, r \in {NULL} \cup (0 .. MaxTime) : Waiting(s, r) ~> ~Waiting(s, r)

\* service.proto on ResumeSchedule: "Retains next_run; an overdue run is
\* eligible immediately after resume", "Does NOT backfill missed executions
\* during pause".
NoBackfill == \A s \in Schedule : \A i \in 1 .. Len(posted[s]) : posted[s][i] \notin missed[s]

=============================================================================
