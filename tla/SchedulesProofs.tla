-------------------------- MODULE SchedulesProofs ---------------------------
(***************************************************************************)
(* What the cron processor and the calendar service do with a schedule, for*)
(* any number of schedules, replicas and occurrences, any clock lags and   *)
(* limits.                                                                 *)
(*                                                                         *)
(* The state of one schedule is what its row, the runs it has posted and   *)
(* its quota say together (Sound): the next run follows the last one       *)
(* posted, and the counter is the quota until the schedule has failed.  The*)
(* outcomes of the two services come in six kinds (OutcomeKinds), each of  *)
(* which keeps a schedule Sound (OutcomeSound), from however old a list it *)
(* was chosen.                                                             *)
(***************************************************************************)
EXTENDS Schedules, TLAPS, WellFoundedInduction

Row == [state : {"NONE", "SCHEDULED", "PAUSED", "ERRORED"}, kind : Service,
        next : {NULL} \cup Nat, limit : {0} \cup Limits, count : Nat]

Following(kind, t) == IF kind = "cron" THEN CronNext(t) ELSE CalendarNext(t)

-----------------------------------------------------------------------------
(* The arithmetic of the rules *)

\* A cron rule has an occurrence after every time, and it is a multiple of
\* the period (cron.Schedule.Next).
LEMMA CronFacts ==
  ASSUME NEW t \in Nat
  PROVE  CronNext(t) \in Nat /\ CronNext(t) > t /\ CronNext(t) % CronPeriod = 0
<1> DEFINE p == CronPeriod
           q == t \div p
<1>1. p \in Nat /\ p > 0
  BY SchedulesAssumption
<1>2. q \in Nat /\ t = (q * p) + (t % p) /\ t % p \in 0 .. (p - 1)
  BY <1>1
<1>3. q + 1 \in Nat /\ (q + 1) * p = q * p + p
  BY <1>1, <1>2
<1>4. (q + 1) * p \in Nat /\ (q + 1) * p > t
  BY <1>1, <1>2, <1>3
<1>5. \A a \in Nat : (a * p) % p = 0
  BY <1>1
<1> QED
  BY <1>3, <1>4, <1>5 DEF CronNext

\* Every non-empty set of natural numbers has a least element.
LEMMA LeastExists ==
  ASSUME NEW T, T \subseteq Nat, T # {}
  PROVE  \E d \in T : \A e \in T : d <= e
<1> DEFINE R == OpToRel(<, Nat)
<1>1. IsWellFoundedOn(R, Nat)
  BY NatLessThanWellFounded
<1>2. \A x, y \in Nat : <<y, x>> \in R <=> y < x
  BY DEF OpToRel
<1> HIDE DEF R
<1>3. PICK d \in T : \A e \in T : ~ (<<e, d>> \in R)
  BY <1>1, WFMin
<1>4. ASSUME NEW e \in T
      PROVE  d <= e
  <2>1. d \in Nat /\ e \in Nat /\ ~(<<e, d>> \in R)
    BY <1>3
  <2>2. ~(e < d)
    BY <1>2, <2>1
  <2> QED
    BY <2>1, <2>2
<1> QED
  BY <1>4

\* A calendar rule that has dates left gives one of them (CalculateNextRun).
LEMMA CalendarFacts ==
  ASSUME NEW t
  PROVE  CalendarNext(t) # NULL => CalendarNext(t) \in Dates /\ CalendarNext(t) \in Nat
<1> DEFINE later == {d \in Dates : d > t}
<1>1. later \subseteq Dates /\ Dates \subseteq Nat
  BY SchedulesAssumption
<1>2. CASE later = {}
  BY <1>2 DEF CalendarNext
<1>3. CASE later # {}
  <2> DEFINE first == CHOOSE d \in later : \A e \in later : d <= e
  <2>1. CalendarNext(t) = first
    BY <1>3 DEF CalendarNext
  <2> HIDE DEF later
  <2>2. \E d \in later : \A e \in later : d <= e
    BY <1>1, <1>3, LeastExists
  <2>3. first \in later
    BY <2>2
  <2> QED
    BY <1>1, <2>1, <2>3
<1> QED
  BY <1>2, <1>3

\* Both rules: what follows a run is an occurrence.
LEMMA FollowingFacts ==
  ASSUME NEW kind \in Service, NEW t \in Nat
  PROVE  /\ Following(kind, t) \in {NULL} \cup Nat
         /\ Following(kind, t) # NULL => Occurs(kind, Following(kind, t))
         /\ kind = "cron" => Following(kind, t) # NULL
<1>1. CASE kind = "cron"
  BY <1>1, CronFacts DEF Following, Occurs, NULL
<1>2. CASE kind = "calendar"
  BY <1>2, CalendarFacts DEF Following, Occurs
<1> QED
  BY <1>1, <1>2 DEF Service

-----------------------------------------------------------------------------
(* One schedule *)

\* The runs are successive occurrences: one schedule's part of EachRunOnce.
Successive(kind, runs) ==
  \A i \in 1 .. Len(runs) :
    /\ Occurs(kind, runs[i])
    /\ i > 1 => runs[i] = IF kind = "cron" THEN CronNext(runs[i - 1])
                          ELSE CalendarNext(runs[i - 1])

\* The next run continues the runs that were posted.
Continues(row, runs) ==
  /\ row.state = "NONE" => runs = <<>>
  /\ row.next # NULL => Occurs(row.kind, row.next)
  /\ row.state # "ERRORED" /\ runs # <<>> =>
       row.next = Following(row.kind, runs[Len(runs)])
  /\ Successive(row.kind, runs)

\* The counter is the quota, but for the run that ends a calendar.
Counted(row, q) ==
  /\ row.state = "NONE" => q = 0
  /\ row.state # "ERRORED" => q = row.count
  /\ row.limit > 0 => q <= row.limit /\ (row.state = "SCHEDULED" => q < row.limit)

Sound(row, runs, q) == Continues(row, runs) /\ Counted(row, q)

RunsAfter(runs, run) == IF run = NULL THEN runs ELSE Append(runs, run)
QuotaAfter(q, run) == IF run = NULL THEN q ELSE q + 1

\* A run that is due and within the limit.
MayRun(row, now) ==
  /\ row.state = "SCHEDULED" /\ row.next \in 0 .. now
  /\ ~LimitReached(row, row.count)

\* The kinds of outcome of a transaction.
Kept(row, out) == out = Writes(row)
Failed(row, out) == row.state = "SCHEDULED" /\ out = Writes(MarkScheduleError(row))
Stopped(row, out) ==
  /\ row.state = "SCHEDULED" /\ LimitReached(row, row.count)
  /\ \/ out = Writes([row EXCEPT !.state = "PAUSED", !.next = NULL])
     \/ out = Writes([row EXCEPT !.state = "PAUSED"])
Planned(row, now, out) ==
  /\ row.state = "SCHEDULED" /\ row.kind = "cron" /\ row.next = NULL
  /\ out = Writes([row EXCEPT !.next = CronNext(now)])
Posted(row, now, out) ==
  /\ MayRun(row, now)
  /\ Following(row.kind, row.next) # NULL
  /\ out = Ran(row, Following(row.kind, row.next))
Ended(row, now, out) ==
  /\ MayRun(row, now)
  /\ out = [row |-> MarkScheduleError(row), run |-> row.next]

\* What a transaction of either service does to the row it has locked is of
\* one of six kinds (processSchedule of cron_processor.go and calendar.go).
LEMMA OutcomeKinds ==
  ASSUME NEW row \in Row, NEW now \in Nat,
         NEW out \in CronOutcomes(row, now) \cup CalendarOutcomes(row, now)
  PROVE  \/ Kept(row, out) \/ Failed(row, out) \/ Stopped(row, out)
         \/ Planned(row, now, out) \/ Posted(row, now, out) \/ Ended(row, now, out)
<1>1. row.kind \in Service /\ row.next \in {NULL} \cup Nat
  BY DEF Row
<1>2. CASE out \in CronOutcomes(row, now)
  <2>1. CASE row.state # "SCHEDULED"
    BY <1>2, <2>1 DEF CronOutcomes, Kept
  <2>2. CASE row.state = "SCHEDULED" /\ row.kind # "cron"
    BY <1>2, <2>2 DEF CronOutcomes, Failed
  <2>3. CASE row.state = "SCHEDULED" /\ row.kind = "cron"
    <3>1. CASE LimitReached(row, row.count)
      BY <1>2, <2>3, <3>1 DEF CronOutcomes, Stopped
    <3>2. CASE ~LimitReached(row, row.count) /\ row.next = NULL
      <4>1. ~(row.next > now) /\ ~(row.next \in 0 .. now)
        BY <3>2 DEF NULL
      <4>2. out \in {Writes([row EXCEPT !.next = CronNext(now)])}
        BY <1>2, <2>3, <3>2, <4>1 DEF CronOutcomes
      <4> QED
        BY <2>3, <3>2, <4>2 DEF Planned
    <3>3. CASE ~LimitReached(row, row.count) /\ row.next # NULL /\ row.next > now
      <4>1. ~(row.next \in 0 .. now)
        BY <1>1, <3>3
      <4>2. out \in {Writes(row)}
        BY <1>2, <2>3, <3>3, <4>1 DEF CronOutcomes
      <4> QED
        BY <4>2 DEF Kept
    <3>4. CASE ~LimitReached(row, row.count) /\ row.next # NULL /\ ~(row.next > now)
      <4>1. row.next \in 0 .. now /\ row.next \in Nat
        BY <1>1, <3>4
      <4>2. out \in {Writes(MarkScheduleError(row)), Ran(row, CronNext(row.next))}
        BY <1>2, <2>3, <3>4, <4>1 DEF CronOutcomes
      <4>3. MayRun(row, now)
        BY <2>3, <3>4, <4>1 DEF MayRun
      <4>4. Following(row.kind, row.next) # NULL
            /\ Following(row.kind, row.next) = CronNext(row.next)
        BY <1>1, <2>3, <4>1, FollowingFacts DEF Following
      <4> QED
        BY <2>3, <4>2, <4>3, <4>4 DEF Failed, Posted
    <3> QED
      BY <3>1, <3>2, <3>3, <3>4
  <2> QED
    BY <2>1, <2>2, <2>3
<1>3. CASE out \in CalendarOutcomes(row, now)
  <2>1. CASE row.state # "SCHEDULED" \/ row.next = NULL \/ row.next > now
    BY <1>3, <2>1 DEF CalendarOutcomes, Kept
  <2>2. CASE row.state = "SCHEDULED" /\ row.next # NULL /\ ~(row.next > now)
    <3>1. row.next \in 0 .. now /\ row.next \in Nat
      BY <1>1, <2>2
    <3>2. CASE LimitReached(row, row.count)
      BY <1>3, <2>2, <3>2 DEF CalendarOutcomes, Stopped
    <3>3. CASE ~LimitReached(row, row.count) /\ row.kind = "cron"
      BY <1>3, <2>2, <3>3 DEF CalendarOutcomes, Kept
    <3>4. CASE ~LimitReached(row, row.count) /\ row.kind # "cron"
      <4>1. MayRun(row, now)
        BY <2>2, <3>1, <3>4 DEF MayRun
      <4>2. Following(row.kind, row.next) = CalendarNext(row.next)
        BY <3>4 DEF Following
      <4>3. out \in {Writes(MarkScheduleError(row)),
                     IF CalendarNext(row.next) = NULL
                     THEN [row |-> MarkScheduleError(row), run |-> row.next]
                     ELSE Ran(row, CalendarNext(row.next))}
        BY <1>3, <2>2, <3>4 DEF CalendarOutcomes
      <4> QED
        BY <2>2, <4>1, <4>2, <4>3 DEF Failed, Posted, Ended
    <3> QED
      BY <3>2, <3>3, <3>4
  <2> QED
    BY <2>1, <2>2
<1> QED
  BY <1>2, <1>3

\* Appending the occurrence that follows keeps the runs successive.
LEMMA SuccessiveAppend ==
  ASSUME NEW kind \in Service, NEW runs \in Seq(Nat), NEW r \in Nat,
         Successive(kind, runs), Occurs(kind, r),
         runs # <<>> => r = Following(kind, runs[Len(runs)])
  PROVE  Successive(kind, Append(runs, r))
<1> DEFINE longer == Append(runs, r)
<1>1. /\ Len(longer) = Len(runs) + 1 /\ Len(runs) \in Nat
      /\ longer[Len(runs) + 1] = r
      /\ \A i \in 1 .. Len(runs) : longer[i] = runs[i]
  OBVIOUS
<1> HIDE DEF longer
<1>2. ASSUME NEW i \in 1 .. Len(longer)
      PROVE  /\ Occurs(kind, longer[i])
             /\ i > 1 => longer[i] = IF kind = "cron" THEN CronNext(longer[i - 1])
                                     ELSE CalendarNext(longer[i - 1])
  <2>1. CASE i \in 1 .. Len(runs)
    <3>1. longer[i] = runs[i] /\ (i > 1 => longer[i - 1] = runs[i - 1])
      BY <1>1, <2>1
    <3> QED
      BY <2>1, <3>1 DEF Successive
  <2>2. CASE i = Len(runs) + 1
    <3>1. longer[i] = r
      BY <1>1, <2>2
    <3>2. ASSUME i > 1
          PROVE  r = Following(kind, longer[i - 1])
      <4>1. i - 1 = Len(runs) /\ Len(runs) \in 1 .. Len(runs) /\ runs # <<>>
        BY <1>1, <2>2, <3>2
      <4>2. longer[i - 1] = runs[Len(runs)]
        BY <1>1, <4>1
      <4> QED
        BY <4>1, <4>2
    <3> QED
      BY <3>1, <3>2 DEF Following
  <2> QED
    BY <1>1, <1>2, <2>1, <2>2
<1> QED
  BY <1>2 DEF Successive, longer

\* Each kind of outcome keeps the schedule Sound, and one that inserts a
\* message does so for a SCHEDULED row and a run that is due.
LEMMA OutcomeSound ==
  ASSUME NEW row \in Row, NEW now \in Nat, NEW runs \in Seq(Nat), NEW q \in Nat,
         Sound(row, runs, q),
         NEW out \in CronOutcomes(row, now) \cup CalendarOutcomes(row, now)
  PROVE  /\ out.row \in Row /\ out.run \in {NULL} \cup Nat
         /\ Sound(out.row, RunsAfter(runs, out.run), QuotaAfter(q, out.run))
         /\ out.run # NULL => row.state = "SCHEDULED" /\ out.run <= now
<1> DEFINE run == out.run
           new == out.row
<1>1. /\ row.kind \in Service /\ row.next \in {NULL} \cup Nat /\ row.count \in Nat
      /\ row.limit \in {0} \cup Limits /\ row.limit \in Nat
  <2>1. /\ row.kind \in Service /\ row.next \in {NULL} \cup Nat /\ row.count \in Nat
        /\ row.limit \in {0} \cup Limits
    BY DEF Row
  <2>2. {0} \cup Limits \subseteq Nat
    BY SchedulesAssumption
  <2> QED
    BY <2>1, <2>2
<1>2. CASE Kept(row, out)
  <2>1. new = row /\ run = NULL
    BY <1>2 DEF Kept, Writes
  <2> QED
    BY <2>1 DEF RunsAfter, QuotaAfter
<1>3. CASE Failed(row, out)
  <2>1. /\ run = NULL /\ new \in Row /\ new.state = "ERRORED" /\ new.kind = row.kind
        /\ new.next = NULL /\ new.limit = row.limit
    BY <1>3 DEF Failed, Writes, MarkScheduleError, Row
  <2> HIDE DEF run, new
  <2> QED
    BY <2>1 DEF RunsAfter, QuotaAfter, Sound, Continues, Counted, run, new
<1>4. CASE Stopped(row, out)
  BY <1>1, <1>4 DEF Stopped, LimitReached, Sound, Counted
<1>5. CASE Planned(row, now, out)
  <2>1. CronNext(now) \in Nat /\ Occurs("cron", CronNext(now))
    BY CronFacts DEF Occurs
  <2>2. /\ run = NULL /\ new \in Row /\ new.state = row.state /\ new.kind = "cron"
        /\ new.next = CronNext(now) /\ new.limit = row.limit /\ new.count = row.count
    BY <1>5, <2>1 DEF Planned, Writes, Row
  <2>3. row.kind = "cron" /\ row.next = NULL /\ row.state = "SCHEDULED"
    BY <1>5 DEF Planned
  <2>4. runs = <<>>
    <3> SUFFICES ASSUME runs # <<>>
                 PROVE  FALSE
      OBVIOUS
    <3>1. NULL = Following("cron", runs[Len(runs)])
      BY <2>3 DEF Sound, Continues
    <3>2. runs[Len(runs)] \in Nat
      OBVIOUS
    <3> QED
      BY <3>1, <3>2, FollowingFacts DEF Service
  <2> HIDE DEF run, new
  <2> QED
    BY <2>1, <2>2, <2>3, <2>4 DEF RunsAfter, QuotaAfter, Sound, Continues, Counted, run, new
<1>6. ASSUME MayRun(row, now)
      PROVE  /\ row.next \in Nat /\ row.next # NULL /\ row.next <= now
             /\ row.state = "SCHEDULED" /\ q = row.count
             /\ row.limit > 0 => q + 1 <= row.limit
             /\ Successive(row.kind, Append(runs, row.next))
             /\ Append(runs, row.next) \in Seq(Nat)
             /\ Append(runs, row.next) # <<>>
             /\ Append(runs, row.next)[Len(Append(runs, row.next))] = row.next
  <2>1. row.next \in Nat /\ row.next # NULL /\ row.next <= now /\ row.state = "SCHEDULED"
    BY <1>6 DEF MayRun, NULL
  <2>2. q = row.count /\ (row.limit > 0 => q + 1 <= row.limit)
    BY <1>1, <1>6 DEF MayRun, LimitReached, Sound, Counted
  <2>3. Successive(row.kind, Append(runs, row.next))
    BY <1>1, <2>1, SuccessiveAppend DEF Sound, Continues
  <2>4. /\ Append(runs, row.next) \in Seq(Nat) /\ Append(runs, row.next) # <<>>
        /\ Append(runs, row.next)[Len(Append(runs, row.next))] = row.next
    BY <2>1
  <2> QED
    BY <2>1, <2>2, <2>3, <2>4
<1>7. CASE Posted(row, now, out)
  <2> DEFINE f == Following(row.kind, row.next)
             longer == Append(runs, row.next)
  <2>1. MayRun(row, now) /\ f # NULL
    BY <1>7 DEF Posted
  <2>2. f \in Nat /\ Occurs(row.kind, f)
    BY <1>1, <1>6, <2>1, FollowingFacts
  <2>3. out = Ran(row, f)
    BY <1>7 DEF Posted
  <2> HIDE DEF f
  <2>4. /\ run = row.next /\ new \in Row /\ new.kind = row.kind
        /\ new.next = f /\ new.limit = row.limit /\ new.count = row.count + 1
        /\ new.state = IF LimitReached(row, row.count + 1) THEN "PAUSED" ELSE row.state
    <3> DEFINE c == row.count + 1
               st == IF LimitReached(row, c) THEN "PAUSED" ELSE row.state
    <3>1. c \in Nat /\ st \in {"NONE", "SCHEDULED", "PAUSED", "ERRORED"}
      BY <1>1 DEF Row
    <3>2. /\ out.run = row.next
          /\ out.row = [row EXCEPT !.count = c, !.next = f, !.state = st]
      BY <2>3 DEF Ran
    <3> HIDE DEF c, st
    <3>3. f \in {NULL} \cup Nat
      BY <2>2
    <3> HIDE DEF f
    <3>4. /\ new \in Row /\ new.kind = row.kind /\ new.next = f
          /\ new.limit = row.limit /\ new.count = c /\ new.state = st
      BY <3>1, <3>2, <3>3 DEF Row
    <3> QED
      BY <3>2, <3>4 DEF c, st
  <2>5. RunsAfter(runs, run) = longer /\ QuotaAfter(q, run) = q + 1
    BY <1>6, <2>1, <2>4 DEF RunsAfter, QuotaAfter
  <2> HIDE DEF run, new, longer
  <2>6. new.state \in {"SCHEDULED", "PAUSED"}
    BY <1>6, <2>1, <2>4
  <2>7. Continues(new, longer)
    BY <1>6, <2>1, <2>2, <2>4, <2>6 DEF Continues, f, longer
  <2>8. Counted(new, q + 1)
    BY <1>1, <1>6, <2>1, <2>4, <2>6 DEF Counted, LimitReached
  <2> QED
    BY <1>6, <2>1, <2>4, <2>5, <2>7, <2>8 DEF Sound, run, new
<1>8. CASE Ended(row, now, out)
  <2> DEFINE longer == Append(runs, row.next)
  <2>1. MayRun(row, now)
    BY <1>8 DEF Ended
  <2>2. /\ run = row.next /\ new \in Row /\ new.state = "ERRORED" /\ new.kind = row.kind
        /\ new.next = NULL /\ new.limit = row.limit
    BY <1>8 DEF Ended, MarkScheduleError, Row
  <2>3. RunsAfter(runs, run) = longer /\ QuotaAfter(q, run) = q + 1
    BY <1>6, <2>1, <2>2 DEF RunsAfter, QuotaAfter
  <2> HIDE DEF run, new
  <2>4. Continues(new, longer)
    BY <1>6, <2>1, <2>2 DEF Continues
  <2>5. Counted(new, q + 1)
    BY <1>1, <1>6, <2>1, <2>2 DEF Counted
  <2> QED
    BY <1>6, <2>1, <2>2, <2>3, <2>4, <2>5 DEF Sound, run, new
<1> QED
  BY <1>2, <1>3, <1>4, <1>5, <1>7, <1>8, OutcomeKinds

-----------------------------------------------------------------------------
(* The inductive invariant *)

AllSound == \A s \in Schedule : Sound(schedules[s], posted[s], quota[s])

\* A list was not read in the future.
ListInv == \A n \in Replica, k \in Service : \A item \in todo[n][k] : item.now <= clock

SchedulesInv == TypeOK /\ AllSound /\ ListInv

\* The clock of a replica is not ahead of the fastest.
LEMMA NowFacts ==
  ASSUME TypeOK, NEW n \in Replica
  PROVE  /\ NowMs(n) \in 0 .. MaxTime /\ NowMs(n) \in Nat
         /\ NowMs(n) <= clock
<1>1. Behind[n] \in Nat /\ clock \in 0 .. MaxTime /\ MaxTime \in Nat
  BY SchedulesAssumption DEF TypeOK
<1> QED
  BY <1>1 DEF NowMs

\* A row as TypeOK has it.
LEMMA RowTyped ==
  TypeOK <=> /\ schedules \in [Schedule -> Row]
             /\ todo \in [Replica -> [Service -> SUBSET [id : Schedule, now : 0 .. MaxTime]]]
             /\ clock \in 0 .. MaxTime
             /\ posted \in [Schedule -> Seq(Nat)]
             /\ quota \in [Schedule -> Nat]
             /\ missed \in [Schedule -> SUBSET Nat]
  BY DEF TypeOK, Row

\* A schedule that does not exist is Sound.
LEMMA NoneSound ==
  NoSchedule \in Row /\ Sound(NoSchedule, <<>>, 0)
<1>1. /\ NoSchedule \in Row /\ NoSchedule.state = "NONE" /\ NoSchedule.next = NULL
      /\ NoSchedule.limit = 0 /\ NoSchedule.count = 0
  BY DEF NoSchedule, Row, Service
<1>2. Len(<<>>) = 0
  OBVIOUS
<1>3. \A k : Successive(k, <<>>)
  BY <1>2 DEF Successive
<1> QED
  BY <1>1, <1>3 DEF Sound, Continues, Counted

\* So is one that has just been created (CreateSchedule).
LEMMA CreatedSound ==
  ASSUME TypeOK, NEW n \in Replica, NEW kind \in Service, NEW limit \in Limits
  PROVE  Created(n, kind, limit) \in Row /\ Sound(Created(n, kind, limit), <<>>, 0)
<1> DEFINE first == IF kind = "cron" THEN NULL ELSE CalendarNext(NowMs(n))
           st == IF kind = "calendar" /\ first = NULL THEN "PAUSED" ELSE "SCHEDULED"
           new == Created(n, kind, limit)
<1>1. first \in {NULL} \cup Nat /\ (first # NULL => Occurs(kind, first))
  BY CalendarFacts DEF Occurs
<1>2. st \in {"PAUSED", "SCHEDULED"}
  OBVIOUS
<1>3. new = [state |-> st, kind |-> kind, next |-> first, limit |-> limit, count |-> 0]
  BY DEF Created
<1> HIDE DEF first, st, new
<1>4. /\ new \in Row /\ new.state = st /\ new.kind = kind /\ new.next = first
      /\ new.limit = limit /\ new.count = 0
  BY <1>1, <1>2, <1>3 DEF Row
<1>5. limit \in Nat
  BY SchedulesAssumption
<1>6. Successive(kind, <<>>)
  BY DEF Successive
<1>7. Continues(new, <<>>)
  BY <1>1, <1>2, <1>4, <1>6 DEF Continues
<1>8. Counted(new, 0)
  BY <1>2, <1>4, <1>5 DEF Counted
<1> QED
  BY <1>4, <1>7, <1>8 DEF Sound, new

\* The whole next-state relation keeps the invariant, one step per action.
LEMMA SchedulesStep ==
  SchedulesInv /\ [Next]_vars => SchedulesInv'
<1> SUFFICES ASSUME SchedulesInv, [Next]_vars
             PROVE  SchedulesInv'
  OBVIOUS
<1>0. /\ TypeOK /\ AllSound /\ ListInv
      /\ schedules \in [Schedule -> Row]
      /\ todo \in [Replica -> [Service -> SUBSET [id : Schedule, now : 0 .. MaxTime]]]
      /\ clock \in 0 .. MaxTime /\ MaxTime \in Nat
      /\ posted \in [Schedule -> Seq(Nat)]
      /\ quota \in [Schedule -> Nat]
      /\ missed \in [Schedule -> SUBSET Nat]
  BY RowTyped, SchedulesAssumption DEF SchedulesInv
<1>r. (/\ schedules' \in [Schedule -> Row]
       /\ todo' \in [Replica -> [Service -> SUBSET [id : Schedule, now : 0 .. MaxTime]]]
       /\ clock' \in 0 .. MaxTime
       /\ posted' \in [Schedule -> Seq(Nat)]
       /\ quota' \in [Schedule -> Nat]
       /\ missed' \in [Schedule -> SUBSET Nat]) => TypeOK'
  BY DEF TypeOK, Row
<1>a. (schedules' = schedules /\ posted' = posted /\ quota' = quota) => AllSound'
  BY <1>0 DEF AllSound
<1>l. (todo' = todo /\ clock' = clock) => ListInv'
  BY <1>0 DEF ListInv
\* The rows and histories of one schedule change.
<1>s. ASSUME NEW s \in Schedule, NEW row \in Row, NEW runs \in Seq(Nat), NEW q \in Nat,
             Sound(row, runs, q),
             schedules' = [schedules EXCEPT ![s] = row],
             posted' = [posted EXCEPT ![s] = runs],
             quota' = [quota EXCEPT ![s] = q]
      PROVE  /\ schedules' \in [Schedule -> Row] /\ posted' \in [Schedule -> Seq(Nat)]
             /\ quota' \in [Schedule -> Nat] /\ AllSound'
  <2>1. /\ schedules' \in [Schedule -> Row] /\ posted' \in [Schedule -> Seq(Nat)]
        /\ quota' \in [Schedule -> Nat]
    BY <1>0, <1>s
  <2>2. ASSUME NEW t \in Schedule
        PROVE  Sound(schedules'[t], posted'[t], quota'[t])
    <3>1. CASE t = s
      BY <1>0, <1>s, <3>1
    <3>2. CASE t # s
      <4>1. schedules'[t] = schedules[t] /\ posted'[t] = posted[t] /\ quota'[t] = quota[t]
        BY <1>0, <1>s, <3>2
      <4> QED
        BY <1>0, <4>1 DEF AllSound
    <3> QED
      BY <3>1, <3>2
  <2> QED
    BY <2>1, <2>2 DEF AllSound
<1>f. ASSUME NEW gone \in SUBSET Schedule, Forgotten(gone)
      PROVE  SchedulesInv'
  <2>1. /\ schedules' \in [Schedule -> Row] /\ posted' \in [Schedule -> Seq(Nat)]
        /\ quota' \in [Schedule -> Nat] /\ missed' \in [Schedule -> SUBSET Nat]
        /\ todo' = todo /\ clock' = clock
    BY <1>0, <1>f, NoneSound DEF Forgotten
  <2>2. ASSUME NEW t \in Schedule
        PROVE  Sound(schedules'[t], posted'[t], quota'[t])
    <3>1. CASE t \in gone
      <4>1. schedules'[t] = NoSchedule /\ posted'[t] = <<>> /\ quota'[t] = 0
        BY <1>f, <3>1 DEF Forgotten
      <4> QED
        BY <4>1, NoneSound
    <3>2. CASE t \notin gone
      <4>1. schedules'[t] = schedules[t] /\ posted'[t] = posted[t] /\ quota'[t] = quota[t]
        BY <1>f, <3>2 DEF Forgotten
      <4> QED
        BY <1>0, <4>1 DEF AllSound
    <3> QED
      BY <3>1, <3>2
  <2> QED
    BY <1>0, <1>r, <1>l, <2>1, <2>2 DEF SchedulesInv, AllSound
<1>1. CASE Tick
  <2>1. /\ clock' = clock + 1 /\ clock' \in 0 .. MaxTime /\ clock' \in Nat
        /\ schedules' = schedules /\ todo' = todo /\ posted' = posted /\ quota' = quota
    BY <1>0, <1>1 DEF Tick
  <2>2. missed' \in [Schedule -> SUBSET Nat]
    <3>1. \A s \in Schedule : missed[s] \in SUBSET Nat /\ missed[s] \cup {clock'} \in SUBSET Nat
      BY <1>0, <2>1
    <3> QED
      BY <1>1, <3>1 DEF Tick
  <2>3. ListInv'
    <3> SUFFICES ASSUME NEW n \in Replica, NEW k \in Service, NEW item \in todo[n][k]
                 PROVE  item.now <= clock'
      BY <2>1 DEF ListInv
    <3>1. item.now <= clock
      BY <1>0 DEF ListInv
    <3>2. item.now \in 0 .. MaxTime
      BY <1>0
    <3> QED
      BY <1>0, <2>1, <3>1, <3>2
  <2> QED
    BY <1>0, <1>r, <1>a, <2>1, <2>2, <2>3 DEF SchedulesInv
<1>2. ASSUME NEW s \in Schedule, NEW n \in Replica, NEW kind \in Service,
             NEW limit \in Limits, CreateSchedule(s, n, kind, limit)
      PROVE  SchedulesInv'
  <2> DEFINE new == Created(n, kind, limit)
  <2>1. new \in Row /\ Sound(new, <<>>, 0)
    BY <1>0, CreatedSound
  <2>2. posted[s] = <<>> /\ quota[s] = 0
    <3>1. Sound(schedules[s], posted[s], quota[s]) /\ schedules[s].state = "NONE"
      BY <1>0, <1>2 DEF AllSound, CreateSchedule
    <3> QED
      BY <3>1 DEF Sound, Continues, Counted
  <2>3. schedules' = [schedules EXCEPT ![s] = new]
    BY <1>2 DEF CreateSchedule
  <2> HIDE DEF new
  <2>4. /\ todo' = todo /\ clock' = clock /\ missed' = missed
        /\ posted' = [posted EXCEPT ![s] = <<>>] /\ quota' = [quota EXCEPT ![s] = 0]
    BY <1>0, <1>2, <2>2 DEF CreateSchedule
  <2>5. <<>> \in Seq(Nat) /\ 0 \in Nat
    OBVIOUS
  <2>6. /\ schedules' \in [Schedule -> Row] /\ posted' \in [Schedule -> Seq(Nat)]
        /\ quota' \in [Schedule -> Nat] /\ AllSound'
    BY <1>s, <2>1, <2>3, <2>4, <2>5
  <2> QED
    BY <1>0, <1>r, <1>l, <2>4, <2>6 DEF SchedulesInv
<1>3. ASSUME NEW s \in Schedule, DeleteSchedule(s)
      PROVE  SchedulesInv'
  BY <1>f, <1>3 DEF DeleteSchedule
<1>4. CASE DeleteQueue
  BY <1>f, <1>4 DEF DeleteQueue
<1>5. ASSUME NEW s \in Schedule, PauseSchedule(s)
      PROVE  SchedulesInv'
  <2> DEFINE old == schedules[s]
             new == [old EXCEPT !.state = "PAUSED"]
  <2>1. old \in Row /\ old.state = "SCHEDULED" /\ Sound(old, posted[s], quota[s])
    BY <1>0, <1>5 DEF AllSound, PauseSchedule
  <2>2. schedules' = [schedules EXCEPT ![s] = new]
    BY <1>5 DEF PauseSchedule
  <2> HIDE DEF old
  <2>3. /\ new \in Row /\ new.state = "PAUSED" /\ new.kind = old.kind /\ new.next = old.next
        /\ new.limit = old.limit /\ new.count = old.count
    BY <2>1 DEF Row
  <2> HIDE DEF new
  <2>4. Sound(new, posted[s], quota[s])
    BY <2>1, <2>3 DEF Sound, Continues, Counted
  <2>5. /\ todo' = todo /\ clock' = clock /\ missed' = missed
        /\ posted' = [posted EXCEPT ![s] = posted[s]] /\ quota' = [quota EXCEPT ![s] = quota[s]]
        /\ posted[s] \in Seq(Nat) /\ quota[s] \in Nat
    BY <1>0, <1>5 DEF PauseSchedule
  <2>6. /\ schedules' \in [Schedule -> Row] /\ posted' \in [Schedule -> Seq(Nat)]
        /\ quota' \in [Schedule -> Nat] /\ AllSound'
    BY <1>s, <2>2, <2>3, <2>4, <2>5
  <2> QED
    BY <1>0, <1>r, <1>l, <2>5, <2>6 DEF SchedulesInv
<1>6. ASSUME NEW s \in Schedule, ResumeSchedule(s)
      PROVE  SchedulesInv'
  <2> DEFINE old == schedules[s]
             new == Resumed(old)
  <2>1. old \in Row /\ old.state = "PAUSED" /\ Sound(old, posted[s], quota[s])
    BY <1>0, <1>6 DEF AllSound, ResumeSchedule
  <2>2. schedules' = [schedules EXCEPT ![s] = new]
    BY <1>6 DEF ResumeSchedule
  <2> HIDE DEF old
  <2>3. /\ new \in Row /\ new.state = "SCHEDULED" /\ new.kind = old.kind
        /\ new.next = old.next /\ new.limit = old.limit /\ new.count = 0
    BY <2>1 DEF Row, Resumed
  <2> HIDE DEF new
  <2>4. new.limit \in {0} \cup Limits /\ {0} \cup Limits \subseteq Nat
    BY <2>3, SchedulesAssumption DEF Row
  <2>5. Sound(new, posted[s], 0)
    BY <2>1, <2>3, <2>4 DEF Sound, Continues, Counted
  <2>6. /\ todo' = todo /\ clock' = clock /\ missed' = missed
        /\ posted' = [posted EXCEPT ![s] = posted[s]] /\ quota' = [quota EXCEPT ![s] = 0]
        /\ posted[s] \in Seq(Nat) /\ 0 \in Nat
    BY <1>0, <1>6 DEF ResumeSchedule
  <2>7. /\ schedules' \in [Schedule -> Row] /\ posted' \in [Schedule -> Seq(Nat)]
        /\ quota' \in [Schedule -> Nat] /\ AllSound'
    BY <1>s, <2>2, <2>3, <2>5, <2>6
  <2> QED
    BY <1>0, <1>r, <1>l, <2>6, <2>7 DEF SchedulesInv
\* The lists: what is written to one is of the right type and not of the future.
<1>t. ASSUME NEW n \in Replica, NEW k \in Service, NEW list,
             list \subseteq [id : Schedule, now : 0 .. MaxTime],
             \A item \in list : item.now <= clock,
             todo' = [todo EXCEPT ![n][k] = list], clock' = clock
      PROVE  /\ todo' \in [Replica -> [Service -> SUBSET [id : Schedule, now : 0 .. MaxTime]]]
             /\ ListInv'
  <2>1. todo' \in [Replica -> [Service -> SUBSET [id : Schedule, now : 0 .. MaxTime]]]
    BY <1>0, <1>t
  <2>2. ASSUME NEW m \in Replica, NEW j \in Service, NEW item \in todo'[m][j]
        PROVE  item.now <= clock'
    <3>1. CASE m = n /\ j = k
      BY <1>0, <1>t, <2>2, <3>1
    <3>2. CASE ~(m = n /\ j = k)
      <4>1. item \in todo[m][j]
        BY <1>0, <1>t, <2>2, <3>2
      <4> QED
        BY <1>0, <1>t, <4>1 DEF ListInv
    <3> QED
      BY <3>1, <3>2
  <2> QED
    BY <2>1, <2>2 DEF ListInv
<1>7. ASSUME NEW n \in Replica, NEW k \in Service, CollectDue(n, k)
      PROVE  SchedulesInv'
  <2> DEFINE now == NowMs(n)
             list == [id : {s \in Schedule : IsDue(k, s, now)}, now : {now}]
  <2>1. now \in 0 .. MaxTime /\ now <= clock
    BY <1>0, NowFacts
  <2>2. todo' = [todo EXCEPT ![n][k] = list]
    BY <1>7 DEF CollectDue
  <2> HIDE DEF now
  <2>3. list \subseteq [id : Schedule, now : 0 .. MaxTime]
    BY <2>1
  <2>4. \A item \in list : item.now <= clock
    BY <2>1
  <2> HIDE DEF list
  <2>5. /\ clock' = clock /\ schedules' = schedules /\ posted' = posted /\ quota' = quota
        /\ missed' = missed
    BY <1>7 DEF CollectDue
  <2>6. /\ todo' \in [Replica -> [Service -> SUBSET [id : Schedule, now : 0 .. MaxTime]]]
        /\ ListInv'
    BY <1>t, <2>2, <2>3, <2>4, <2>5
  <2> QED
    BY <1>0, <1>r, <1>a, <2>5, <2>6 DEF SchedulesInv
<1>8. ASSUME NEW n \in Replica, NEW k \in Service, NEW s \in Schedule, NEW now \in 0 .. MaxTime,
             todo' = [todo EXCEPT ![n][k] = @ \ {[id |-> s, now |-> now]}], clock' = clock
      PROVE  /\ todo' \in [Replica -> [Service -> SUBSET [id : Schedule, now : 0 .. MaxTime]]]
             /\ ListInv'
  <2> DEFINE list == todo[n][k] \ {[id |-> s, now |-> now]}
  <2>1. todo' = [todo EXCEPT ![n][k] = list]
    BY <1>8
  <2>2. list \subseteq [id : Schedule, now : 0 .. MaxTime]
    BY <1>0
  <2>3. \A item \in list : item.now <= clock
    BY <1>0 DEF ListInv
  <2> HIDE DEF list
  <2> QED
    BY <1>t, <1>8, <2>1, <2>2, <2>3
<1>9. ASSUME NEW n \in Replica, NEW k \in Service, NEW s \in Schedule, NEW now \in 0 .. MaxTime,
             SkipSchedule(n, k, [id |-> s, now |-> now])
      PROVE  SchedulesInv'
  <2>1. /\ todo' = [todo EXCEPT ![n][k] = @ \ {[id |-> s, now |-> now]}]
        /\ clock' = clock /\ schedules' = schedules /\ posted' = posted /\ quota' = quota
        /\ missed' = missed
    BY <1>9 DEF SkipSchedule
  <2> QED
    BY <1>0, <1>r, <1>a, <1>8, <2>1 DEF SchedulesInv
<1>10. ASSUME NEW n \in Replica, NEW k \in Service, NEW s \in Schedule, NEW now \in 0 .. MaxTime,
              ProcessSchedule(n, k, [id |-> s, now |-> now])
       PROVE  SchedulesInv'
  <2> DEFINE item == [id |-> s, now |-> now]
             old == schedules[s]
  <2>1. /\ todo' = [todo EXCEPT ![n][k] = @ \ {[id |-> s, now |-> now]}]
        /\ clock' = clock /\ missed' = missed
    BY <1>10 DEF ProcessSchedule
  <2>2. PICK out \in Outcomes(n, k, item) :
          /\ schedules' = [schedules EXCEPT ![s] = out.row]
          /\ posted' = IF out.run = NULL THEN posted
                       ELSE [posted EXCEPT ![s] = Append(@, out.run)]
          /\ quota' = IF out.run = NULL THEN quota ELSE [quota EXCEPT ![s] = @ + 1]
    BY <1>10 DEF ProcessSchedule
  <2>3. /\ old \in Row /\ posted[s] \in Seq(Nat) /\ quota[s] \in Nat
        /\ Sound(old, posted[s], quota[s])
    BY <1>0 DEF AllSound
  <2>4. PICK time \in Nat : out \in CronOutcomes(old, time) \cup CalendarOutcomes(old, time)
    <3>1. NowMs(n) \in Nat /\ now \in Nat
      BY <1>0, NowFacts
    <3> QED
      BY <2>2, <3>1 DEF Outcomes
  <2> DEFINE runs == RunsAfter(posted[s], out.run)
             q == QuotaAfter(quota[s], out.run)
  <2>5. out.row \in Row /\ out.run \in {NULL} \cup Nat /\ Sound(out.row, runs, q)
    <3> HIDE DEF old
    <3> QED
      BY <2>3, <2>4, OutcomeSound
  <2>6. posted' = [posted EXCEPT ![s] = runs] /\ quota' = [quota EXCEPT ![s] = q]
    BY <1>0, <2>2 DEF RunsAfter, QuotaAfter
  <2>7. runs \in Seq(Nat) /\ q \in Nat
    BY <2>3, <2>5 DEF RunsAfter, QuotaAfter
  <2> HIDE DEF runs, q
  <2>8. /\ schedules' \in [Schedule -> Row] /\ posted' \in [Schedule -> Seq(Nat)]
        /\ quota' \in [Schedule -> Nat] /\ AllSound'
    BY <1>s, <2>2, <2>5, <2>6, <2>7
  <2> QED
    BY <1>0, <1>r, <1>8, <2>1, <2>8 DEF SchedulesInv
<1>11. ASSUME NEW n \in Replica, Restart(n)
       PROVE  SchedulesInv'
  <2>1. /\ todo' = [todo EXCEPT ![n] = [k \in Service |-> {}]]
        /\ clock' = clock /\ schedules' = schedules /\ posted' = posted /\ quota' = quota
        /\ missed' = missed
    BY <1>11 DEF Restart
  <2>2. todo' \in [Replica -> [Service -> SUBSET [id : Schedule, now : 0 .. MaxTime]]]
    BY <1>0, <2>1
  <2>3. ASSUME NEW m \in Replica, NEW j \in Service
        PROVE  todo'[m][j] \subseteq todo[m][j]
    BY <1>0, <2>1
  <2>4. ListInv'
    BY <1>0, <2>1, <2>3 DEF ListInv
  <2> QED
    BY <1>0, <1>r, <1>a, <2>1, <2>2, <2>4 DEF SchedulesInv
<1>12. CASE UNCHANGED vars
  <2>1. /\ todo' = todo /\ clock' = clock /\ schedules' = schedules /\ posted' = posted
        /\ quota' = quota /\ missed' = missed
    BY <1>12 DEF vars
  <2> QED
    BY <1>0, <1>r, <1>a, <1>l, <2>1 DEF SchedulesInv
<1>13. CASE Client
  BY <1>2, <1>3, <1>4, <1>5, <1>6, <1>13 DEF Client
<1> QED
  BY <1>1, <1>7, <1>9, <1>10, <1>11, <1>12, <1>13 DEF Next

\* The invariant holds initially.
LEMMA SchedulesInit ==
  Init => SchedulesInv
<1> SUFFICES ASSUME Init
             PROVE  SchedulesInv
  OBVIOUS
<1>1. /\ schedules \in [Schedule -> Row] /\ posted \in [Schedule -> Seq(Nat)]
      /\ quota \in [Schedule -> Nat] /\ missed \in [Schedule -> SUBSET Nat]
  BY NoneSound DEF Init
<1>2. todo \in [Replica -> [Service -> SUBSET [id : Schedule, now : 0 .. MaxTime]]]
  BY DEF Init
<1>3. clock \in 0 .. MaxTime
  BY SchedulesAssumption DEF Init
<1>4. AllSound
  BY NoneSound DEF Init, AllSound
<1>5. ListInv
  BY DEF Init, ListInv
<1> QED
  BY <1>1, <1>2, <1>3, <1>4, <1>5, RowTyped DEF SchedulesInv

\* So it always holds.
LEMMA SchedulesAlways ==
  Spec => []SchedulesInv
  BY SchedulesInit, SchedulesStep, PTL DEF Spec

\* Every transaction of the cron processor and the calendar service, every
\* request and every restart keeps the types of cq_schedules and of the lists.
THEOREM SchedulesTyped ==
  Spec => []TypeOK
<1>1. SchedulesInv => TypeOK
  BY DEF SchedulesInv
<1> QED
  BY <1>1, SchedulesAlways, PTL

\* For any number of replicas with clocks as far behind as they may be, and
\* lists as old as they may be, the messages of a schedule are for successive
\* occurrences: next_run is moved on in the transaction that inserts the
\* message, from the run itself and never from the clock.
THEOREM RunsOnce ==
  Spec => []EachRunOnce
<1>1. SchedulesInv => EachRunOnce
  BY DEF SchedulesInv, AllSound, Sound, Continues, Successive, EachRunOnce
<1> QED
  BY <1>1, SchedulesAlways, PTL

\* max_messages is kept between a creation or a resume and the next, for any
\* limit: the transaction that reaches it pauses the schedule, so the counter
\* that the next one looks at is below it.
THEOREM LimitRespected ==
  Spec => []LimitKept
<1>1. SchedulesInv => LimitKept
  BY DEF SchedulesInv, AllSound, Sound, Counted, LimitKept
<1> QED
  BY <1>1, SchedulesAlways, PTL

\* A message is inserted only for a schedule that is SCHEDULED when its row is
\* locked, and only for a run whose time has come by the fastest clock, both
\* by the service that reads the clock again and by the one that does not.
THEOREM PauseRespected ==
  Spec => PauseHolds
<1> DEFINE Step == \A s \in Schedule : Len(posted'[s]) > Len(posted[s]) =>
                     schedules[s].state = "SCHEDULED" /\ posted'[s][Len(posted'[s])] <= clock
<1>1. ASSUME SchedulesInv, Next
      PROVE  Step
  <2>0. /\ TypeOK /\ AllSound /\ ListInv
        /\ schedules \in [Schedule -> Row] /\ posted \in [Schedule -> Seq(Nat)]
        /\ clock \in 0 .. MaxTime /\ MaxTime \in Nat /\ quota \in [Schedule -> Nat]
    BY <1>1, RowTyped, SchedulesAssumption DEF SchedulesInv
  <2>1. CASE posted' = posted
    BY <2>0, <2>1
  <2>2. ASSUME NEW gone \in SUBSET Schedule, Forgotten(gone)
        PROVE  Step
    <3> SUFFICES ASSUME NEW s \in Schedule
                 PROVE  ~(Len(posted'[s]) > Len(posted[s]))
      OBVIOUS
    <3>1. posted'[s] = <<>> \/ posted'[s] = posted[s]
      BY <2>2 DEF Forgotten
    <3>2. Len(<<>>) = 0 /\ Len(posted[s]) \in Nat
      BY <2>0
    <3> QED
      BY <3>1, <3>2
  <2>3. ASSUME NEW n \in Replica, NEW k \in Service, NEW s \in Schedule,
               NEW now \in 0 .. MaxTime, ProcessSchedule(n, k, [id |-> s, now |-> now])
        PROVE  Step
    <3> DEFINE item == [id |-> s, now |-> now]
               old == schedules[s]
               time == IF k = "cron" THEN NowMs(n) ELSE now
    <3>1. item \in todo[n][k]
      BY <2>3 DEF ProcessSchedule
    <3>2. PICK out \in Outcomes(n, k, item) :
            posted' = IF out.run = NULL THEN posted
                      ELSE [posted EXCEPT ![s] = Append(@, out.run)]
      BY <2>3 DEF ProcessSchedule
    <3>3. time \in Nat /\ time <= clock
      <4>1. now <= clock
        BY <2>0, <3>1 DEF ListInv
      <4> QED
        BY <2>0, <4>1, NowFacts
    <3>4. out \in CronOutcomes(old, time) \cup CalendarOutcomes(old, time)
      BY <3>2 DEF Outcomes
    <3>5. old \in Row /\ posted[s] \in Seq(Nat) /\ quota[s] \in Nat
          /\ Sound(old, posted[s], quota[s])
      BY <2>0 DEF AllSound
    <3> HIDE DEF time, old
    <3>6. /\ out.run \in {NULL} \cup Nat
          /\ out.run # NULL => old.state = "SCHEDULED" /\ out.run <= time
      BY <3>3, <3>4, <3>5, OutcomeSound
    <3>7. CASE out.run = NULL
      BY <2>1, <3>2, <3>7
    <3>8. CASE out.run # NULL
      <4>1. ASSUME NEW t \in Schedule, Len(posted'[t]) > Len(posted[t])
            PROVE  schedules[t].state = "SCHEDULED" /\ posted'[t][Len(posted'[t])] <= clock
        <5>1. t = s
          <6> SUFFICES ASSUME t # s
                       PROVE  FALSE
            OBVIOUS
          <6>1. posted'[t] = posted[t] /\ Len(posted[t]) \in Nat
            BY <2>0, <3>2, <3>8
          <6> QED
            BY <4>1, <6>1
        <5>2. posted'[t] = Append(posted[s], out.run)
          BY <2>0, <3>2, <3>8, <5>1
        <5>3. posted'[t][Len(posted'[t])] = out.run
          BY <3>5, <3>6, <5>2
        <5>4. out.run <= clock
          BY <2>0, <3>3, <3>6, <3>8
        <5> QED
          BY <3>6, <3>8, <5>1, <5>3, <5>4 DEF old
      <4> QED
        BY <4>1
    <3> QED
      BY <3>7, <3>8
  <2>4. CASE Client
    <3>1. ASSUME NEW s \in Schedule, DeleteSchedule(s)
          PROVE  Step
      BY <2>2, <3>1 DEF DeleteSchedule
    <3>2. CASE DeleteQueue
      BY <2>2, <3>2 DEF DeleteQueue
    <3> QED
      BY <2>1, <2>4, <3>1, <3>2 DEF Client, CreateSchedule, PauseSchedule, ResumeSchedule
  <2> QED
    BY <1>1, <2>1, <2>3, <2>4 DEF Next, Tick, CollectDue, SkipSchedule, Restart
<1>2. SchedulesInv /\ [Next]_vars => [Step]_vars
  BY <1>1
<1> QED
  BY <1>2, SchedulesAlways, PTL DEF Spec, PauseHolds

=============================================================================
