# Nzovu: TLA+ specifications and proofs

Nzovu is a persistent message queue with supervised workers. Servers (replicas)
share one database, SQLite or PostgreSQL; producers post messages, workers claim
them under a lease that they renew, and background services of every replica
bring back what workers lost and post what schedules ask for. There is no other
coordination than the database: each API call and each background step is a short
transaction, and between two transactions anything may happen. The repository
also holds a full application on top of the queue, the interview platform
(`examples/interview-platform`): a backend with workers, and a dashboard whose
pages poll, listen to events and act, all asynchronously.

The specifications model the transactions of the servers and the event handlers,
requests and timers of the browser tabs.

## The system's parts

| Part | State | Operations | What is hard | What makes it correct |
|---|---|---|---|---|
| Storage (`repository/{postgres,sqlite}`, `repository/sql`) | `cq_queues` with per-state counters, `cq_messages` | counters, lease arithmetic, clock | counters are incremental; time is read in the server, before the statement | counters equal the rows, leases within policy |
| Queue administration | queue metadata, DLQ names | create (with DLQ), delete (cascade) | deletion under running attempts and stale lists | nothing survives its queue; counters |
| Message API | message rows, current attempt | post, bulk post, claim, ack, nack, cancel, renew, heartbeat | late calls of stale workers, the edge at the expiry, exclusive queues | one owner, an attempt ends once, attempts bounded |
| Dead-letter queues | ERRORED rows in another queue | requeue, delete, purge | SELECT and write of one transaction interleave with others | counters, state diagram |
| Reclaimer | a list of expired messages per cycle | find, reclaim | the list is stale when used; several replicas | a live lease is safe; expired is eventually reclaimed |
| Scheduler | a list of due messages per cycle | collect, activate | the same | no early delivery; due is eventually visible |
| Cleaner | – | batch delete by `deleted_at` | deletes in any state | only processed messages carry `deleted_at` |
| Recurring schedules (cron, calendar) | `cq_schedules`; a list of due ids per service and cycle | create, delete, pause, resume; collect, process | two services on every replica, stale lists, ids created again, limits, errors after the insertion | each occurrence once and in order, within the limit, not while paused, eventually |
| Platform: event stream | a tab's connection and timer, the server's channels | connect, give up, retry, unmount; broadcast | lost events, timers that outlive the page | no stray connection; it comes back |
| Platform: query cache | data, mark and fetch of every query | fetch, refetch, invalidate | answers that are older than an announcement | an announced update is fetched |
| Platform: interviews | the table, the scheduling messages, the worker | create, update, cancel, start, complete; schedule | worker and API write without looking | (no promise is documented) |
| Platform: interview pages | page, dialogs, handlers per tab | poll, filter, open, confirm, refresh | handlers that run on while pages, events and polls change the cache | own action shown, list catches up, buttons come back |
| Platform: forms and toasts | fields kept twice, date, submission, toasts | edit, submit, navigate; add, dismiss, remove | lists out of step with fields, late timers, lost answers | what is sent is valid; nothing gets stuck |
| Platform: evaluations, reports, queues, start page | tables, worker messages, queries of the pages | create, update, generate, send, download; poll | two requests for one page, stale buttons, failures | lists consistent, offers good, pages catch up |
| Calendar engine, priority weighting, schema registry, validators, encryption, gateway, client, CLI, web UI, widgets | see `PROJECT.json` | | | not modelled, reasons there |

The servers' components interact through the tables only. The API
(`pkg/nzovu/server.go`) calls `repository/implementation.go`, which validates and
calls one backend method; the background services are started by
`NewSQLiteStorage` and `NewPostgresStorage` and run on tickers (1 s, 5 s, 1 h). The
platform's backend and workers are clients of the queue and share a table; the
tabs call the backend's API and get its events.

## Modules

```
Storage          tables, counters, clock, lease arithmetic, shared row updates
  Queues         CreateQueue, DeleteQueue
  Messages       the message API
  DLQ            requeue, delete, purge
  Background     scheduler, reclaimer, cleaner
    Nzovu        Init, Next, fairness, all properties   (EXTENDS the four)
      MCNzovu    queue configurations for TLC
      NzovuProofs  types, owners, leases: the kinds of step
        NzovuRowProofs  rows and storage: what each action does
          NzovuSafetyProofs  delivery, leases, attempts, retention, counters
            NzovuLifecycleProofs  the refinement of MessageLifecycle
MessageLifecycle the abstract specification: the state diagram of message.proto
Schedules        cron and calendar schedules          MCSchedules: clocks
  SchedulesProofs
EventStream      useSSE and the broadcaster
  Interviews     the interview backend and its worker
    InterviewPages  list and detail pages in every tab   (also EXTENDS QueryCache)
      InterviewProofs
QueryCache       the dashboard's queries, SSEProvider
Reviews          the evaluation and report backend and its workers
  ReviewPages    evaluations, reports, queues, start page (also EXTENDS QueryCache)
    MCReviewPages   which pages a user goes between
    ReviewProofs
Toasts           the toast store
  FormPages      the two forms                        MCFormPages: words, days
    FormProofs
```

### Queues and messages

- `rows` is `cq_messages` by primary key; `NoRow` is a key that is not in the
  table. Columns no statement compares (payload, timestamps for display) are
  left out. `current_attempt_id` and `current_worker_id` are always set, compared and
  cleared together, so one `token` stands for both. `token`, `lease`, `hb`,
  `sched` and `deleted` are -1 for SQL's NULL. `runs` is a history counter.
- `queues` and `counts` are `cq_queues`, `counts` being `state_counts`.
- `expired[n]` and `due[n]` are local variables of replica `n`'s services: what
  the query returned and the loop has not treated yet.
- `dlqTx[x]` is a DLQ transaction between its SELECT and its write.
- `outcome[t]` is a history variable: how attempt `t` ended.

One transaction is one action, with two exceptions that matter. The scheduler
and the reclaimer read a list outside any transaction; reading and treating are
separate actions. And `RetryDLQMessage`/`DeleteDLQMessage` read without
`FOR UPDATE`, so under PostgreSQL (`SerialWriters = FALSE`) their SELECT and
their write are separate, while under SQLite (`_txlock=immediate`,
`SerialWriters = TRUE`) no writer comes in between. Other transactions lock the
rows they read (`FOR UPDATE`, `FOR UPDATE SKIP LOCKED`, a conditional UPDATE) or
the table, which makes them atomic. A call that fails changes nothing and is no
step. A skipped locked row is modelled by letting the query leave out rows.

Time: `clock` is real time on a coarse scale. A statement uses a time in
`NowMs`, at most `ClockLag` behind, because it was read before the statement was
sent and on another machine. A claim reads the clock up to three times; one
reading stands for them. `ClockLag = 0` is one clock and instant statements.

Both backends run the same statements, apart from locking. In the map of
`PROJECT.json` the actions name the PostgreSQL code and the helpers they share
the SQLite code, so that together they name both.

`MessageLifecycle` knows only messages, their state and their owner. `Nzovu`
implements it under the mapping `Lifecycle` (`FollowsLifecycle`): a row is `NEW`
before its key is given out and `GONE` after it is deleted, its owner is its
token while it is RUNNING.

### Schedules

`schedules` is `cq_schedules` (`next` is `next_run`, -1 for NULL, `count` is
`execution_count`). `todo[n][k]` is the list that service `k` of replica `n` has read
and not treated; each item carries the time of the query, which the calendar
service uses again while the cron processor reads the clock anew. Collecting is
one action and treating a schedule another, a transaction that locks the row:
`CronOutcomes` and `CalendarOutcomes` give what it may write, one outcome for each
return of the two `processSchedule` functions. Errors that depend on data the
model leaves out (an unparsable expression, a payload that cannot be decoded)
are an additional outcome that marks the schedule ERRORED. A rolled-back
transaction and a row that is locked are `SkipSchedule`; a replica may restart
and forget its lists. A cron rule fires at every multiple of `CronPeriod`; a
calendar rule on `Dates`, after which `CalculateNextRun` fails as in the code. The
posted message is an INVISIBLE one, as a delayed message in `Messages`; here only
its run time is recorded, in the history `posted`. `quota` and `missed` are histories
too.

### The dashboard

`QueryCache` has one entry per query key: its data, the mark of
`invalidateQueries`, whether the last fetch failed, and the fetch under way, which
is first *asked*, then *answered* (it carries the server's state of that
moment), then arrives or fails. So answers age on their way and events overtake
them. TanStack Query is external; what the pages rely on is modelled: a timer
keeps a fetch that is under way, `invalidateQueries` and `refetch` replace it unless
there is no data yet, an answer clears the mark, a new observer fetches when data
is missing, marked or older than `staleTime`. The one retry of a query is part of
its failure. `InvalidatedBy` is the table of `SSEProvider`.

`EventStream` has a record per tab with the fields of the hook's refs, the ready
state of every `EventSource` it created, and the buffered channel of the server's
client for each. The browser reconnects a broken stream by itself and closes one
that is refused, as the EventSource standard says; a broadcast skips full
channels.

`Interviews` has the status of every interview (the handlers write it without
looking at the old one) and the scheduling worker, step by step, with a message
that may be delivered again. A handler of the API writes its row in one step and
broadcasts the event in another (`Broadcasts`): in between, its event is in `unsent`,
and the server may answer requests and broadcast other events first. `InterviewPages`
composes the three. Its history `told` has, for each query of a tab, the newest
write that an event or an answer to the tab's own action told it of. An update that
is `Overtaken` is not entered there: it reaches the tab between the server's older answer
and the arrival of that answer, which the library keeps because it is the query's
first or no page observes it (see the deviations). A handler of
the detail page is a small process: request, served, refresh of the detail
query, refresh of the lists, end; it runs on when its page is left. What a page
shows is an operator of its cache entry (`ListView`, `DetailView`), and only
what it shows can be clicked.

`FormPages` has, for both forms, the arrays that are sent and whether the joined
field that is validated has text, and the date in seconds of local time, on which
JavaScript's setters carry over. `Gaps` are the hours that the clocks skip where
summer time begins: every setter makes of a time in one the time an hour later. The
hour that the clocks repeat in autumn is once in the model, and skips of another
length than an hour are left out. Validation and the beginning of the submission are one step,
as no browser event comes in between; the request, its answer and the navigation
are steps of their own. `Toasts` follows the reducer and the timers; `Array.filter`, which both use, is
`Without`.

`Reviews` and `ReviewPages` treat the polled pages. A query of the evaluations
page sends two requests that are answered independently, each with at most a page of
evaluations. There is one worker per queue. It takes a message, reads its row
(`ReadsEvaluation`, `ReadsReport`) and writes it (`SetsCompleted`, `SetsReady`) in three
steps, between which the API may change the row; a row that cannot be read is
acknowledged without being processed, one that cannot be written is not. A *tour* names
the pages that the user goes between in a behaviour, the queries that are followed and
how many evaluations, reports and updates there are: queries do not affect each other,
so that each is checked with its own page, its events and its failures. `AdminRetry` is external: the platform never makes a report
ready by itself (see below), and an operator can.

## Runs

Each property is described where it is defined.

| Run | Instance | Checks |
|---|---|---|
| `lifecycle` | `orders` with DLQ, both deleted and created again, 2 ids, max_attempts 2, delays, a DLQ session, SQLite | `TypeOK`, `CountersMatchRows`, `AttemptsBounded`, `TerminalIsFinal`, `FollowsLifecycle` |
| `races` | 2 replicas, 2 DLQ sessions, clock lag 1, PostgreSQL, an id posted again | `OneOwner`, `AttemptEndsOnce`, `LiveLeaseIsSafe`, `FollowsLifecycle` |
| `leases` | EXCLUSIVE queue, 2 messages, two lease durations, heartbeats, caps 3 and 2 | `LeaseWithinPolicy`, `ExclusiveLease`, `ExpiredStaysExpired` |
| `liveness` | 2 replicas, delays, both retentions, limited and unlimited attempts, fairness | `ExpiredIsReclaimed`, `DueIsActivated`, `RetentionEnds`, `NoEarlyDelivery`, `WaitingIsKept` |
| `schedules` | 2 replicas, one clock behind, both kinds, limits none and 2, fairness | `TypeOK`, `EachRunOnce`, `LimitKept`, `PauseHolds`, `DueIsPosted` |
| `interviews` | one tab, one interview, which the tab starts or completes, 2 writes, 2 deliveries, channels of 1 | `TypeOK`, `NoStrayConnection`, `AnnouncedIsFetched`, `OwnActionShown` |
| `interviews_live` | the same with all three actions, one write and one delivery, fairness | `ListCatchesUp`, `ButtonsComeBack`, `StreamComesBack` |
| `forms` | both forms, 2 interviewers, days of 8 seconds, one hour skipped, 2 toasts, fairness | `TypeOK`, `RequestIsValid`, `DateAndTimeApart`, `OpenToastStays`, `DismissedIsRemoved`, `FormComesBack` |
| `reviews` | 8 tours over 4 pages, two evaluations, lists of one, one report, fairness | `TypeOK`, `ListedOnce`, `OfferIsGood`, `PageCatchesUp` |

Three runs show a disagreement between the code and what the repository says of
it; `findings` in `PROJECT.json` quotes the lines.

| Run | What TLC shows |
|---|---|
| `exclusive_running` | an EXCLUSIVE queue hands out a second message while an expired one is still RUNNING |
| `requeue_race` | two requeues of one message both succeed and the counters drift (PostgreSQL) |
| `resume_backfills` | occurrences that came while a schedule was paused are posted one by one after the resume |

Bounds of the queue's runs. `MaxRows` and `MaxClaims` bound primary keys and
attempt ids, `MaxTime` the clock. Two rows of one id let an id be posted again while stale lists
and transactions still name it; three claims are one more than max_attempts; the
times let a lease be claimed, extended, run out and be claimed again. Two
replicas, two sessions and two messages are the smallest numbers for which each
race has a loser. Because of the bounds every behaviour ends, and an idle
service is quiet anyway, so deadlock is not checked there. `AttemptsBounded` and
`TerminalIsFinal` are checked under SQLite: under PostgreSQL a requeue may write
the `max_attempts` it read from one message to a later message of the same id (a
hazard listed in `PROJECT.json`).

Bounds of the others. Four times with three occurrences let a schedule be
planned, run, paused over an occurrence, resumed and reach a limit of 2; one
schedule is enough, because no transaction touches two, and its id can be
created again as the other kind. Two writes let an answer be older than an
announcement that is itself not the last; a channel of one element is full after
one event, and two sources are one more than the hook should have. `UsedActs` are the
buttons that are pressed; cancelling differs from starting only in the status it
writes, and takes part in `interviews_live`. `MaxUpsets` bounds failures and events of
`reviews` (see the fairness). Two evaluations and lists of one (`EvaluationLimit`) let
an evaluation be pushed off its list, and be in it again when the newer one moves; one
report suffices for `OfferIsGood`. A message is delivered once there (`MaxAttempts`): a
second delivery does no more than an update by the API. `MaxPageSize` 2, `StatsPageSize` 3 and `DefaultPageSize` 1 keep the order of the code's
100, 1000 and 20. The clock of the forms keeps the structure of 24, 60 and 60 with
2, 2 and 2; the hour that is skipped is a day's first, so that the calendar's
midnight falls into it as well as a time that is kept or typed; `MaxDate` bounds the days that typing reaches. In `forms` a tab ends up with all its
toasts used, so deadlock is not checked there; it is in the other runs.

Fairness. For the queue: weak fairness for each replica's scheduler and
reclaimer, for the cleaner, and for the second half of a DLQ transaction: services run on
tickers as long as a replica lives, treat every item of a list, and a transaction
ends. For the reclaimer each queue's query has its own condition because the service
goes through all queues every cycle. Nothing is assumed of producers, workers,
operators, or the clock, whose progress the properties do not need. `liveness`
has no DLQ, since with one `ExpiredIsReclaimed` fails (see below), and no
lag, since time stops at `MaxTime` and a statement could use an older time for
ever.

For schedules: weak fairness of collecting, which a ticker does, and strong
fairness of treating a schedule: a row is locked only for the length of a short
transaction and replicas do not restart in every cycle, so that what is treated
again and again succeeds once.

For tabs: every request is answered or fails, timers fire, handlers go on when
what they await is there. The requests of a list do not fail for ever (strong
fairness), without which nothing can be said of it; the others may. `reviews` says
the same with a bounded number of failures. Its bound on events is real: an event
restarts the query that it invalidates, so events that come faster than
answers keep a page from being updated for as long as they come. Nothing is
assumed of users, workers, the stream or events: `ListCatchesUp` and
`PageCatchesUp` hold by polling alone.

## Deviations without a run

While modelling, further behaviours were met that contradict a document or
surprise. The modules have those of them that concern modelled state; they need
other constants than the runs use, or no document promises the contrary.

- A renewal reads its time before the expiry and commits after another claim
  has seen the lease as expired: two unexpired leases in an EXCLUSIVE queue
  (`leases` with `ClockLag = 1`; `messages.go:839`, `queue.proto:22`).
- A message retained in a queue that is also a DLQ keeps `deleted_at` when it is
  requeued: it is PENDING, not claimable, and deleted later (a queue with
  RETAIN_DURATION as the DLQ; `dlq.go:126`, `service.proto:624`).
- An id that is already in the DLQ keeps a second message of that id RUNNING for ever,
  as the move violates the key (`liveness` with a DLQ and max_attempts 1;
  `reclaim.go:186`, `service.proto:41`).
- A calendar's last run leaves the schedule ERRORED instead of PAUSED, because
  `CalculateNextRun` returns an error where its callers test for no result
  (`core_engine.go:83-92`, `calendar.go:270,283`, `schedule.proto:140-141`).
- A calendar schedule stored as PAUSED because it had no future run has no
  `next_run`, and stays without one after a resume: it is SCHEDULED and never runs.
- The cron processor marks a calendar schedule ERRORED when its id was a cron
  schedule's at the time of the query (`cron_processor.go:204`).
- `max_messages = 0`, "unlimited" by `schedule.proto:142`, is rejected by
  `CreateSchedule` when `has_max_messages` is set (`implementation.go:1187`).
- The platform's reports never become ready: the message of `GenerateReport`
  names no action (`handlers.go:718`) and the worker looks for one
  (`report_generator.go:100`).
- Two concurrent calls of `GenerateReport` create two reports (`handlers.go:646`).
- A cancelled interview is scheduled again by a worker that has read it before
  (`interview_scheduler.go:102`).
- An interview's update that arrives between the server's answer to the first fetch of
  its detail page and the arrival of that answer is lost on the page: the first fetch is
  not cancelled, and its answer clears the mark of `invalidateQueries`
  (`SSEProvider.tsx:31-34`). The same holds for a page that is left while its
  query is under way. The list polls and recovers; the detail page does not poll and
  keeps the older status until it is focused or visited again after `staleTime`. `told`
  leaves these updates out; entering them violates `AnnouncedIsFetched`.
- The evaluations page shows the newest 100 of each status (`evaluations.ts:77-78`,
  `handlers.go:452-458`): the numbers on its cards stop there, and an older
  evaluation is in neither list.
- "Preserve existing time when changing date" (`schedule-interview-form.tsx`) does not
  hold on the day that summer time begins: a time that it skips becomes the one an hour
  later, and stays so when another day is picked next.
- A message of the platform's workers whose row cannot be read for the moment is
  acknowledged, so it is never processed (`evaluation_processor.go:90-95`,
  `report_generator.go:91-96`, `interview_scheduler.go:92-97`).
- The reports page asks for 1000 reports, "all reports for stats"
  (`useReports.ts:48`), and gets 20, the default for a size above 100
  (`handlers.go:603-606`).

## Proofs

Every safety property that a passing run checks, invariant or action property, is
also proved with TLAPS for all values of the constants: any number of queues, ids,
replicas, sessions, rows, schedules, tabs, interviews, evaluations and toasts, both
databases, any clock lag. What a theorem needs beyond the assumptions of the
modules stands in its statement. Liveness (`DueIsActivated`, `ExpiredIsReclaimed`,
`RetentionEnds`, `DueIsPosted`, and the properties of the dashboard with `~>`) is
only model-checked: the prover has neither fairness nor ENABLED.

The named assumptions on the constants say that bounds are natural numbers, that
limits which the code has as positive numbers are positive (attempts, channel
capacity, hours), that the marks for "nothing" (`NoSource`, `Undefined`) are no
values, that `"all"` is a filter, that days and the clock are natural numbers, that a
day has more than one hour and that no two hours in a row are skipped.
TLC evaluates them in every run.

### Queues and messages

| Theorem | Property | Condition |
|---|---|---|
| `TypeCorrect` | `TypeOK` | |
| `LeaseBound` | `LeaseWithinPolicy` | |
| `OwnerUnique` | `OneOwner` | |
| `EndsOnce` | `AttemptEndsOnce` | |
| `OnTime` | `NoEarlyDelivery` | `StableQueues` |
| `LiveLeases` | `LiveLeaseIsSafe` | `StableQueues` |
| `LapsedLeases` | `ExpiredStaysExpired` | `StableQueues`, `ClockLag = 0` |
| `Exclusive` | `ExclusiveLease` | `ClockLag = 0` |
| `AttemptsLimit` | `AttemptsBounded` | `SerialWriters` |
| `EndIsFinal` | `TerminalIsFinal` | `SerialWriters` |
| `CountersRight` | `CountersMatchRows` | `SerialWriters` |
| `KeptWaiting` | `WaitingIsKept` | `UntimedDLQs` |
| `ImplementsLifecycle` | `FollowsLifecycle` | `DiagramApplies` |

The conditions are properties of a deployment. None can be dropped: for each, TLC
finds a small deployment without it in which the property is violated.

- `SerialWriters` is SQLite. Under PostgreSQL a DLQ call writes whatever row has
  the id by the time of its second statement, so two of them count twice
  (`requeue_race`) and one can hit a message that was requeued and has ended.
- `StableQueues` is SQLite, or no deletion of queues. Under PostgreSQL a DLQ can be
  deleted and created again as an ordinary queue between the two statements of a
  requeue, which then makes a delayed message of the same id visible before its
  time, or takes a running one from its worker. TLC finds this with a deletable
  DLQ and `SerialWriters = FALSE`.
- `ClockLag = 0`: with a lag a late renewal revives a lease that has lapsed (see
  above).
- `UntimedDLQs`: no DLQ has RETAIN_DURATION. A requeue leaves `deleted_at` as it is
  (see above), and the cleanup service then deletes the waiting message, together with
  others that have ended.
- `DiagramApplies`: `UntimedDLQs`, and under PostgreSQL DLQs that delete what is
  cancelled. Where they keep it, a DLQ can be deleted and created again as an ordinary
  queue between the two statements of a requeue, which then makes a CANCELED message
  of the same id PENDING.

The argument. There are some twenty actions, but for leases and owners only four
kinds of step (`StepKind`): a step is *quiet* (no RUNNING row changes its lease or
owner), *takes* one row for a fresh attempt, *renews* one row, or *leaves*: some
RUNNING rows stop running and their attempts end. `EveryStep` proves, action by
action, that every step keeps `TypeOK` and is of one of these kinds; the first
theorems are then short arguments about four cases. `OneOwner`
speaks of cardinalities and is not inductive in a form the provers can use;
`OwnerInv` states it as a correspondence (each RUNNING row's attempt is held,
no two rows share one, each held attempt has a row), which each kind of step
preserves, and `OwnerImpliesOneOwner` goes back to `OneOwner` with the theorems
on finite sets.

The other properties depend on more columns. `EveryEffect` (`NzovuRowProofs`) says of
each action what it does to the rows, the queues and the counters, in a few
patterns: one row is inserted, altered or moved, a batch is removed, a queue is
created or deleted, a DLQ session starts or ends. On these rest, in layers:

- `StorageInv`: no due list was read in the future; every stored row has a state, an id
  and a queue that exists; queue and id are a key; a queue's DLQ exists; a RUNNING row is
  not marked for deletion; a requeue has a target.
- `SessionInv`: what a DLQ call that has read finds when it writes. On SQLite at
  most one is between its statements, and the row it selected is as it was; without
  deletions the queue it works on is still a DLQ.
- On them one invariant per property: `OnTimeInv`, that what a
  DLQ call hits is neither delayed nor running; `ExclusiveInv`, that two
  RUNNING rows of an EXCLUSIVE queue with unexpired leases are the same row;
  `AttemptsInv`, that `attempts_left` and the deliveries so far add up to no more
  than `max_attempts` for a waiting message, and one more for a running one;
  `RetentionInv`, that only rows which have ended are marked, and only in a queue with
  RETAIN_DURATION, that queues are configured as asked and that DLQ calls work on
  queues that may serve as DLQs.
- The counters: every statement adjusts `state_counts` by what it says it has done.
  `RecountOne` and its companions say how the true numbers change when one row or a
  batch does, and each effect is compared with its adjustment.
- The refinement: under the mapping, every effect is a step of `MessageLifecycle` or
  a stutter; `RevivableInv` says that what a DLQ call hits is neither COMPLETED nor
  CANCELED, so that the diagram has an edge for what the call does to it.

### Schedules

`SchedulesTyped`, `RunsOnce`, `LimitRespected` and `PauseRespected` state `TypeOK`,
`EachRunOnce`, `LimitKept` and `PauseHolds`, without conditions. `EachRunOnce` is not
inductive: it says nothing of the run to come. `SchedulesInv` adds that a row's
`next_run` follows the last posted one, that the counter is the number of messages since
the schedule was created or resumed until it is ERRORED, that a SCHEDULED row
is below its limit, and that no list was read in the future. The many returns of the
two `processSchedule` functions are of six kinds (`OutcomeKinds`), each of which keeps
this. That `CalendarNext` is the least date after a time needs that `<` is
well-founded on the natural numbers.

### The dashboard

- `ConnectionsHeld`, `UpdatesFetched`, `ActionsShown` and `PagesTyped` (`InterviewProofs`)
  state `NoStrayConnection`, `AnnouncedIsFetched`, `OwnActionShown` and `TypeOK` for any
  number of tabs. The invariant, per tab and query: an answer under way is not older
  than the newest write that the tab was told of; data that is idle and without error
  has that write, or the query is off the screen and marked; and a handler that has
  asked for its page's detail is not to be answered from before its own write. The
  induction goes through because an invalidation leaves only two kinds of older answers
  under way, those of `Overtaken`; visits and answers change nothing in `told`.
- `EvaluationsListedOnce`, `OffersKept`, `ReviewsTyped` (`ReviewProofs`) state `ListedOnce`,
  `OfferIsGood` and `TypeOK`. Each list answered so far, not only both, holds the
  evaluations of its status that have not moved, but for those that have a page of newer
  ones before them: the newer ones that were there when the list was made have the
  status still or have moved since (`Ahead`), so there are never fewer of them; and what any answer says to be ready,
  shown or under way, is ready, because no handler or worker takes that back.
- `RequestsValid`, `ToastsStay`, `DateTimeApart`, `FormsTyped` (`FormProofs`) state
  `RequestIsValid`, `OpenToastStays`, `DateAndTimeApart` and `TypeOK`. The field of a list
  has text exactly when its array has words, and the arrays stay without
  repetitions; a toast whose timer is pending is not open; every date is uniquely a day,
  an hour, a minute and a second, of which each setter changes one. Where the clocks skip
  the hour it takes the next (`Kept`), which is not skipped, so that the setters after it
  leave the hour alone.
  `filter` is the recursive function `Without`; `WithoutKept`, what it keeps,
  is proved by induction on sets of numbers (`NatSet`).

## Not modelled

The calendar engine (only that it returns the next of a rule's dates), priority
weighting (the claim allows any order, so head-of-line blocking is not visible),
the schema registry, key rotation, the gateway's limiter, migrations, shutdown;
reads that change nothing (peek, list, statistics of the queue); conversions of
payloads. Client-chosen attempt ids are fresh in the model. The two checks an API call
makes before its transaction (`rejectDLQOperation`, queue metadata) are evaluated
with it.

Of the platform: the widgets and layout, signing in, the start page's list of
recent interviews, toasts raised by handlers and by `SSEProvider`, scores and
recommendations, the notification worker (it logs), hooks and API functions that no
page uses, and interviews edited in the dashboard, which it does not offer. A tab
runs one handler, one submission and one report call at a time in the model; the
pages allow another after the first one's page was left.

`PROJECT.json` lists the components, and among the hazards those that no property
covers, with notes.

## Plan

1. Done: storage, queues, messages, DLQ, background services, their
   composition, the lifecycle refinement, and the first four theorems.
2. Done: schedules; the interview platform's stream, cache, pages, forms and
   backend.
3. Done: theorems for all safety properties of the runs, with the conditions on
   the deployment that they need, and the refinement `FollowsLifecycle`.
4. Smaller components: priority selection and weights as operators against a
   reference; schema versions; the rate limiter; drain on shutdown.
