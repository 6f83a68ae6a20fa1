---------------------------- MODULE ReviewProofs ----------------------------
(***************************************************************************)
(* The pages about evaluations and reports, for any number of evaluations, *)
(* reports and concurrent calls, any page sizes and any set of tours.      *)
(***************************************************************************)
EXTENDS ReviewPages, FiniteSetTheorems, TLAPS

-----------------------------------------------------------------------------
(* The backend *)

TaskState == {"none", "queued", "leased", "done", "dead"}
TaskAction == {"none", "process_evaluation", "generate_report"}
Message == [at: TaskState, left: 0 .. MaxAttempts, action: TaskAction]

\* A message that waits to be delivered has an attempt left.
HasAttempt(m) == m.at = "queued" => m.left > 0

Work == [step: {"reads", "writes"}, on: Nat, action: TaskAction]

ReviewsInv ==
  /\ evals \in Seq(EvaluationStatus) /\ Len(evals) <= MaxEvaluations
  /\ reports \in Seq({"pending", "ready"}) /\ Len(reports) <= MaxReports
  /\ tasks \in [Task -> Message] /\ \A t \in Task : HasAttempt(tasks[t])
  /\ worker \in [Queues -> {Idle} \cup Work]
  /\ generating \subseteq Handlers
  /\ updates \in 0 .. MaxUpdates

\* No evaluation goes away, and nothing takes a report back that is ready.
RowsKept ==
  /\ DOMAIN evals \subseteq DOMAIN evals'
  /\ \A n \in DOMAIN reports :
       reports[n] = "ready" => n \in DOMAIN reports' /\ reports'[n] = "ready"

TasksKept == tasks' \in [Task -> Message] /\ \A t \in Task : HasAttempt(tasks'[t])

\* One message changes.
LEMMA TaskStep ==
  ASSUME ReviewsInv, NEW t \in Task, NEW m \in Message, HasAttempt(m),
         tasks' = [tasks EXCEPT ![t] = m]
  PROVE  TasksKept
  BY DEF ReviewsInv, TasksKept

\* A new message has all its attempts.
LEMMA NewTask ==
  ASSUME NEW action \in TaskAction
  PROVE  /\ [NoTask EXCEPT !.at = "queued", !.action = action] \in Message
         /\ HasAttempt([NoTask EXCEPT !.at = "queued", !.action = action])
<1> DEFINE m == [NoTask EXCEPT !.at = "queued", !.action = action]
<1>1. MaxAttempts \in 0 .. MaxAttempts /\ MaxAttempts > 0
  BY ReviewsAssumption
<1>2. NoTask \in Message /\ NoTask.left = MaxAttempts
  BY <1>1 DEF NoTask, Message, TaskState, TaskAction
<1>3. m \in Message /\ m.left = MaxAttempts
  BY <1>2 DEF Message, TaskState
<1> HIDE DEF m
<1>4. HasAttempt(m)
  BY <1>1, <1>3 DEF HasAttempt
<1> QED
  BY <1>3, <1>4 DEF m

\* PostMessage, whether or not it succeeds.
LEMMA PostStep ==
  ASSUME ReviewsInv, NEW t \in Task, NEW action \in TaskAction, Post(t, action)
  PROVE  TasksKept
<1>1. CASE tasks' = tasks
  BY <1>1 DEF ReviewsInv, TasksKept
<1>2. CASE tasks' = [tasks EXCEPT ![t] = [NoTask EXCEPT !.at = "queued", !.action = action]]
  BY <1>2, NewTask, TaskStep
<1> QED
  BY <1>1, <1>2 DEF Post

\* The state of a message changes, and it was not waiting or has attempts.
LEMMA StateStep ==
  ASSUME ReviewsInv, NEW t \in Task, NEW to \in TaskState,
         to = "queued" => tasks[t].left > 0,
         tasks' = [tasks EXCEPT ![t].at = to]
  PROVE  TasksKept
<1> DEFINE old == tasks[t]
           new == [old EXCEPT !.at = to]
<1>1. old \in Message
  BY DEF ReviewsInv
<1>2. tasks' = [tasks EXCEPT ![t] = new]
  OBVIOUS
<1>3. to = "queued" => old.left > 0
  OBVIOUS
<1> HIDE DEF old
<1>4. new \in Message /\ new.at = to /\ new.left = old.left
  BY <1>1 DEF Message
<1> HIDE DEF new
<1> QED
  BY <1>2, <1>3, <1>4, TaskStep DEF HasAttempt

\* A queue and a number name a message.
LEMMA TaskNames ==
  /\ \A e \in 1 .. MaxEvaluations : <<"evaluation-processor", e>> \in Task
  /\ \A n \in 1 .. MaxReports : <<"report-generator", n>> \in Task
  /\ \A t \in Task : t = <<t[1], t[2]>> /\ t[1] \in Queues /\ t[2] \in Nat
<1>1. /\ \A e \in 1 .. MaxEvaluations : <<"evaluation-processor", e>> \in Task
      /\ \A n \in 1 .. MaxReports : <<"report-generator", n>> \in Task
  BY DEF Task
<1>2. ASSUME NEW t \in Task
      PROVE  t = <<t[1], t[2]>> /\ t[1] \in Queues /\ t[2] \in Nat
  <2>1. CASE t \in {"evaluation-processor"} \X (1 .. MaxEvaluations)
    BY <2>1, ReviewsAssumption DEF Queues
  <2>2. CASE t \in {"report-generator"} \X (1 .. MaxReports)
    BY <2>2, ReviewsAssumption DEF Queues
  <2> QED
    BY <2>1, <2>2 DEF Task
<1> QED
  BY <1>1, <1>2

\* The end of processMessage, whether or not an acknowledgement arrives.
LEMMA EndsStep ==
  ASSUME ReviewsInv, NEW q \in Queues, NEW n, <<q, n>> \in Task, Ends(q, n)
  PROVE  TasksKept /\ worker' \in [Queues -> {Idle} \cup Work]
<1>1. worker' \in [Queues -> {Idle} \cup Work]
  BY DEF Ends, ReviewsInv
<1>2. tasks' = tasks \/ tasks' = [tasks EXCEPT ![<<q, n>>].at = "done"]
  BY DEF Ends
<1>3. CASE tasks' = tasks
  BY <1>1, <1>3 DEF ReviewsInv, TasksKept
<1>4. CASE tasks' = [tasks EXCEPT ![<<q, n>>].at = "done"]
  BY <1>1, <1>4, StateStep DEF TaskState
<1> QED
  BY <1>2, <1>3, <1>4

\* A worker has looked at the row of its message.
LEMMA ReadsStep ==
  ASSUME ReviewsInv, NEW q \in Queues, NEW n, <<q, n>> \in Task, NEW wanted, Reads(q, n, wanted)
  PROVE  ReviewsInv' /\ RowsKept
<1>1. CASE Ends(q, n)
  BY <1>1, EndsStep DEF Reads, ReviewsInv, TasksKept, RowsKept
<1>2. CASE worker' = [worker EXCEPT ![q].step = "writes"] /\ UNCHANGED tasks
  <2>1. worker[q] \in {Idle} \cup Work /\ worker[q].step = "reads"
    BY DEF Reads, Has, ReviewsInv
  <2>2. worker[q] \in Work
    BY <2>1 DEF Idle
  <2>3. [worker[q] EXCEPT !.step = "writes"] \in Work
    BY <2>2 DEF Work
  <2>4. worker' \in [Queues -> {Idle} \cup Work]
    BY <1>2, <2>3 DEF ReviewsInv
  <2> QED
    BY <1>2, <2>4 DEF Reads, ReviewsInv, RowsKept
<1> QED
  BY <1>1, <1>2 DEF Reads

\* The workers, their stops and the lapse of their leases.
LEMMA WorkerStepInv ==
  ASSUME ReviewsInv, WorkerStep
  PROVE  ReviewsInv' /\ RowsKept
<1>1. ASSUME NEW t \in Task, Take(t[1], t[2])
      PROVE  ReviewsInv' /\ RowsKept
  <2> DEFINE old == tasks[t]
             new == [old EXCEPT !.at = "leased", !.left = old.left - 1]
             work == [step |-> "reads", on |-> t[2], action |-> old.action]
  <2>0. t = <<t[1], t[2]>> /\ t[1] \in Queues /\ t[2] \in Nat
    BY TaskNames
  <2>1. old \in Message /\ HasAttempt(old) /\ old.at = "queued"
    BY <1>1, <2>0 DEF ReviewsInv, Take
  <2>2. tasks' = [tasks EXCEPT ![t] = new] /\ worker' = [worker EXCEPT ![t[1]] = work]
    BY <1>1, <2>0 DEF Take, ReviewsInv
  <2> HIDE DEF old
  <2>3. old.left - 1 \in 0 .. MaxAttempts
    BY <2>1, ReviewsAssumption DEF Message, HasAttempt
  <2>4. new \in Message /\ new.at = "leased"
    BY <2>1, <2>3 DEF Message, TaskState
  <2>5. work \in Work
    BY <2>0, <2>1 DEF Message, Work
  <2> HIDE DEF new, work
  <2>6. TasksKept
    BY <2>2, <2>4, TaskStep DEF HasAttempt
  <2>7. worker' \in [Queues -> {Idle} \cup Work]
    BY <2>0, <2>2, <2>5 DEF ReviewsInv
  <2> QED
    BY <1>1, <2>6, <2>7 DEF Take, ReviewsInv, TasksKept, RowsKept
<1>2. ASSUME NEW t \in Task, LeaseExpires(t)
      PROVE  ReviewsInv' /\ RowsKept
  <2> DEFINE to == IF tasks[t].left > 0 THEN "queued" ELSE "dead"
  <2>1. tasks' = [tasks EXCEPT ![t].at = to]
    BY <1>2 DEF LeaseExpires
  <2>2. to \in TaskState /\ (to = "queued" => tasks[t].left > 0)
    BY DEF TaskState
  <2> HIDE DEF to
  <2>3. TasksKept
    BY <2>1, <2>2, StateStep
  <2> QED
    BY <1>2, <2>3 DEF LeaseExpires, ReviewsInv, TasksKept, RowsKept
<1>3. ASSUME NEW e \in 1 .. MaxEvaluations, ReadsEvaluation(e)
      PROVE  ReviewsInv' /\ RowsKept
  BY <1>3, TaskNames, ReadsStep DEF ReadsEvaluation, Queues
<1>4. ASSUME NEW e \in 1 .. MaxEvaluations, SetsCompleted(e)
      PROVE  ReviewsInv' /\ RowsKept
  <2>1. TasksKept /\ worker' \in [Queues -> {Idle} \cup Work]
    BY <1>4, TaskNames, EndsStep DEF SetsCompleted, Queues
  <2>2. /\ evals' \in Seq(EvaluationStatus) /\ Len(evals') = Len(evals)
        /\ DOMAIN evals' = DOMAIN evals
    <3>1. evals \in Seq(EvaluationStatus) /\ "completed" \in EvaluationStatus
      BY DEF ReviewsInv, EvaluationStatus
    <3>2. evals' = [evals EXCEPT ![e] = "completed"]
      BY <1>4 DEF SetsCompleted
    <3>3. CASE e \in DOMAIN evals
      BY <3>1, <3>2, <3>3
    <3>4. CASE e \notin DOMAIN evals
      <4>1. evals = [m \in DOMAIN evals |-> evals[m]]
        BY <3>1
      <4>2. evals' = evals
        BY <3>2, <3>4, <4>1
      <4> QED
        BY <3>1, <4>2
    <3> QED
      BY <3>3, <3>4
  <2> QED
    BY <1>4, <2>1, <2>2 DEF SetsCompleted, ReviewsInv, TasksKept, RowsKept
<1>5. ASSUME NEW n \in 1 .. MaxReports, ReadsReport(n)
      PROVE  ReviewsInv' /\ RowsKept
  BY <1>5, TaskNames, ReadsStep DEF ReadsReport, Queues
<1>6. ASSUME NEW n \in 1 .. MaxReports, SetsReady(n)
      PROVE  ReviewsInv' /\ RowsKept
  <2>1. TasksKept /\ worker' \in [Queues -> {Idle} \cup Work]
    BY <1>6, TaskNames, EndsStep DEF SetsReady, Queues
  <2>2. /\ reports' \in Seq({"pending", "ready"}) /\ Len(reports') = Len(reports)
        /\ DOMAIN reports' = DOMAIN reports /\ evals' = evals
        /\ \A m \in DOMAIN reports : reports'[m] = reports[m] \/ reports'[m] = "ready"
    <3>1. reports \in Seq({"pending", "ready"}) /\ evals' = evals
      BY <1>6 DEF ReviewsInv, SetsReady
    <3>2. reports' = [reports EXCEPT ![n] = "ready"]
      BY <1>6 DEF SetsReady
    <3>3. CASE n \in DOMAIN reports
      BY <3>1, <3>2, <3>3
    <3>4. CASE n \notin DOMAIN reports
      <4>1. reports = [m \in DOMAIN reports |-> reports[m]]
        BY <3>1
      <4>2. reports' = reports
        BY <3>2, <3>4, <4>1
      <4> QED
        BY <3>1, <4>2
    <3> QED
      BY <3>3, <3>4
  <2>3. RowsKept
    BY <2>2 DEF RowsKept
  <2> QED
    BY <1>6, <2>1, <2>2, <2>3 DEF SetsReady, ReviewsInv, TasksKept
<1>7. ASSUME NEW q \in Queues, GivesUp(q)
      PROVE  ReviewsInv' /\ RowsKept
  BY <1>7 DEF GivesUp, ReviewsInv, RowsKept
<1> QED
  BY <1>1, <1>2, <1>3, <1>4, <1>5, <1>6, <1>7 DEF WorkerStep

\* The API's handlers.
LEMMA ApiStepInv ==
  ASSUME ReviewsInv, ApiStep
  PROVE  ReviewsInv' /\ RowsKept
<1>1. ASSUME CreateEvaluation
      PROVE  ReviewsInv' /\ RowsKept
  <2>1. evals \in Seq(EvaluationStatus) /\ Len(evals) \in Nat /\ Len(evals) < MaxEvaluations
    BY <1>1 DEF CreateEvaluation, ReviewsInv
  <2>2. Len(evals) + 1 \in 1 .. MaxEvaluations
    BY <2>1, ReviewsAssumption
  <2>3. TasksKept
    BY <1>1, <2>2, TaskNames, PostStep DEF CreateEvaluation, TaskAction
  <2>4. /\ evals' \in Seq(EvaluationStatus) /\ Len(evals') = Len(evals) + 1
        /\ DOMAIN evals \subseteq DOMAIN evals'
    BY <1>1, <2>1 DEF CreateEvaluation, EvaluationStatus
  <2>5. Len(evals') <= MaxEvaluations
    BY <2>1, <2>4, ReviewsAssumption
  <2> QED
    BY <1>1, <2>3, <2>4, <2>5 DEF CreateEvaluation, ReviewsInv, TasksKept, RowsKept
<1>2. ASSUME NEW e \in 1 .. MaxEvaluations, NEW status \in EvaluationStatus,
             UpdateEvaluation(e, status)
      PROVE  ReviewsInv' /\ RowsKept
  <2>1. /\ evals' \in Seq(EvaluationStatus) /\ Len(evals') = Len(evals)
        /\ DOMAIN evals' = DOMAIN evals
    BY <1>2 DEF UpdateEvaluation, ReviewsInv
  <2>2. updates' \in 0 .. MaxUpdates
    BY <1>2, ReviewsAssumption DEF UpdateEvaluation, ReviewsInv
  <2> QED
    BY <1>2, <2>1, <2>2 DEF UpdateEvaluation, ReviewsInv, RowsKept
<1>3. ASSUME NEW h \in Handlers, ChecksReport(h)
      PROVE  ReviewsInv' /\ RowsKept
  BY <1>3 DEF ChecksReport, ReviewsInv, RowsKept
<1>4. ASSUME NEW h \in Handlers, CreatesReport(h)
      PROVE  ReviewsInv' /\ RowsKept
  <2>1. reports \in Seq({"pending", "ready"}) /\ Len(reports) \in Nat /\ Len(reports) < MaxReports
    BY <1>4 DEF CreatesReport, ReviewsInv
  <2>2. Len(reports) + 1 \in 1 .. MaxReports
    BY <2>1, ReviewsAssumption
  <2>3. TasksKept
    BY <1>4, <2>2, TaskNames, PostStep DEF CreatesReport, TaskAction
  <2>4. /\ reports' \in Seq({"pending", "ready"}) /\ Len(reports') = Len(reports) + 1
        /\ RowsKept
    BY <1>4, <2>1 DEF CreatesReport, RowsKept
  <2>5. Len(reports') <= MaxReports
    BY <2>1, <2>4, ReviewsAssumption
  <2> QED
    BY <1>4, <2>3, <2>4, <2>5 DEF CreatesReport, ReviewsInv, TasksKept
<1>5. ASSUME NEW n \in 1 .. MaxReports, AdminRetry(n)
      PROVE  ReviewsInv' /\ RowsKept
  <2>1. TasksKept
    BY <1>5, TaskNames, NewTask, TaskStep DEF AdminRetry, TaskAction
  <2>2. updates' \in 0 .. MaxUpdates
    BY <1>5, ReviewsAssumption DEF AdminRetry, ReviewsInv
  <2> QED
    BY <1>5, <2>1, <2>2 DEF AdminRetry, ReviewsInv, TasksKept, RowsKept
<1> QED
  BY <1>1, <1>2, <1>3, <1>4, <1>5 DEF ApiStep

-----------------------------------------------------------------------------
(* The entries of the cache.  Their data are of no one set, so an entry is  *)
(* described by its fields.                                                 *)

IsEntry(e) ==
  /\ e = [data |-> e.data, inval |-> e.inval, error |-> e.error,
          flight |-> e.flight, got |-> e.got]
  /\ e.inval \in BOOLEAN /\ e.error \in BOOLEAN
  /\ e.flight \in {"idle", "asked", "answered"}

\* d is e, but for its marks, or it has begun a fetch.
Carries(d, e) ==
  /\ d.data = e.data
  /\ \/ d.flight = e.flight /\ d.got = e.got
     \/ d.flight = "asked" /\ d.got = Undefined

\* A fetch begins.
LEMMA StartFetchEntry ==
  ASSUME NEW e, IsEntry(e)
  PROVE  IsEntry(StartFetch(e)) /\ Carries(StartFetch(e), e)
<1> DEFINE err == IF e.data = Undefined THEN FALSE ELSE e.error
           d == StartFetch(e)
<1>1. err \in BOOLEAN
  BY DEF IsEntry
<1>2. d = [e EXCEPT !.flight = "asked", !.got = Undefined, !.error = err]
  BY DEF StartFetch
<1> HIDE DEF err, d
<1>3. d = [data |-> e.data, inval |-> e.inval, error |-> err,
           flight |-> "asked", got |-> Undefined]
  BY <1>2 DEF IsEntry
<1>4. IsEntry(d) /\ Carries(d, e)
  BY <1>1, <1>3 DEF IsEntry, Carries
<1> QED
  BY <1>4 DEF d

\* A mark leaves the fetch under way alone.
LEMMA MarkEntry ==
  ASSUME NEW e, IsEntry(e)
  PROVE  /\ IsEntry([e EXCEPT !.inval = TRUE])
         /\ [e EXCEPT !.inval = TRUE].data = e.data
         /\ [e EXCEPT !.inval = TRUE].flight = e.flight
         /\ [e EXCEPT !.inval = TRUE].got = e.got
<1> DEFINE mark == TRUE
           d == [e EXCEPT !.inval = mark]
<1> HIDE DEF mark
<1>1. d = [data |-> e.data, inval |-> mark, error |-> e.error,
           flight |-> e.flight, got |-> e.got]
  BY DEF IsEntry
<1> HIDE DEF d
<1>2. IsEntry(d) /\ d.data = e.data /\ d.flight = e.flight /\ d.got = e.got
  BY <1>1 DEF IsEntry, mark
<1> QED
  BY <1>2 DEF d, mark

\* Timers, mounting pages and events do no more to an entry than that.
LEMMA TouchedEntry ==
  ASSUME NEW e, IsEntry(e)
  PROVE  /\ IsEntry(Refetch(e)) /\ Carries(Refetch(e), e)
         /\ \A old : IsEntry(MountQuery(e, old)) /\ Carries(MountQuery(e, old), e)
         /\ \A active : IsEntry(InvalidateQuery(e, active)) /\ Carries(InvalidateQuery(e, active), e)
<1>1. Carries(e, e)
  BY DEF Carries
<1>2. IsEntry(Refetch(e)) /\ Carries(Refetch(e), e)
  BY <1>1, StartFetchEntry DEF Refetch
<1>3. ASSUME NEW old
      PROVE  IsEntry(MountQuery(e, old)) /\ Carries(MountQuery(e, old), e)
  BY <1>1, <1>2 DEF MountQuery
<1>4. ASSUME NEW active
      PROVE  IsEntry(InvalidateQuery(e, active)) /\ Carries(InvalidateQuery(e, active), e)
  <2> DEFINE m == [e EXCEPT !.inval = TRUE]
  <2>1. IsEntry(m) /\ m.data = e.data /\ m.flight = e.flight /\ m.got = e.got
    BY MarkEntry
  <2>2. InvalidateQuery(e, active) \in {m, StartFetch(m)}
    BY DEF InvalidateQuery, RefetchAnew
  <2> HIDE DEF m
  <2>3. IsEntry(StartFetch(m)) /\ Carries(StartFetch(m), m)
    BY <2>1, StartFetchEntry
  <2> QED
    BY <2>1, <2>2, <2>3 DEF Carries
<1> QED
  BY <1>2, <1>3, <1>4

\* An answer from the server to all of the requests, or to some.
LEMMA AnsweredEntry ==
  ASSUME NEW e, IsEntry(e), NEW got
  PROVE  /\ IsEntry(ServerAnswers(e, got)) /\ ServerAnswers(e, got).data = e.data
         /\ ServerAnswers(e, got).flight = "answered" /\ ServerAnswers(e, got).got = got
         /\ IsEntry([e EXCEPT !.got = got]) /\ [e EXCEPT !.got = got].data = e.data
         /\ [e EXCEPT !.got = got].flight = e.flight /\ [e EXCEPT !.got = got].got = got
<1> DEFINE answered == "answered"
           d == ServerAnswers(e, got)
           c == [e EXCEPT !.got = got]
<1>1. d = [e EXCEPT !.flight = answered, !.got = got]
  BY DEF ServerAnswers
<1> HIDE DEF answered, d
<1>2. d = [data |-> e.data, inval |-> e.inval, error |-> e.error,
           flight |-> answered, got |-> got]
  BY <1>1 DEF IsEntry
<1>3. IsEntry(d) /\ d.data = e.data /\ d.flight = "answered" /\ d.got = got
  BY <1>2 DEF IsEntry, answered
<1>4. c = [data |-> e.data, inval |-> e.inval, error |-> e.error,
           flight |-> e.flight, got |-> got]
  BY DEF IsEntry
<1> HIDE DEF c
<1>5. IsEntry(c) /\ c.data = e.data /\ c.flight = e.flight /\ c.got = got
  BY <1>4 DEF IsEntry
<1> QED
  BY <1>3, <1>5 DEF d, c

\* An answer arrives in the browser, or a failure.
LEMMA EndedEntry ==
  ASSUME NEW e, IsEntry(e), NEW answer
  PROVE  /\ IsEntry(Succeed(answer)) /\ Succeed(answer).data = answer
         /\ Succeed(answer).flight = "idle"
         /\ IsEntry(Reject(e)) /\ Reject(e).data = e.data
         /\ Reject(e).flight = "idle"
<1> DEFINE idle == "idle"
           yes == TRUE
           no == FALSE
           d == Succeed(answer)
           c == Reject(e)
<1>1. /\ d = [[data |-> Undefined, inval |-> no, error |-> no, flight |-> idle,
               got |-> Undefined] EXCEPT !.data = answer]
      /\ c = [e EXCEPT !.flight = idle, !.got = Undefined, !.error = yes, !.inval = yes]
  BY DEF Succeed, NewEntry, Reject
<1> HIDE DEF idle, yes, no, d, c
<1>2. d = [data |-> answer, inval |-> no, error |-> no, flight |-> idle, got |-> Undefined]
  BY <1>1
<1>3. IsEntry(d) /\ d.data = answer /\ d.flight = "idle"
  BY <1>2 DEF IsEntry, idle, no
<1>4. c = [data |-> e.data, inval |-> yes, error |-> yes, flight |-> idle, got |-> Undefined]
  BY <1>1 DEF IsEntry
<1>5. IsEntry(c) /\ c.data = e.data /\ c.flight = "idle"
  BY <1>4 DEF IsEntry, idle, yes
<1> QED
  BY <1>3, <1>5 DEF d, c

-----------------------------------------------------------------------------
(* The pages *)

\* What an entry holds is the answer to its requests, all of them but while
\* they are being asked.
EntryOK(k, e) ==
  /\ IsEntry(e)
  /\ e.data # Undefined => DOMAIN e.data = Requests(k)
  /\ e.flight = "answered" => DOMAIN e.got = Requests(k)
  /\ e.flight = "asked" /\ e.got # Undefined => DOMAIN e.got \subseteq Requests(k)

\* An answer of the server that is under way.
UnderWay(e) == e.flight = "answered" \/ (e.flight = "asked" /\ e.got # Undefined)

\* What is said of a list of status s: no evaluation that has not moved is in
\* it but with that status, and with that status it is, unless a page of others
\* may have been before it.
ListRight(s, list) ==
  \A x \in DOMAIN evals \ moved :
    /\ x \in list => evals[x] = s
    /\ evals[x] = s /\ x \notin list => Cardinality(Ahead(x, s)) >= PageSize(EvaluationLimit)

Listed(e) == UnderWay(e) => \A s \in DOMAIN e.got : ListRight(s, e.got[s])

\* A report that is answered to be ready is ready.
Honest(answers) ==
  "all" \in DOMAIN answers =>
    \A n \in DOMAIN answers["all"] :
      answers["all"][n] = "ready" => n \in DOMAIN reports /\ reports[n] = "ready"

CacheInv ==
  /\ cache = [k \in Keys |-> cache[k]]
  /\ \A k \in Keys : EntryOK(k, cache[k])

OffersInv ==
  /\ cache[ReportStats].data # Undefined => Honest(cache[ReportStats].data)
  /\ UnderWay(cache[ReportStats]) => Honest(cache[ReportStats].got)

Calls == [at: {"request", "served"}, act: {"send", "download"}, on: 1 .. MaxReports]

CallInv ==
  \/ call = NoCall
  \/ /\ call \in Calls
     /\ call.at = "request" => call.on \in DOMAIN reports /\ reports[call.on] = "ready"

TabInv ==
  /\ tour \in Tours /\ page \in tour.pages
  /\ moved \subseteq DOMAIN evals /\ own \in BOOLEAN
  /\ upsets \in 0 .. MaxUpsets

ListsInv == Listed(cache[EvaluationStats])

PagesInv == ReviewsInv /\ TabInv /\ CacheInv /\ ListsInv /\ OffersInv /\ CallInv

\* The two queries that the properties are about.
LEMMA StatsKeys ==
  /\ EvaluationStats \in Keys /\ ReportStats \in Keys /\ EvaluationStats # ReportStats
  /\ Requests(EvaluationStats) = {"pending", "completed"} /\ Requests(ReportStats) = {"all"}
<1>1. Page = {"dashboard", "evaluations", "reports", "queues"}
  BY DEF Page, Observed
<1>2. Observed["evaluations"] = {EvaluationStats} /\ Observed["reports"] = {ReportStats}
  BY DEF Observed
<1>3. EvaluationStats \in Keys /\ ReportStats \in Keys
  BY <1>1, <1>2 DEF Keys
<1>4. EvaluationStats # ReportStats
  BY DEF EvaluationStats, ReportStats
<1> QED
  BY <1>3, <1>4 DEF Requests

\* What the server answers to them.
LEMMA StatsRead ==
  ASSUME NEW request, NEW known
  PROVE  /\ Read(EvaluationStats, request, known)
              = ListEvaluations(request, PageSize(EvaluationLimit))
         /\ Read(ReportStats, request, known) = ListReports(StatsPageSize)
<1>1. /\ EvaluationStats # ReportStats
      /\ \A s : EvaluationStats # <<s>> /\ ReportStats # <<s>>
  BY DEF EvaluationStats, ReportStats
<1> QED
  BY <1>1 DEF Read

\* A page has a size.
LEMMA LimitType == PageSize(EvaluationLimit) \in Nat
  BY ReviewsAssumption DEF PageSize

\* What may be before an evaluation is a finite set.
LEMMA AheadFinite ==
  ASSUME evals \in Seq(EvaluationStatus), NEW x, NEW s
  PROVE  IsFiniteSet(Ahead(x, s))
<1>1. DOMAIN evals = 1 .. Len(evals) /\ Len(evals) \in Nat
  OBVIOUS
<1>2. IsFiniteSet(DOMAIN evals)
  BY <1>1, FS_Interval
<1>3. Ahead(x, s) \subseteq DOMAIN evals
  BY DEF Ahead
<1> QED
  BY <1>2, <1>3, FS_Subset

\* What the server has just answered is right, whatever has moved.
LEMMA ListedRight ==
  ASSUME ReviewsInv, NEW s
  PROVE  ListRight(s, ListEvaluations(s, PageSize(EvaluationLimit)))
<1> DEFINE list == ListEvaluations(s, PageSize(EvaluationLimit))
<1> SUFFICES ASSUME NEW x \in DOMAIN evals
             PROVE  /\ x \in list => evals[x] = s
                    /\ evals[x] = s /\ x \notin list =>
                         Cardinality(Ahead(x, s)) >= PageSize(EvaluationLimit)
  BY DEF ListRight
<1>1. x \in list => evals[x] = s
  BY DEF ListEvaluations
<1>2. ASSUME evals[x] = s, x \notin list
      PROVE  Cardinality(Ahead(x, s)) >= PageSize(EvaluationLimit)
  <2> DEFINE same == {m \in DOMAIN evals : m > x /\ evals[m] = s}
  <2>1. ~(Cardinality(same) < PageSize(EvaluationLimit))
    BY <1>2 DEF ListEvaluations
  <2>2. same \subseteq Ahead(x, s) /\ IsFiniteSet(Ahead(x, s))
    BY AheadFinite DEF Ahead, ReviewsInv
  <2> HIDE DEF same
  <2>3. /\ Cardinality(same) \in Nat /\ Cardinality(Ahead(x, s)) \in Nat
        /\ Cardinality(same) <= Cardinality(Ahead(x, s))
    BY <2>2, FS_Subset, FS_CardinalityType
  <2> QED
    BY <2>1, <2>3, LimitType
<1> QED
  BY <1>1, <1>2

\* And stays right: an evaluation that changes or is new counts as moved.
LEMMA ListStaysRight ==
  ASSUME ReviewsInv, ReviewsInv', DOMAIN evals \subseteq DOMAIN evals',
         moved' = moved \cup {e \in DOMAIN evals' : e \notin DOMAIN evals \/ evals'[e] # evals[e]},
         NEW s, NEW list, ListRight(s, list)
  PROVE  ListRight(s, list)'
<1> SUFFICES ASSUME NEW x \in DOMAIN evals' \ moved'
             PROVE  /\ x \in list => evals'[x] = s
                    /\ evals'[x] = s /\ x \notin list =>
                         Cardinality(Ahead(x, s)') >= PageSize(EvaluationLimit)
  BY DEF ListRight
<1>1. x \in DOMAIN evals \ moved /\ evals'[x] = evals[x]
  OBVIOUS
<1>2. x \in list => evals'[x] = s
  BY <1>1 DEF ListRight
<1>3. ASSUME evals'[x] = s, x \notin list
      PROVE  Cardinality(Ahead(x, s)') >= PageSize(EvaluationLimit)
  <2>1. Cardinality(Ahead(x, s)) >= PageSize(EvaluationLimit)
    BY <1>1, <1>3 DEF ListRight
  <2>2. Ahead(x, s) \subseteq Ahead(x, s)'
    BY DEF Ahead
  <2>3. IsFiniteSet(Ahead(x, s)')
    <3>1. DOMAIN evals' = 1 .. Len(evals') /\ Len(evals') \in Nat
      BY DEF ReviewsInv
    <3>2. Ahead(x, s)' \subseteq DOMAIN evals'
      BY DEF Ahead
    <3>3. IsFiniteSet(DOMAIN evals')
      BY <3>1, FS_Interval
    <3> QED
      BY <3>2, <3>3, FS_Subset
  <2>4. /\ Cardinality(Ahead(x, s)) \in Nat /\ Cardinality(Ahead(x, s)') \in Nat
        /\ Cardinality(Ahead(x, s)) <= Cardinality(Ahead(x, s)')
    BY <2>2, <2>3, FS_Subset, FS_CardinalityType
  <2> QED
    BY <2>1, <2>4, LimitType
<1> QED
  BY <1>2, <1>3

\* A step that sets the cache and begins fetches.
LEMMA TouchStep ==
  ASSUME PagesInv, UNCHANGED reviewVars, NEW c, c = [k \in Keys |-> c[k]], SetCache(c),
         \A k \in Keys : IsEntry(c[k]) /\ Carries(c[k], cache[k])
  PROVE  CacheInv' /\ ListsInv' /\ OffersInv' /\ moved' \subseteq DOMAIN evals'
<1>0. /\ cache' = c /\ evals' = evals /\ reports' = reports
      /\ moved' = IF c[EvaluationStats].flight = "asked" /\ c[EvaluationStats].got = Undefined
                  THEN {} ELSE moved
  BY DEF SetCache, StartsAnew, reviewVars
<1>1. ASSUME NEW k \in Keys
      PROVE  EntryOK(k, c[k])
  <2>1. IsEntry(c[k]) /\ Carries(c[k], cache[k]) /\ EntryOK(k, cache[k])
    BY DEF PagesInv, CacheInv
  <2> QED
    BY <2>1 DEF EntryOK, Carries
<1>2. CacheInv'
  BY <1>0, <1>1 DEF CacheInv
<1> DEFINE d == c[EvaluationStats]
           e == cache[EvaluationStats]
<1>3. Carries(d, e) /\ Listed(e) /\ moved \subseteq DOMAIN evals
  BY StatsKeys DEF PagesInv, ListsInv, TabInv
<1>4. UnderWay(d) => UnderWay(e) /\ d.got = e.got
  BY <1>3 DEF UnderWay, Carries
<1>5. UnderWay(d) => moved' = moved
  BY <1>0 DEF UnderWay
<1>6. ListsInv'
  BY <1>0, <1>3, <1>4, <1>5 DEF ListsInv, Listed, UnderWay, ListRight, Ahead
<1>7. OffersInv'
  <2>1. Carries(c[ReportStats], cache[ReportStats])
    BY StatsKeys
  <2>2. /\ c[ReportStats].data = cache[ReportStats].data
        /\ UnderWay(c[ReportStats]) => UnderWay(cache[ReportStats])
                                       /\ c[ReportStats].got = cache[ReportStats].got
    BY <2>1 DEF UnderWay, Carries
  <2> QED
    BY <1>0, <2>2 DEF PagesInv, OffersInv, Honest, UnderWay
<1> QED
  BY <1>0, <1>2, <1>3, <1>6, <1>7

\* A step that changes one entry, and has something under way in it only if
\* what is under way is right.
LEMMA EntryStep ==
  ASSUME PagesInv, UNCHANGED <<reviewVars, moved>>, NEW k \in Keys, NEW d, EntryOK(k, d),
         cache' = [cache EXCEPT ![k] = d],
         k = EvaluationStats => Listed(d),
         k = ReportStats => /\ d.data # Undefined => Honest(d.data)
                            /\ UnderWay(d) => Honest(d.got)
  PROVE  CacheInv' /\ ListsInv' /\ OffersInv'
<1>0. evals' = evals /\ reports' = reports /\ moved' = moved
  BY DEF reviewVars
<1>1. cache = [j \in Keys |-> cache[j]] /\ \A j \in Keys : EntryOK(j, cache[j])
  BY DEF PagesInv, CacheInv
<1>2. cache' = [j \in Keys |-> cache'[j]] /\ cache'[k] = d
  BY <1>1
<1>3. \A j \in Keys : j # k => cache'[j] = cache[j]
  BY <1>1
<1>4. CacheInv'
  BY <1>1, <1>2, <1>3 DEF CacheInv
<1>5. Listed(cache'[EvaluationStats])
  BY <1>2, <1>3, StatsKeys DEF PagesInv, ListsInv
<1>6. ListsInv'
  BY <1>0, <1>5 DEF ListsInv, Listed, UnderWay, ListRight, Ahead
<1>7. OffersInv'
  BY <1>0, <1>2, <1>3, StatsKeys DEF PagesInv, OffersInv, Honest, UnderWay
<1> QED
  BY <1>4, <1>6, <1>7

\* The buttons of a row that can be pressed are those of a report that is
\* ready, however old the answer that the page shows.
LEMMA OfferedReady ==
  ASSUME PagesInv, NEW n \in 1 .. MaxReports, Offered(n) # {}
  PROVE  n \in DOMAIN reports /\ reports[n] = "ready"
<1> DEFINE e == cache[ReportStats]
<1>1. /\ ReportsPage(cache).shows = "table" /\ n \in DOMAIN ReportsPage(cache).table
      /\ ReportsPage(cache).table[n] = "ready"
  BY DEF Offered
<1>2. ~isLoading(cache, ReportStats) /\ ~e.error
  BY <1>1 DEF ReportsPage
<1>3. ReportsPage(cache).table = Data(cache, ReportStats, <<>>)
  BY <1>2 DEF ReportsPage
<1>4. e.data # Undefined
  BY <1>2 DEF isLoading
<1>5. ReportsPage(cache).table = e.data["all"]
  BY <1>3, <1>4 DEF Data
<1>6. DOMAIN e.data = {"all"} /\ Honest(e.data)
  BY <1>4, StatsKeys DEF PagesInv, CacheInv, OffersInv, EntryOK
<1> QED
  BY <1>1, <1>5, <1>6 DEF Honest

\* A request is answered.
LEMMA OnServerStep ==
  ASSUME PagesInv, UNCHANGED reviewVars, NEW k \in Keys, NEW r \in Requests(k), OnServer(k, r)
  PROVE  PagesInv'
<1> DEFINE e == cache[k]
           before == IF e.got = Undefined THEN <<>> ELSE e.got
<1>1. PICK known \in {Queues} \cup (IF upsets < MaxUpsets THEN {{}} ELSE {}) :
        LET got == [q \in DOMAIN before \cup {r} |->
                      IF q = r THEN Read(k, r, known) ELSE before[q]] IN
        /\ cache' = [cache EXCEPT ![k] = IF DOMAIN got = Requests(k) THEN ServerAnswers(e, got)
                                         ELSE [e EXCEPT !.got = got]]
        /\ upsets' = IF known = Queues THEN upsets ELSE upsets + 1
  BY DEF OnServer
<1> DEFINE got == [q \in DOMAIN before \cup {r} |-> IF q = r THEN Read(k, r, known) ELSE before[q]]
           d == IF DOMAIN got = Requests(k) THEN ServerAnswers(e, got) ELSE [e EXCEPT !.got = got]
<1>2. cache' = [cache EXCEPT ![k] = d] /\ upsets' = IF known = Queues THEN upsets ELSE upsets + 1
  BY <1>1
<1>3. /\ e.flight = "asked" /\ r \notin DOMAIN before
      /\ UNCHANGED <<tour, page, moved, call, own>>
  BY DEF OnServer
<1>4. EntryOK(k, e) /\ IsEntry(e)
  BY DEF PagesInv, CacheInv, EntryOK
<1>5. /\ DOMAIN before \subseteq Requests(k)
      /\ before # <<>> => UnderWay(e) /\ before = e.got
  BY <1>3, <1>4 DEF EntryOK, UnderWay
<1>6. /\ DOMAIN got = DOMAIN before \cup {r} /\ got[r] = Read(k, r, known)
      /\ \A q \in DOMAIN before : q # r => got[q] = before[q]
  OBVIOUS
<1> HIDE DEF before, got
<1>7. /\ IsEntry(d) /\ d.data = e.data /\ d.got = got
      /\ (d.flight = "answered" /\ DOMAIN got = Requests(k)) \/ d.flight = "asked"
  BY <1>3, <1>4, AnsweredEntry
<1> HIDE DEF d
<1>8. EntryOK(k, d)
  BY <1>4, <1>5, <1>6, <1>7 DEF EntryOK
<1>9. ASSUME k = EvaluationStats
      PROVE  Listed(d)
  <2>1. ListRight(r, got[r])
    BY <1>6, <1>9, StatsRead, ListedRight DEF PagesInv
  <2>2. Listed(e)
    BY <1>9 DEF PagesInv, ListsInv
  <2>3. ASSUME NEW q \in DOMAIN before
        PROVE  ListRight(q, got[q])
    <3>1. q # r /\ got[q] = before[q]
      BY <1>3, <1>6
    <3>2. UnderWay(e) /\ before = e.got
      BY <1>5, <2>3
    <3> QED
      BY <2>2, <3>1, <3>2 DEF Listed
  <2> QED
    BY <1>6, <1>7, <2>1, <2>3 DEF Listed
<1>10. ASSUME k = ReportStats
       PROVE  Honest(d.data) \/ d.data = Undefined
  BY <1>7, <1>10 DEF PagesInv, OffersInv
<1>11. ASSUME k = ReportStats
       PROVE  Honest(got)
  <2>1. r = "all" /\ got["all"] = ListReports(StatsPageSize)
    BY <1>6, <1>11, StatsKeys, StatsRead
  <2> DEFINE some == {m \in DOMAIN reports : m > Len(reports) - PageSize(StatsPageSize)}
  <2>2. got["all"] = [m \in some |-> reports[m]] /\ some \subseteq DOMAIN reports
    BY <2>1 DEF ListReports
  <2> HIDE DEF some
  <2> QED
    BY <2>2 DEF Honest
<1>12. CacheInv' /\ ListsInv' /\ OffersInv'
  BY <1>2, <1>3, <1>7, <1>8, <1>9, <1>10, <1>11, EntryStep
<1>13. TabInv'
  <2>1. upsets \in 0 .. MaxUpsets
    BY DEF PagesInv, TabInv
  <2>2. known = Queues \/ upsets < MaxUpsets
    OBVIOUS
  <2>3. upsets' \in 0 .. MaxUpsets
    BY <1>2, <2>1, <2>2, UpsetsAssumption
  <2> QED
    BY <1>3, <2>3 DEF PagesInv, TabInv, reviewVars
<1> QED
  BY <1>3, <1>12, <1>13 DEF PagesInv, CallInv, ReviewsInv, reviewVars, NoCall

\* An answer arrives, or a failure.
LEMMA EndStep ==
  ASSUME PagesInv, UNCHANGED reviewVars, NEW k \in Keys, Arrives(k) \/ Fails(k)
  PROVE  PagesInv'
<1> DEFINE e == cache[k]
<1>0. EntryOK(k, e) /\ IsEntry(e) /\ UNCHANGED <<tour, page, moved, call, own>>
  BY DEF PagesInv, CacheInv, EntryOK, Arrives, Fails
<1>1. ASSUME NEW d, IsEntry(d), d.flight = "idle", cache' = [cache EXCEPT ![k] = d],
             d.data # Undefined => DOMAIN d.data = Requests(k),
             k = ReportStats /\ d.data # Undefined => Honest(d.data)
      PROVE  CacheInv' /\ ListsInv' /\ OffersInv'
  <2>1. EntryOK(k, d) /\ ~UnderWay(d) /\ Listed(d)
    BY <1>1 DEF EntryOK, UnderWay, Listed
  <2> QED
    BY <1>0, <1>1, <2>1, EntryStep
<1>2. CASE Arrives(k)
  <2> DEFINE d == Succeed(e.got)
  <2>1. e.flight = "answered" /\ cache' = [cache EXCEPT ![k] = d] /\ upsets' = upsets
    BY <1>2 DEF Arrives
  <2>2. IsEntry(d) /\ d.flight = "idle" /\ d.data = e.got
    BY <1>0, EndedEntry
  <2> HIDE DEF d
  <2>3. DOMAIN d.data = Requests(k)
    BY <1>0, <2>1, <2>2 DEF EntryOK
  <2>4. k = ReportStats => Honest(d.data)
    BY <2>1, <2>2 DEF PagesInv, OffersInv, UnderWay
  <2>5. CacheInv' /\ ListsInv' /\ OffersInv'
    BY <1>1, <2>1, <2>2, <2>3, <2>4
  <2> QED
    BY <1>0, <2>1, <2>5 DEF PagesInv, CallInv, ReviewsInv, reviewVars, NoCall, TabInv
<1>3. CASE Fails(k)
  <2> DEFINE none == [r \in Requests(k) |-> {}]
             d == IF Swallows(k) THEN Succeed(none) ELSE Reject(e)
  <2>1. cache' = [cache EXCEPT ![k] = d] /\ upsets < MaxUpsets /\ upsets' = upsets + 1
    BY <1>3 DEF Fails
  <2>2. DOMAIN none = Requests(k) /\ (k = ReportStats => ~Swallows(k))
    BY DEF Swallows, ReportStats
  <2> HIDE DEF none
  <2>3. /\ IsEntry(d) /\ d.flight = "idle"
        /\ d.data = e.data \/ (d.data = none /\ Swallows(k))
    BY <1>0, EndedEntry
  <2> HIDE DEF d
  <2>4. d.data # Undefined => DOMAIN d.data = Requests(k)
    BY <1>0, <2>2, <2>3 DEF EntryOK
  <2>5. k = ReportStats /\ d.data # Undefined => Honest(d.data)
    BY <2>2, <2>3 DEF PagesInv, OffersInv
  <2>6. CacheInv' /\ ListsInv' /\ OffersInv'
    BY <1>1, <2>1, <2>3, <2>4, <2>5
  <2>7. upsets' \in 0 .. MaxUpsets
    BY <2>1, UpsetsAssumption DEF PagesInv, TabInv
  <2> QED
    BY <1>0, <2>6, <2>7 DEF PagesInv, CallInv, ReviewsInv, reviewVars, NoCall, TabInv
<1> QED
  BY <1>2, <1>3

\* A timer fires, a page is visited, or queries are invalidated: the cache.
LEMMA FetchesBegin ==
  ASSUME PagesInv, UNCHANGED reviewVars,
         \/ \E k \in Keys : SetCache([cache EXCEPT ![k] = Refetch(@)])
         \/ \E p, old : SetCache(Mounted(cache, p, old))
         \/ \E prefixes : Invalidate(prefixes)
  PROVE  CacheInv' /\ ListsInv' /\ OffersInv' /\ moved' \subseteq DOMAIN evals'
<1>0. cache = [k \in Keys |-> cache[k]] /\ \A k \in Keys : IsEntry(cache[k])
  BY DEF PagesInv, CacheInv, EntryOK
<1>1. \A k \in Keys : Carries(cache[k], cache[k])
  BY DEF Carries
<1>2. ASSUME NEW k \in Keys, SetCache([cache EXCEPT ![k] = Refetch(@)])
      PROVE  CacheInv' /\ ListsInv' /\ OffersInv' /\ moved' \subseteq DOMAIN evals'
  <2> DEFINE c == [cache EXCEPT ![k] = Refetch(cache[k])]
  <2>1. SetCache(c)
    BY <1>2
  <2>2. c = [j \in Keys |-> c[j]] /\ c[k] = Refetch(cache[k])
    BY <1>0
  <2>3. \A j \in Keys : j # k => c[j] = cache[j]
    BY <1>0
  <2> HIDE DEF c
  <2>4. \A j \in Keys : IsEntry(c[j]) /\ Carries(c[j], cache[j])
    BY <1>0, <1>1, <2>2, <2>3, TouchedEntry
  <2> QED
    BY <2>1, <2>2, <2>4, TouchStep
<1>3. ASSUME NEW p, NEW old, SetCache(Mounted(cache, p, old))
      PROVE  CacheInv' /\ ListsInv' /\ OffersInv' /\ moved' \subseteq DOMAIN evals'
  <2> DEFINE c == Mounted(cache, p, old)
  <2>1. c = [j \in Keys |-> c[j]]
    BY DEF Mounted
  <2>2. \A j \in Keys : c[j] = cache[j] \/ c[j] = MountQuery(cache[j], old)
    BY DEF Mounted
  <2> HIDE DEF c
  <2>3. \A j \in Keys : IsEntry(c[j]) /\ Carries(c[j], cache[j])
    BY <1>0, <1>1, <2>2, TouchedEntry
  <2>4. SetCache(c)
    BY <1>3 DEF c
  <2> QED
    BY <2>1, <2>3, <2>4, TouchStep
<1>4. ASSUME NEW prefixes, Invalidate(prefixes)
      PROVE  CacheInv' /\ ListsInv' /\ OffersInv' /\ moved' \subseteq DOMAIN evals'
  <2> DEFINE Hit(k) == k \in tour.keys /\ \E p \in prefixes : Matches(k, p)
             c == [k \in Keys |-> IF Hit(k) THEN InvalidateQuery(cache[k], k \in Active(page))
                                  ELSE cache[k]]
  <2>1. SetCache(c)
    BY <1>4 DEF Invalidate
  <2> HIDE DEF Hit
  <2>2. c = [j \in Keys |-> c[j]]
    OBVIOUS
  <2>3. \A j \in Keys : c[j] = cache[j] \/ c[j] = InvalidateQuery(cache[j], j \in Active(page))
    OBVIOUS
  <2> HIDE DEF c
  <2>4. \A j \in Keys : IsEntry(c[j]) /\ Carries(c[j], cache[j])
    BY <1>0, <1>1, <2>3, TouchedEntry
  <2> QED
    BY <2>1, <2>2, <2>4, TouchStep
<1> QED
  BY <1>2, <1>3, <1>4

\* The calls that send and download reports.
LEMMA CallStep ==
  ASSUME PagesInv, UNCHANGED reviewVars,
         \/ \E n \in 1 .. MaxReports, act \in {"send", "download"} : Press(n, act)
         \/ ServesCall \/ CallSucceeds \/ CallFails
  PROVE  PagesInv'
<1>0. /\ ReviewsInv' /\ evals' = evals /\ reports' = reports
      /\ NoCall.at = "none" /\ (call # NoCall => call \in Calls)
  BY DEF PagesInv, ReviewsInv, reviewVars, NoCall, CallInv
\* The cache is left alone.
<1>1. ASSUME UNCHANGED <<tour, page, cache, moved>>
      PROVE  CacheInv' /\ ListsInv' /\ OffersInv'
  BY <1>0, <1>1 DEF PagesInv, CacheInv, ListsInv, Listed, ListRight, Ahead, UnderWay,
                    OffersInv, Honest
<1>2. ASSUME NEW n \in 1 .. MaxReports, NEW act \in {"send", "download"}, Press(n, act)
      PROVE  PagesInv'
  <2>1. /\ call' = [at |-> "request", act |-> act, on |-> n] /\ own' = TRUE
        /\ UNCHANGED <<tour, page, cache, moved, upsets>> /\ Offered(n) # {}
    BY <1>2 DEF Press
  <2>2. n \in DOMAIN reports /\ reports[n] = "ready"
    BY <2>1, OfferedReady
  <2>3. CallInv'
    BY <1>0, <2>1, <2>2 DEF CallInv, Calls
  <2>4. TabInv'
    BY <1>0, <2>1 DEF PagesInv, TabInv
  <2> QED
    BY <1>0, <1>1, <2>1, <2>3, <2>4 DEF PagesInv
<1>3. CASE ServesCall
  <2>1. /\ call \in Calls /\ call.at = "request" /\ reports[call.on] = "ready"
    BY <1>0, <1>3 DEF ServesCall, PagesInv, CallInv
  <2>2. /\ call' = [call EXCEPT !.at = "served"]
        /\ UNCHANGED <<tour, page, cache, moved, own, upsets>>
    BY <1>3, <2>1 DEF ServesCall
  <2>3. call' \in Calls /\ call'.at = "served"
    BY <2>1, <2>2 DEF Calls
  <2>4. CallInv' /\ TabInv'
    BY <1>0, <2>2, <2>3 DEF CallInv, PagesInv, TabInv
  <2> QED
    BY <1>0, <1>1, <2>2, <2>4 DEF PagesInv
<1>4. CASE CallSucceeds
  <2>1. call' = NoCall /\ own' = FALSE /\ UNCHANGED <<tour, page, upsets>>
    BY <1>4 DEF CallSucceeds
  <2>2. \/ UNCHANGED <<cache, moved>>
        \/ \E prefixes : Invalidate(prefixes)
    BY <1>4 DEF CallSucceeds
  <2>3. CacheInv' /\ ListsInv' /\ OffersInv' /\ moved' \subseteq DOMAIN evals'
    BY <1>0, <1>1, <2>1, <2>2, FetchesBegin DEF PagesInv, TabInv
  <2> QED
    BY <1>0, <2>1, <2>3 DEF PagesInv, TabInv, CallInv
<1>5. CASE CallFails
  <2>1. /\ call' = NoCall /\ own' = FALSE /\ UNCHANGED <<tour, page, cache, moved>>
        /\ call # NoCall /\ (call.at = "refused" \/ upsets < MaxUpsets)
        /\ upsets' = IF call.at = "refused" THEN upsets ELSE upsets + 1
    BY <1>5 DEF CallFails
  <2>2. upsets' \in 0 .. MaxUpsets
    BY <2>1, UpsetsAssumption DEF PagesInv, TabInv
  <2> QED
    BY <1>0, <1>1, <2>1, <2>2 DEF PagesInv, TabInv, CallInv
<1> QED
  BY <1>2, <1>3, <1>4, <1>5

\* Everything that the tab does.
LEMMA TabStepInv ==
  ASSUME PagesInv, TabStep, UNCHANGED reviewVars
  PROVE  PagesInv'
<1>0. ReviewsInv' /\ (call' = call => CallInv')
  BY DEF PagesInv, ReviewsInv, reviewVars, NoCall, CallInv
<1>1. ASSUME NEW k \in Keys, Fetch(k)
      PROVE  PagesInv'
  BY <1>1, OnServerStep DEF Fetch
<1>2. ASSUME NEW k \in Keys, Arrives(k) \/ Fails(k)
      PROVE  PagesInv'
  BY <1>2, EndStep
<1>3. ASSUME NEW k \in Keys, Poll(k)
      PROVE  PagesInv'
  <2>1. SetCache([cache EXCEPT ![k] = Refetch(@)]) /\ UNCHANGED <<tour, page, call, own, upsets>>
    BY <1>3 DEF Poll
  <2>2. CacheInv' /\ ListsInv' /\ OffersInv' /\ moved' \subseteq DOMAIN evals'
    BY <2>1, FetchesBegin
  <2> QED
    BY <1>0, <2>1, <2>2 DEF PagesInv, TabInv
<1>4. ASSUME NEW p \in Page, Visit(p)
      PROVE  PagesInv'
  <2>1. /\ \E old : SetCache(Mounted(cache, p, old))
        /\ p \in tour.pages /\ page' = p /\ own' = FALSE /\ UNCHANGED <<tour, call, upsets>>
    BY <1>4 DEF Visit
  <2>2. CacheInv' /\ ListsInv' /\ OffersInv' /\ moved' \subseteq DOMAIN evals'
    BY <2>1, FetchesBegin
  <2> QED
    BY <1>0, <2>1, <2>2 DEF PagesInv, TabInv
<1>5. ASSUME NEW type \in {"evaluation_created", "report_generated"}, Deliver(type)
      PROVE  PagesInv'
  <2>1. /\ \E prefixes : Invalidate(prefixes)
        /\ upsets < MaxUpsets /\ upsets' = upsets + 1 /\ UNCHANGED <<tour, page, call, own>>
    BY <1>5 DEF Deliver
  <2>2. CacheInv' /\ ListsInv' /\ OffersInv' /\ moved' \subseteq DOMAIN evals'
    BY <2>1, FetchesBegin
  <2>3. upsets' \in 0 .. MaxUpsets
    BY <2>1, UpsetsAssumption DEF PagesInv, TabInv
  <2> QED
    BY <1>0, <2>1, <2>2, <2>3 DEF PagesInv, TabInv
<1> QED
  BY <1>1, <1>2, <1>3, <1>4, <1>5, CallStep DEF TabStep

\* Everything that happens behind the API: what an answer says of evaluations
\* that have not moved stays right, and what it says of ready reports too.
LEMMA BackendStepInv ==
  ASSUME PagesInv, BackendStep
  PROVE  PagesInv'
<1>0. /\ UNCHANGED <<tour, page, cache, call, own, upsets>>
      /\ moved' = moved \cup {e \in DOMAIN evals' : e \notin DOMAIN evals \/ evals'[e] # evals[e]}
  BY DEF BackendStep
<1>1. ReviewsInv' /\ RowsKept
  BY WorkerStepInv, ApiStepInv DEF BackendStep, PagesInv
<1>2. TabInv' /\ CacheInv'
  BY <1>0, <1>1 DEF PagesInv, TabInv, CacheInv, RowsKept
<1>3. ListsInv'
  <2> DEFINE e == cache[EvaluationStats]
  <2>1. ASSUME UnderWay(e), NEW s \in DOMAIN e.got
        PROVE  ListRight(s, e.got[s])'
    <3>1. ListRight(s, e.got[s])
      BY <2>1 DEF PagesInv, ListsInv, Listed
    <3> DEFINE list == e.got[s]
    <3>2. list' = list
      BY <1>0
    <3>3. ASSUME NEW l, ListRight(s, l)
          PROVE  ListRight(s, l)'
      BY <1>0, <1>1, <3>3, ListStaysRight DEF PagesInv, RowsKept
    <3> QED
      BY <1>0, <3>1, <3>3 DEF ListRight
  <2> QED
    BY <1>0, <2>1 DEF ListsInv, Listed, UnderWay
<1>4. OffersInv'
  BY <1>0, <1>1 DEF PagesInv, OffersInv, UnderWay, Honest, RowsKept
<1>5. CallInv'
  BY <1>0, <1>1 DEF PagesInv, CallInv, RowsKept
<1> QED
  BY <1>1, <1>2, <1>3, <1>4, <1>5 DEF PagesInv

\* The page that is shown first has begun its fetches.
LEMMA PagesInit ==
  ASSUME Init
  PROVE  PagesInv
<1>1. ReviewsInv
  <2>1. NoTask \in Message /\ HasAttempt(NoTask)
    <3>1. MaxAttempts \in 0 .. MaxAttempts
      BY ReviewsAssumption
    <3> QED
      BY <3>1 DEF NoTask, Message, HasAttempt, TaskState, TaskAction
  <2>2. reports = <<>> /\ Len(reports) <= MaxReports
    BY ReviewsAssumption DEF Init, ReviewsInit
  <2> QED
    BY <2>1, <2>2, ReviewsAssumption DEF Init, ReviewsInit, ReviewsInv
<1>2. TabInv /\ CallInv
  <2>1. own \in BOOLEAN
    BY DEF Init
  <2>2. upsets \in 0 .. MaxUpsets
    BY UpsetsAssumption DEF Init
  <2> QED
    BY <2>1, <2>2 DEF Init, TabInv, CallInv
<1> DEFINE yes == TRUE
<1>3. /\ NewEntry.data = Undefined /\ NewEntry.flight = "idle" /\ NewEntry.got = Undefined
      /\ IsEntry(NewEntry)
  BY DEF NewEntry, IsEntry
<1>4. \A k \in Keys : cache[k] = NewEntry \/ cache[k] = MountQuery(NewEntry, yes)
  BY DEF Init, Mounted
<1> HIDE DEF yes
<1>5. \A k \in Keys : IsEntry(cache[k]) /\ Carries(cache[k], NewEntry)
  BY <1>3, <1>4, TouchedEntry DEF Carries
<1>6. cache = [k \in Keys |-> cache[k]]
  BY DEF Init, Mounted
<1>7. \A k \in Keys : EntryOK(k, cache[k]) /\ ~UnderWay(cache[k]) /\ cache[k].data = Undefined
  BY <1>3, <1>5 DEF EntryOK, UnderWay, Carries
<1> QED
  BY <1>1, <1>2, <1>6, <1>7, StatsKeys DEF PagesInv, CacheInv, ListsInv, Listed, OffersInv

\* The invariant holds throughout.
LEMMA PagesAlways == Spec => []PagesInv
<1>1. PagesInv /\ [Next]_vars => PagesInv'
  <2> SUFFICES ASSUME PagesInv, [Next]_vars
               PROVE  PagesInv'
    OBVIOUS
  <2>1. CASE UNCHANGED vars
    <3>1. UNCHANGED <<evals, reports, tasks, worker, generating, updates>>
          /\ UNCHANGED <<tour, page, cache, moved, call, own, upsets>>
      BY <2>1 DEF vars, reviewVars, pageVars
    <3>2. ReviewsInv' /\ TabInv' /\ CallInv'
      BY <3>1 DEF PagesInv, ReviewsInv, TabInv, CallInv
    <3>3. CacheInv' /\ OffersInv'
      BY <3>1 DEF PagesInv, CacheInv, OffersInv, UnderWay, Honest
    <3>4. ListsInv'
      BY <3>1 DEF PagesInv, ListsInv, Listed, ListRight, Ahead, UnderWay
    <3> QED
      BY <3>2, <3>3, <3>4 DEF PagesInv
  <2> QED
    BY <2>1, TabStepInv, BackendStepInv DEF Next
<1> QED
  BY <1>1, PagesInit, PTL DEF Spec

-----------------------------------------------------------------------------
(* Theorems *)

\* The backend's rows and messages, the cache and the pages stay within their
\* types; an entry with an answer has one for each of its requests.
THEOREM ReviewsTyped == Spec => []TypeOK
<1>1. PagesInv => TypeOK
  <2> SUFFICES ASSUME PagesInv
               PROVE  TypeOK
    OBVIOUS
  <2>1. ReviewsTypeOK
    BY DEF PagesInv, ReviewsInv, ReviewsTypeOK, Message, TaskState, TaskAction, Work
  <2>2. call.at \in {"none", "request", "served", "refused"}
    BY DEF PagesInv, CallInv, Calls, NoCall
  <2> QED
    BY <2>1, <2>2 DEF PagesInv, TabInv, CacheInv, EntryOK, IsEntry, TypeOK
<1> QED
  BY <1>1, PagesAlways, PTL

\* The evaluations page never joins an answer of an older fetch to one of the
\* fetch under way: an evaluation that has not changed since the two requests
\* began is in no list but that of its status, and is left out of that one only
\* behind a page of newer ones (evaluationsApi.getStats, ListEvaluations).
THEOREM EvaluationsListedOnce == Spec => []ListedOnce
<1>1. PagesInv => ListedOnce
  <2> SUFFICES ASSUME PagesInv, cache[EvaluationStats].flight = "answered",
                      NEW s \in {"pending", "completed"}
               PROVE  ListRight(s, cache[EvaluationStats].got[s])
    BY DEF ListedOnce, ListRight
  <2>1. s \in DOMAIN cache[EvaluationStats].got
    BY StatsKeys DEF PagesInv, CacheInv, EntryOK
  <2> QED
    BY <2>1 DEF PagesInv, ListsInv, Listed, UnderWay
<1> QED
  BY <1>1, PagesAlways, PTL

\* No call to send or to download a report is refused, however old the answer
\* that the page offered it from: a report that was ready stays ready
\* (reports/page.tsx, SendReport, DownloadReportPDF).
THEOREM OffersKept == Spec => []OfferIsGood
<1>1. PagesInv => OfferIsGood
  BY DEF PagesInv, CallInv, Calls, NoCall, OfferIsGood
<1> QED
  BY <1>1, PagesAlways, PTL

=============================================================================
