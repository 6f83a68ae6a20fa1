------------------------------ MODULE Reviews -------------------------------
(***************************************************************************)
(* What follows an interview, in the interview platform's backend: the     *)
(* evaluations and the reports of one interview, the API handlers that     *)
(* write them, and the workers that take their messages from the Nzovu     *)
(* queues "evaluation-processor" and "report-generator", one worker for    *)
(* each.  A message is external: delivered at most MaxAttempts times, each *)
(* under a lease.                                                          *)
(*                                                                         *)
(* Scores, averages and recommendations are left out.  So are the events   *)
(* that are broadcast: there are other interviews, and an event about      *)
(* anyone's evaluation or report may reach a dashboard at any time.        *)
(***************************************************************************)
EXTENDS Naturals, Sequences, FiniteSets

CONSTANTS
  MaxEvaluations, \* bound: evaluations
  Handlers,       \* concurrent calls of GenerateReport
  MaxReports,     \* bound: reports
  MaxAttempts,    \* deliveries of a message (3 in the code)
  MaxUpdates,     \* bound: calls of UpdateEvaluation, and retries of reports
  MaxPageSize,    \* what the API takes as pageSize (100 in the code),
  DefaultPageSize, \* and what it takes instead of any other (20)
  EvaluationLimit \* how many evaluations the dashboard asks for (100)

ASSUME ReviewsAssumption ==
  /\ MaxEvaluations \in Nat /\ MaxReports \in Nat
  /\ MaxAttempts \in Nat \ {0} /\ MaxUpdates \in Nat
  /\ DefaultPageSize \in Nat \ {0} /\ EvaluationLimit \in Nat \ {0}

VARIABLES
  evals,       \* statuses of the evaluations, in the order of creation
  reports,     \* statuses of the reports, in the order of creation
  tasks,       \* the message of every evaluation and report
  worker,      \* what the worker of every queue is at
  generating,  \* handlers that found no report and have yet to insert theirs
  updates

reviewVars == <<evals, reports, tasks, worker, generating, updates>>

\* "in_review" stands for "failed" too: neither is listed.
EvaluationStatus == {"pending", "in_review", "completed"}

Queues == {"evaluation-processor", "report-generator"}
Task == ({"evaluation-processor"} \X (1 .. MaxEvaluations))
        \cup ({"report-generator"} \X (1 .. MaxReports))

NoTask == [at |-> "none", left |-> MaxAttempts, action |-> "none"]
Idle == [step |-> "idle"]

ReviewsInit ==
  /\ evals = <<>> /\ reports = <<>>
  /\ tasks = [t \in Task |-> NoTask]
  /\ worker = [q \in Queues |-> Idle]
  /\ generating = {} /\ updates = 0

-----------------------------------------------------------------------------
(* The API *)

\* PostMessage, or its failure, which the handlers ignore.
Post(task, action) ==
  tasks' \in {tasks, [tasks EXCEPT ![task] =
                        [NoTask EXCEPT !.at = "queued", !.action = action]]}

CreateEvaluation ==
  /\ Len(evals) < MaxEvaluations
  /\ evals' = Append(evals, "pending")
  /\ Post(<<"evaluation-processor", Len(evals) + 1>>, "process_evaluation")
  /\ UNCHANGED <<reports, worker, generating, updates>>

\* No event, no look at the old status.
UpdateEvaluation(e, status) ==
  /\ e \in DOMAIN evals /\ updates < MaxUpdates
  /\ evals' = [evals EXCEPT ![e] = status] /\ updates' = updates + 1
  /\ UNCHANGED <<reports, tasks, worker, generating>>

\* GenerateReport up to its last check: the interview has no report and at
\* least one evaluation.
ChecksReport(h) ==
  /\ h \notin generating
  /\ reports = <<>> /\ evals # <<>>
  /\ generating' = generating \cup {h}
  /\ UNCHANGED <<evals, reports, tasks, worker, updates>>

\* The rest: the payload of its message names no action.
CreatesReport(h) ==
  /\ h \in generating /\ Len(reports) < MaxReports
  /\ generating' = generating \ {h}
  /\ reports' = Append(reports, "pending")
  /\ Post(<<"report-generator", Len(reports) + 1>>, "none")
  /\ UNCHANGED <<evals, worker, updates>>

\* Someone posts the message again, with the action that the worker looks for.
AdminRetry(n) ==
  /\ n \in DOMAIN reports /\ tasks[<<"report-generator", n>>].at \in {"none", "done", "dead"}
  /\ reports[n] = "pending"
  /\ updates < MaxUpdates /\ updates' = updates + 1
  /\ tasks' = [tasks EXCEPT ![<<"report-generator", n>>] =
                 [NoTask EXCEPT !.at = "queued", !.action = "generate_report"]]
  /\ UNCHANGED <<evals, reports, worker, generating>>

-----------------------------------------------------------------------------
(* The workers *)

Take(q, n) ==
  /\ worker[q] = Idle /\ tasks[<<q, n>>].at = "queued"
  /\ worker' = [worker EXCEPT ![q] = [step |-> "reads", on |-> n,
                                      action |-> tasks[<<q, n>>].action]]
  /\ tasks' = [tasks EXCEPT ![<<q, n>>].at = "leased", ![<<q, n>>].left = @ - 1]
  /\ UNCHANGED <<evals, reports, generating, updates>>

Has(q, step, n) == worker[q].step = step /\ worker[q].on = n

\* The worker goes on to its next message, and the one it had is acknowledged
\* or is not: AcknowledgeMessage is lost, or too late, or is not come to.
Ends(q, n) ==
  /\ worker' = [worker EXCEPT ![q] = Idle]
  /\ tasks' \in {tasks} \cup {[tasks EXCEPT ![t].at = "done"] :
                              t \in {u \in {<<q, n>>} : tasks[u].at = "leased"}}

\* processMessage up to its look at the row: one that cannot be had, or has
\* nothing to be changed, ends it.
Reads(q, n, wanted) ==
  /\ Has(q, "reads", n)
  /\ \/ Ends(q, n)
     \/ wanted /\ worker' = [worker EXCEPT ![q].step = "writes"] /\ UNCHANGED tasks
  /\ UNCHANGED <<evals, reports, generating, updates>>

\* EvaluationProcessorWorker.processMessage.
ReadsEvaluation(e) ==
  Reads("evaluation-processor", e, e \in DOMAIN evals /\ evals[e] # "completed")

SetsCompleted(e) ==
  /\ Has("evaluation-processor", "writes", e)
  /\ evals' = [evals EXCEPT ![e] = "completed"]
  /\ Ends("evaluation-processor", e)
  /\ UNCHANGED <<reports, generating, updates>>

\* ReportGeneratorWorker.processMessage: an unknown action is acknowledged.
ReadsReport(n) ==
  Reads("report-generator", n,
        /\ worker["report-generator"].action = "generate_report"
        /\ n \in DOMAIN reports /\ reports[n] # "ready")

SetsReady(n) ==
  /\ Has("report-generator", "writes", n)
  /\ reports' = [reports EXCEPT ![n] = "ready"]
  /\ Ends("report-generator", n)
  /\ UNCHANGED <<evals, generating, updates>>

\* The row cannot be written, or the evaluations of the interview not be had:
\* no acknowledgement.  Or the worker stops, and starts again.
GivesUp(q) ==
  /\ worker[q] # Idle
  /\ worker' = [worker EXCEPT ![q] = Idle]
  /\ UNCHANGED <<evals, reports, tasks, generating, updates>>

\* External: the message is delivered again, or is dead.
LeaseExpires(task) ==
  /\ tasks[task].at = "leased"
  /\ tasks' = [tasks EXCEPT ![task].at = IF tasks[task].left > 0 THEN "queued" ELSE "dead"]
  /\ UNCHANGED <<evals, reports, worker, generating, updates>>

WorkerStep ==
  \/ \E task \in Task : Take(task[1], task[2]) \/ LeaseExpires(task)
  \/ \E e \in 1 .. MaxEvaluations : ReadsEvaluation(e) \/ SetsCompleted(e)
  \/ \E n \in 1 .. MaxReports : ReadsReport(n) \/ SetsReady(n)
  \/ \E q \in Queues : GivesUp(q)

ApiStep ==
  \/ CreateEvaluation
  \/ \E e \in 1 .. MaxEvaluations, status \in EvaluationStatus : UpdateEvaluation(e, status)
  \/ \E h \in Handlers : ChecksReport(h) \/ CreatesReport(h)
  \/ \E n \in 1 .. MaxReports : AdminRetry(n)

-----------------------------------------------------------------------------
(* What the API reads *)

\* What the API makes of the pageSize of a request.
PageSize(asked) == IF asked \in 1 .. MaxPageSize THEN asked ELSE DefaultPageSize

\* Mutant: the status is not passed on to the query.
ListAllEvaluations(status, limit) ==
  {n \in DOMAIN evals : Cardinality({m \in DOMAIN evals : m > n}) < limit}

\* The newest evaluations of a status, at most limit of them.  created_at is
\* in seconds: which of two of one second is the newer is the database's choice.
ListEvaluations(status, limit) ==
  {n \in DOMAIN evals :
     /\ evals[n] = status
     /\ Cardinality({m \in DOMAIN evals : m > n /\ evals[m] = status}) < limit}

\* The newest reports, at most a page of them.
ListReports(asked) ==
  [n \in {m \in DOMAIN reports : m > Len(reports) - PageSize(asked)} |-> reports[n]]

\* GetDashboardStats.  Its counts are of three tables read one after the
\* other; that a write falls between two of them is left out.
DashboardStats ==
  [totalInterviews |-> 1,
   pendingEvaluations |-> Cardinality({n \in DOMAIN evals : evals[n] = "pending"}),
   completedReports |-> Cardinality({n \in DOMAIN reports : reports[n] = "ready"})]

QueueCount(q, at) == Cardinality({t \in Task : t[1] = q /\ tasks[t].at = at})

\* ListQueues: zeros for a queue whose state could not be had.  A dead message
\* is in the queue's DLQ and no longer counted.
QueueStats(known) ==
  [q \in Queues |->
     IF q \notin known THEN [inQueue |-> 0, processing |-> 0, completed |-> 0, failed |-> 0]
     ELSE [inQueue |-> QueueCount(q, "queued"), processing |-> QueueCount(q, "leased"),
           completed |-> QueueCount(q, "done"), failed |-> 0]]

\* GetRecentMessages, of the queues that answer: a peek shows what waits.
RecentMessages(known) == {t \in Task : t[1] \in known /\ tasks[t].at = "queued"}

-----------------------------------------------------------------------------
ReviewsTypeOK ==
  /\ evals \in Seq(EvaluationStatus) /\ Len(evals) <= MaxEvaluations
  /\ reports \in Seq({"pending", "ready"}) /\ Len(reports) <= MaxReports
  /\ tasks \in [Task -> [at: {"none", "queued", "leased", "done", "dead"},
                         left: 0 .. MaxAttempts,
                         action: {"none", "process_evaluation", "generate_report"}]]
  /\ worker \in [Queues -> {Idle} \cup [step: {"reads", "writes"}, on: Nat,
                                        action: {"none", "process_evaluation", "generate_report"}]]
  /\ generating \subseteq Handlers
  /\ updates \in 0 .. MaxUpdates

=============================================================================
