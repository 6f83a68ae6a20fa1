---------------------------- MODULE ReviewPages -----------------------------
(***************************************************************************)
(* The dashboard's pages about evaluations, reports and queues and its     *)
(* start page, in one browser tab, on top of the query cache and Reviews.  *)
(* All their queries are polled.  The query of the evaluations page sends  *)
(* two requests at once; the reports page also sends reports.              *)
(*                                                                         *)
(*   tour      the pages that the user goes between, and the queries that  *)
(*             are followed: those of one page run side by side, each by    *)
(*             itself.  Its bounds are on the backend while it lasts        *)
(*   page      the page shown                                              *)
(*   cache     the entries of the queries                                  *)
(*   moved     history: evaluations that have changed status, or are new,  *)
(*             since the requests of the evaluations page began            *)
(*   call      the send or download that the tab has under way             *)
(*   own       the page shown started it: isPending                        *)
(*   upsets    requests that have failed and events that have come         *)
(***************************************************************************)
EXTENDS Reviews, QueryCache, Functions

CONSTANTS
  Tours,          \* [pages, keys, evaluations, reports, updates]: what tour may be
  StatsPageSize,  \* pageSize that the reports page asks for (1000),
  RecentPageSize, \* and the start page (5)
  MaxUpsets       \* bound: failures and events.  Without one, events that come
                  \* faster than answers would restart a query for ever

ASSUME UpsetsAssumption == MaxUpsets \in Nat

VARIABLES tour, page, cache, moved, call, own, upsets

pageVars == <<tour, page, cache, moved, call, own, upsets>>
vars == <<reviewVars, pageVars>>

EvaluationStats == <<"evaluations", "stats">>
ReportStats == <<"reports", "stats">>

\* The queries that a page observes.
Observed ==
  [dashboard |-> {<<"dashboardStats">>, <<"pendingEvaluations">>, <<"recentReports">>},
   evaluations |-> {EvaluationStats},
   reports |-> {ReportStats},
   queues |-> {<<"queues">>, <<"recent-messages">>}]

Page == DOMAIN Observed
Keys == UNION {Observed[p] : p \in Page}

NoCall == [at |-> "none"]

Active(p) == Observed[p] \cap tour.keys

Mounted(c, p, old) ==
  [k \in Keys |-> IF k \in Active(p) THEN MountQuery(c[k], old) ELSE c[k]]

Init ==
  /\ ReviewsInit
  /\ tour \in Tours /\ page \in tour.pages
  /\ cache = Mounted([k \in Keys |-> NewEntry], page, TRUE)
  /\ moved = {} /\ call = NoCall /\ own = FALSE /\ upsets = 0

-----------------------------------------------------------------------------
(* Queries *)

\* The requests of a query function: evaluationsApi.getStats sends two.
Requests(k) == IF k = EvaluationStats THEN {"pending", "completed"} ELSE {"all"}

\* What the server answers to a request; known is the set of queues that it
\* has the state of at that moment.
Read(k, request, known) ==
  CASE k = EvaluationStats -> ListEvaluations(request, PageSize(EvaluationLimit))
    [] k = ReportStats -> ListReports(StatsPageSize)
    [] k = <<"dashboardStats">> -> DashboardStats
    [] k = <<"pendingEvaluations">> -> ListEvaluations("pending", EvaluationLimit)
    [] k = <<"recentReports">> -> ListReports(RecentPageSize)
    [] k = <<"queues">> -> QueueStats(known)
    [] k = <<"recent-messages">> -> RecentMessages(known)

Answers(k, known) == [r \in Requests(k) |-> Read(k, r, known)]

\* A query function that catches its errors returns nothing found.
Swallows(k) == k = <<"pendingEvaluations">>

\* One request is answered; the query function goes on once all are.
OnServer(k, request) ==
  LET e == cache[k]
      before == IF e.got = Undefined THEN <<>> ELSE e.got IN
  /\ e.flight = "asked" /\ request \notin DOMAIN before
  /\ \E known \in {Queues} \cup (IF upsets < MaxUpsets THEN {{}} ELSE {}) :
       LET got == [r \in DOMAIN before \cup {request} |->
                     IF r = request THEN Read(k, request, known) ELSE before[r]] IN
       /\ cache' = [cache EXCEPT ![k] = IF DOMAIN got = Requests(k) THEN ServerAnswers(e, got)
                                        ELSE [e EXCEPT !.got = got]]
       /\ upsets' = IF known = Queues THEN upsets ELSE upsets + 1
  /\ UNCHANGED <<tour, page, moved, call, own>>

\* Mutant: the first answer is enough.
ArrivesFirst(k) ==
  /\ cache[k].got # Undefined
  /\ cache' = [cache EXCEPT ![k] = Succeed(cache[k].got)]
  /\ UNCHANGED <<tour, page, moved, call, own, upsets>>

\* The interviews that getStats then fetches one by one name the candidates;
\* one that cannot be had leaves its evaluation in the list.
Arrives(k) ==
  /\ cache[k].flight = "answered"
  /\ cache' = [cache EXCEPT ![k] = Succeed(cache[k].got)]
  /\ UNCHANGED <<tour, page, moved, call, own, upsets>>

Fails(k) ==
  /\ Fetching(cache[k]) /\ upsets < MaxUpsets
  /\ upsets' = upsets + 1
  /\ cache' = [cache EXCEPT ![k] = IF Swallows(k) THEN Succeed([r \in Requests(k) |-> {}])
                                   ELSE Reject(cache[k])]
  /\ UNCHANGED <<tour, page, moved, call, own>>

\* The history of the evaluations page's requests begins with them.
StartsAnew(c) ==
  moved' = IF c[EvaluationStats].flight = "asked" /\ c[EvaluationStats].got = Undefined
           THEN {} ELSE moved

SetCache(c) == cache' = c /\ StartsAnew(c)

\* Mutant: the timer fetches only what is missing or invalidated.
PollInvalidated(k) ==
  /\ k \in Active(page)
  /\ SetCache([cache EXCEPT ![k] = MountQuery(@, FALSE)])
  /\ UNCHANGED <<tour, page, call, own, upsets>>

\* refetchInterval, or a focus late enough.
Poll(k) ==
  /\ k \in Active(page)
  /\ SetCache([cache EXCEPT ![k] = Refetch(@)])
  /\ UNCHANGED <<tour, page, call, own, upsets>>

Visit(p) ==
  /\ p \in tour.pages \ {page}
  /\ page' = p /\ own' = FALSE
  /\ \E old \in BOOLEAN : SetCache(Mounted(cache, p, old))
  /\ UNCHANGED <<tour, call, upsets>>

Invalidate(prefixes) ==
  SetCache([k \in Keys |-> IF k \in tour.keys /\ \E p \in prefixes : Matches(k, p)
                           THEN InvalidateQuery(cache[k], k \in Active(page)) ELSE cache[k]])

\* An event reaches the tab.
Deliver(type) ==
  /\ upsets < MaxUpsets /\ upsets' = upsets + 1
  /\ Invalidate(InvalidatedBy([type |-> type]))
  /\ UNCHANGED <<tour, page, call, own>>

-----------------------------------------------------------------------------
(* What the pages show of a cache c *)

Data(c, k, none) == IF c[k].data = Undefined THEN none ELSE c[k].data["all"]

\* An entry without data that is not being fetched has failed.
isLoading(c, k) == c[k].data = Undefined /\ ~c[k].error

EvaluationsPage(c) ==
  CASE isLoading(c, EvaluationStats) -> [shows |-> "loading"]
    [] c[EvaluationStats].error -> [shows |-> "error"]
    [] OTHER -> [shows |-> "lists", lists |-> c[EvaluationStats].data]

ReportsPage(c) ==
  CASE isLoading(c, ReportStats) -> [shows |-> "loading"]
    [] c[ReportStats].error -> [shows |-> "error"]
    [] OTHER -> [shows |-> "table", table |-> Data(c, ReportStats, <<>>)]

\* Mutant: whatever the status of the report.
OfferedAlways(n) ==
  IF ReportsPage(cache).shows # "table" \/ own THEN {}
  ELSE IF n \in DOMAIN ReportsPage(cache).table THEN {"send", "download"} ELSE {}

\* The buttons of a row that can be pressed.
Offered(n) ==
  IF ReportsPage(cache).shows # "table" \/ own THEN {}
  ELSE IF n \notin DOMAIN ReportsPage(cache).table THEN {}
  ELSE IF ReportsPage(cache).table[n] = "ready" THEN {"send", "download"} ELSE {}

\* A list that could not be had looks like an empty one.
Recent(c, k, none) == IF isLoading(c, k) THEN [shows |-> "loading"]
                      ELSE [shows |-> "list", list |-> Data(c, k, none)]

NoStats == [totalInterviews |-> 0, pendingEvaluations |-> 0, completedReports |-> 0]

DashboardPage(c) ==
  IF c[<<"dashboardStats">>].error THEN [shows |-> "error"]
  ELSE [shows |-> "page", cards |-> Data(c, <<"dashboardStats">>, NoStats),
        evaluations |-> Recent(c, <<"pendingEvaluations">>, {}),
        reports |-> Recent(c, <<"recentReports">>, <<>>)]

Total(stats, field) == FoldFunction(LAMBDA q, sum : q[field] + sum, 0, stats)

MessageTable(c) == Data(c, <<"recent-messages">>, {})

QueuesPage(c) ==
  LET stats == Data(c, <<"queues">>, <<>>) IN
  IF isLoading(c, <<"queues">>) THEN [shows |-> "loading"]
  ELSE [shows |-> "page", queues |-> stats, messages |-> MessageTable(c),
        totals |-> [f \in {"inQueue", "processing", "completed", "failed"} |-> Total(stats, f)]]

Shown(p, c) ==
  CASE p = "dashboard" -> DashboardPage(c)
    [] p = "evaluations" -> EvaluationsPage(c)
    [] p = "reports" -> ReportsPage(c)
    [] p = "queues" -> QueuesPage(c)

-----------------------------------------------------------------------------
(* Sending and downloading a report.  Bound: one call at a time. *)

Press(n, act) ==
  /\ page = "reports" /\ call = NoCall /\ act \in Offered(n)
  /\ call' = [at |-> "request", act |-> act, on |-> n] /\ own' = TRUE
  /\ UNCHANGED <<tour, page, cache, moved, upsets>>

\* SendReport takes a report that is ready, DownloadReportPDF one that is not
\* pending.  The message posted for the notification worker changes nothing.
ServesCall ==
  /\ call.at = "request"
  /\ call' = [call EXCEPT !.at = IF reports[call.on] = "ready" THEN "served" ELSE "refused"]
  /\ UNCHANGED <<tour, page, cache, moved, own, upsets>>

\* onSuccess and onError, also when the page has been left.
CallSucceeds ==
  /\ call.at = "served"
  /\ IF call.act = "send" THEN Invalidate({<<"reports", "detail", call.on>>,
                                           <<"reports", "list">>, ReportStats})
     ELSE UNCHANGED <<cache, moved>>
  /\ call' = NoCall /\ own' = FALSE
  /\ UNCHANGED <<tour, page, upsets>>

CallFails ==
  /\ call # NoCall /\ (call.at = "refused" \/ upsets < MaxUpsets)
  /\ upsets' = IF call.at = "refused" THEN upsets ELSE upsets + 1
  /\ call' = NoCall /\ own' = FALSE
  /\ UNCHANGED <<tour, page, cache, moved>>

-----------------------------------------------------------------------------
Fetch(k) == \E r \in {"pending", "completed", "all"} : r \in Requests(k) /\ OnServer(k, r)

TabStep ==
  \/ \E k \in Keys : Fetch(k) \/ Arrives(k) \/ Fails(k) \/ Poll(k)
  \/ \E p \in Page : Visit(p)
  \/ \E n \in 1 .. MaxReports, act \in {"send", "download"} : Press(n, act)
  \/ ServesCall \/ CallSucceeds \/ CallFails
  \/ \E type \in {"evaluation_created", "report_generated"} : Deliver(type)

BackendStep ==
  /\ WorkerStep \/ ApiStep
  /\ Len(evals') <= tour.evaluations /\ Len(reports') <= tour.reports /\ updates' <= tour.updates
  /\ moved' = moved \cup {e \in DOMAIN evals' : e \notin DOMAIN evals \/ evals'[e] # evals[e]}
  /\ UNCHANGED <<tour, page, cache, call, own, upsets>>

Next ==
  \/ TabStep /\ UNCHANGED reviewVars
  \/ BackendStep

Spec == Init /\ [][Next]_vars

\* Requests are answered and timers fire; users, events and the API's callers
\* are under no obligation.
PageFairness ==
  \A k \in Keys : WF_vars((Fetch(k) \/ Arrives(k) \/ Poll(k)) /\ UNCHANGED reviewVars)

PollSpec == Spec /\ PageFairness

-----------------------------------------------------------------------------
(* Properties *)

TypeOK ==
  /\ ReviewsTypeOK
  /\ tour \in Tours /\ page \in tour.pages
  /\ \A k \in Keys :
       /\ cache[k].inval \in BOOLEAN /\ cache[k].error \in BOOLEAN
       /\ cache[k].flight \in {"idle", "asked", "answered"}
       /\ cache[k].data # Undefined => DOMAIN cache[k].data = Requests(k)
       /\ cache[k].flight = "answered" => DOMAIN cache[k].got = Requests(k)
  /\ moved \subseteq DOMAIN evals
  /\ call.at \in {"none", "request", "served", "refused"} /\ own \in BOOLEAN
  /\ upsets \in 0 .. MaxUpsets

\* The evaluations that may be before x in a list of status s, or may have
\* been when it was made.
Ahead(x, s) == {m \in DOMAIN evals : m > x /\ (evals[m] = s \/ m \in moved)}

\* The two lists of the evaluations page are answers to two requests.  When
\* both are there, an evaluation that has not changed since they began is in no
\* list but that of its status, and it is in that one unless a page of newer
\* evaluations was before it: an answer to a request of an older fetch never
\* takes part (evaluationsApi.getStats, Promise.all).
ListedOnce ==
  cache[EvaluationStats].flight = "answered" =>
    \A e \in DOMAIN evals \ moved, s \in {"pending", "completed"} :
      /\ e \in cache[EvaluationStats].got[s] => evals[e] = s
      /\ evals[e] = s /\ e \notin cache[EvaluationStats].got[s] =>
           Cardinality(Ahead(e, s)) >= PageSize(EvaluationLimit)

\* A report that the page offers to send or to download, however old what it
\* shows, is not refused as not ready (reports/page.tsx, SendReport).
OfferIsGood == call.at # "refused"

\* What a page would show if it had just been fetched.
Fresh(p) ==
  Shown(p, [k \in Keys |-> IF k \in Active(p) THEN Succeed(Answers(k, Queues)) ELSE cache[k]])

\* A page that stays on the screen gets to show things as they are, whatever
\* its queries failed with before and whichever events were lost: no failure,
\* empty list or half-moved evaluation is there for good (refetchInterval of
\* the hooks and of the start page).
PageCatchesUp == \A p \in Page : (page = p) ~> (page # p \/ Shown(p, cache) = Fresh(p))

=============================================================================
