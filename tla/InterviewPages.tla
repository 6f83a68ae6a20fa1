--------------------------- MODULE InterviewPages ---------------------------
(***************************************************************************)
(* The dashboard's interview pages in every browser tab, on top of the     *)
(* query cache, the event stream and the backend: the list (interviews/    *)
(* page.tsx, polled) and the detail page (interviews/[id]/page.tsx) with   *)
(* its dialogs and its three asynchronous handlers.                        *)
(*                                                                         *)
(* page[t] is the key of the query that the page shown by tab t observes.  *)
(* ui[t] is the state of the detail page and of its handler:               *)
(*   dialog   the open dialog                                              *)
(*   step     where the handler is; "none": no handler runs                *)
(*   own      the page that is shown started the handler: isActionLoading  *)
(*   act, id  what it does, to which interview                             *)
(*   awaits   the queries whose fetch it awaits; a fetch that replaces it  *)
(*            is awaited in its place                                      *)
(*   wrote    the number of the write it caused (history)                  *)
(* told[t][k] is a history variable: the newest write concerning query k   *)
(* that tab t was told of, by an event or by the end of its own request,   *)
(* and that was not Overtaken.                                             *)
(* Bound: a tab runs one handler at a time, also when its page was left.   *)
(* The handlers' toasts are left out (Toasts models their store), and so   *)
(* are the edit button, which only raises one, and the link to the         *)
(* evaluation form (FormPages).                                            *)
(***************************************************************************)
EXTENDS Interviews, QueryCache

CONSTANTS
  Filters,      \* values of statusFilter that are used: "all" or a status
  UsedActs      \* actions of the detail page that are used

VARIABLES page, ui, cache, told

tabVars == <<page, ui, cache, told>>
vars == <<streamVars, backendVars, tabVars>>

ListKeys == {<<"interviews", f>> : f \in Filters}
DetailKeys == {<<"interview", i>> : i \in Interviews}
Keys == ListKeys \cup DetailKeys

Act == {"cancel", "start", "complete"}

ASSUME ActsAssumption == UsedActs \subseteq Act

NoHandler == [dialog |-> "none", step |-> "none", own |-> FALSE, awaits |-> {}]

Init ==
  /\ StreamInit /\ BackendInit
  /\ page = [t \in Tabs |-> <<"interviews", "all">>]
  /\ ui = [t \in Tabs |-> NoHandler]
  /\ cache = [t \in Tabs |-> [k \in Keys |->
       IF k = page[t] THEN MountQuery(NewEntry, TRUE) ELSE NewEntry]]
  /\ told = [t \in Tabs |-> [k \in Keys |-> 0]]

-----------------------------------------------------------------------------
(* Queries *)

\* What getInterview returns when there is no interview.
Null == [i \in {} |-> "absent"]

\* The interviews a query asks for.
Asked(k) ==
  IF k \in DetailKeys THEN {k[2]}
  ELSE {i \in Interviews : k[2] \in {"all", rows[i]}}

\* GetInterview and ListInterviews: the status of those that exist.
Snapshot(k) ==
  [val |-> [i \in {j \in Asked(k) : rows[j] # "absent"} |-> rows[i]], at |-> writes]

\* What the query function makes of a request that failed: getInterview
\* catches the error and returns null, listInterviews throws.
Failure(e, k) ==
  IF k \in DetailKeys THEN Succeed([val |-> Null, at |-> 0]) ELSE Reject(e)

SetEntry(t, k, e) == cache' = [cache EXCEPT ![t][k] = e]

OnServer(t, k) ==
  /\ cache[t][k].flight = "asked"
  /\ SetEntry(t, k, ServerAnswers(cache[t][k], Snapshot(k)))
  /\ UNCHANGED <<page, ui, told>>

\* The fetch ends, and so does the wait for it.
Settles(t, k, e) ==
  /\ SetEntry(t, k, e)
  /\ ui' = [ui EXCEPT ![t].awaits = @ \ {k}]
  /\ UNCHANGED <<page, told>>

Arrives(t, k) ==
  cache[t][k].flight = "answered" /\ Settles(t, k, Succeed(cache[t][k].got))

Fails(t, k) ==
  Fetching(cache[t][k]) /\ Settles(t, k, Failure(cache[t][k], k))

\* Mutant: no refetchInterval.
PollNever(t) == FALSE /\ UNCHANGED tabVars

\* refetchInterval of the list page.
Poll(t) ==
  /\ page[t] \in ListKeys
  /\ SetEntry(t, page[t], Refetch(cache[t][page[t]]))
  /\ UNCHANGED <<page, ui, told>>

\* The window regains the focus more than a minute after the last answer.
Focus(t) ==
  /\ SetEntry(t, page[t], Refetch(cache[t][page[t]]))
  /\ UNCHANGED <<page, ui, told>>

Invalidate(t, prefixes) ==
  [k \in Keys |-> IF \E p \in prefixes : Matches(k, p)
                  THEN InvalidateQuery(cache[t][k], k = page[t]) ELSE cache[t][k]]

Newer(a, b) == IF a > b THEN a ELSE b

\* An answer that the server gave before write n is on its way to the browser,
\* and an invalidation does not cancel its fetch: the query has no data yet, or
\* no page observes it.  When it arrives it clears the mark.
Overtaken(e, active, n) ==
  e.flight = "answered" /\ e.got.at < n /\ (e.data = Undefined \/ ~active)

\* The tab is told of write n, which concerns the queries ks.
Tell(t, ks, n) ==
  told' = [told EXCEPT ![t] = [k \in Keys |->
             IF k \in ks /\ ~Overtaken(cache[t][k], k = page[t], n)
             THEN Newer(@[k], n) ELSE @[k]]]

-----------------------------------------------------------------------------
(* The list page *)

\* What it shows; search is the set of interviews that the search box matches.
ListView(e, search) ==
  CASE e.error -> "error"
    [] ~e.error /\ e.data = Undefined -> "loading"
    [] OTHER -> IF DOMAIN e.data.val = {} THEN "empty"
                ELSE IF DOMAIN e.data.val \cap search = {} THEN "no match" ELSE "table"

\* The links of the table.
Links(e, search) ==
  IF ListView(e, search) = "table" THEN DOMAIN e.data.val \cap search ELSE {}

\* The "try again" button.
RetryList(t) ==
  /\ page[t] \in ListKeys /\ ListView(cache[t][page[t]], Interviews) = "error"
  /\ SetEntry(t, page[t], RefetchAnew(cache[t][page[t]]))
  /\ UNCHANGED <<page, ui, told>>

\* A page is left for another: its dialogs go, a handler of it runs on.
Visit(t, k) ==
  /\ page' = [page EXCEPT ![t] = k]
  /\ \E old \in BOOLEAN : SetEntry(t, k, MountQuery(cache[t][k], old))
  /\ ui' = [ui EXCEPT ![t] = IF @.step = "none" THEN NoHandler
                             ELSE [@ EXCEPT !.dialog = "none", !.own = FALSE]]
  /\ UNCHANGED told

ViewInterview(t, i) ==
  /\ page[t] \in ListKeys
  /\ \E search \in SUBSET Interviews : i \in Links(cache[t][page[t]], search)
  /\ Visit(t, <<"interview", i>>)

BackToInterviews(t) == page[t] \in DetailKeys /\ Visit(t, <<"interviews", "all">>)

ChangeFilter(t, f) ==
  /\ page[t] \in ListKeys /\ page[t] # <<"interviews", f>>
  /\ Visit(t, <<"interviews", f>>)

-----------------------------------------------------------------------------
(* The detail page *)

DetailView(e) ==
  CASE e.data = Undefined -> "loading"
    [] e.data # Undefined ->
         IF e.data.val = Null THEN "not found"
         ELSE e.data.val[CHOOSE i \in DOMAIN e.data.val : TRUE]

\* The buttons that open a dialog.  "Start" is disabled before the interview's
\* time; the model has no clock, so the time may or may not have come.
Buttons(view) ==
  CASE view = "scheduled" -> {"start", "cancel"}
    [] view = "in_progress" -> {"complete"}
    [] OTHER -> {}

Loading(t) == ui[t].own

OpenDialog(t, act) ==
  /\ page[t] \in DetailKeys /\ ui[t].dialog = "none"
  /\ act \in Buttons(DetailView(cache[t][page[t]]))
  /\ ui' = [ui EXCEPT ![t].dialog = act]
  /\ UNCHANGED <<page, cache, told>>

\* "No", or Escape, which is not disabled while the handler runs.
CloseDialog(t) ==
  /\ ui[t].dialog # "none"
  /\ ui' = [ui EXCEPT ![t].dialog = "none"]
  /\ UNCHANGED <<page, cache, told>>

\* "Yes": disabled while isActionLoading; the dialog does not look at the
\* status again, but it is shown only while there is an interview.
Confirm(t) ==
  /\ ui[t].dialog # "none" /\ ~Loading(t) /\ ui[t].step = "none"
  /\ DetailView(cache[t][page[t]]) \in Status
  /\ ui' = [ui EXCEPT ![t] = [dialog |-> @.dialog, step |-> "request", own |-> TRUE,
                              awaits |-> {}, act |-> @.dialog, id |-> page[t][2], wrote |-> 0]]
  /\ UNCHANGED <<page, cache, told>>

NewStatus == [cancel |-> "cancelled", start |-> "in_progress", complete |-> "completed"]

\* The request is served, up to the write.
Served(t) ==
  /\ ui[t].step = "request"
  /\ SetStatus(ui[t].id, NewStatus[ui[t].act])
  /\ ui' = [ui EXCEPT ![t].step = "served", ![t].wrote = writes']
  /\ UNCHANGED <<streamVars, msg, work, page, cache, told>>

\* Mutant: isActionLoading is not reset.
RequestFailsLoading(t) ==
  /\ ui[t].step \in {"request", "served"}
  /\ ui' = [ui EXCEPT ![t] = [NoHandler EXCEPT !.dialog = ui[t].dialog, !.own = ui[t].own]]
  /\ UNCHANGED <<page, cache, told>>

\* catch and finally: the dialog stays open.
RequestFails(t) ==
  /\ ui[t].step \in {"request", "served"}
  /\ ui' = [ui EXCEPT ![t] = [NoHandler EXCEPT !.dialog = ui[t].dialog]]
  /\ UNCHANGED <<page, cache, told>>

\* await invalidateQueries(prefix): the handler goes on when the fetches that
\* this has started have ended.
Await(t, prefix, step) ==
  LET c == Invalidate(t, {prefix}) IN
  /\ cache' = [cache EXCEPT ![t] = c]
  /\ ui' = [ui EXCEPT ![t].step = step,
               ![t].awaits = {k \in Keys : k = page[t] /\ Matches(k, prefix) /\ Fetching(c[k])}]
  /\ Tell(t, {k \in Keys : Matches(k, prefix)}, ui[t].wrote)
  /\ UNCHANGED page

\* Mutant: the key that is invalidated is the list's.
RefreshListOnly(t) ==
  /\ ui[t].step = "served" /\ \A event \in unsent : event.at # ui[t].wrote
  /\ Await(t, <<"interviews">>, "detail")

\* The answer is there; the handler of the backend broadcasts before it answers.
RefreshDetail(t) ==
  /\ ui[t].step = "served" /\ \A event \in unsent : event.at # ui[t].wrote
  /\ Await(t, <<"interview", ui[t].id>>, "detail")

RefreshList(t) ==
  ui[t].step = "detail" /\ ui[t].awaits = {} /\ Await(t, <<"interviews">>, "list")

\* Its dialog closes, isActionLoading is reset.  A page shown since is not
\* concerned.
HandlerEnds(t) ==
  /\ ui[t].step = "list" /\ ui[t].awaits = {}
  /\ ui' = [ui EXCEPT ![t] =
       [NoHandler EXCEPT !.dialog = IF ui[t].own /\ ui[t].dialog = ui[t].act
                                    THEN "none" ELSE ui[t].dialog]]
  /\ UNCHANGED <<page, cache, told>>

-----------------------------------------------------------------------------
(* Events *)

\* The queries whose answers the write of an event changes.  A new interview
\* has had no detail page.
Concerned(event) ==
  ListKeys \cup (IF event.type = "interview_updated" THEN {<<"interview", event.id>>} ELSE {})

Deliver(t, s) ==
  /\ hook[t].src[s] = "OPEN" /\ chan[t][s] # <<>>
  /\ LET event == Head(chan[t][s]) IN
     /\ cache' = [cache EXCEPT ![t] = Invalidate(t, InvalidatedBy(event))]
     /\ Tell(t, Concerned(event), event.at)
  /\ chan' = [chan EXCEPT ![t][s] = Tail(@)]
  /\ UNCHANGED <<hook, page, ui>>

-----------------------------------------------------------------------------
TabStep(t) ==
  \/ \E k \in Keys : OnServer(t, k) \/ Arrives(t, k) \/ Fails(t, k)
  \/ Poll(t) \/ Focus(t) \/ RetryList(t)
  \/ \E i \in Interviews : ViewInterview(t, i)
  \/ BackToInterviews(t)
  \/ \E f \in Filters : ChangeFilter(t, f)
  \/ \E act \in UsedActs : OpenDialog(t, act)
  \/ CloseDialog(t) \/ Confirm(t) \/ RequestFails(t)
  \/ RefreshDetail(t) \/ RefreshList(t) \/ HandlerEnds(t)

Next ==
  \/ \E t \in Tabs : TabStep(t) /\ UNCHANGED <<streamVars, backendVars>>
  \/ \E t \in Tabs : Served(t)
  \/ \E t \in Tabs, s \in Sources : Deliver(t, s) /\ UNCHANGED backendVars
  \/ \E t \in Tabs : StreamStep(t) /\ UNCHANGED <<backendVars, tabVars>>
  \/ \E i \in Interviews : (CreateInterview(i) \/ UpdateInterview(i)) /\ UNCHANGED tabVars
  \/ \E event \in unsent : Broadcasts(event) /\ UNCHANGED tabVars
  \/ WorkerStep /\ UNCHANGED tabVars

Spec == Init /\ [][Next]_vars

\* Every request is answered or fails, those of the list do not fail for ever,
\* timers fire, and the tab handles what arrives.  Users, workers and the
\* network are under no other obligation.
TabAlone == UNCHANGED <<streamVars, backendVars>>

Fairness ==
  /\ \A t \in Tabs :
       /\ \A k \in ListKeys : SF_vars(OnServer(t, k) /\ TabAlone)
                           /\ SF_vars(Arrives(t, k) /\ TabAlone)
       /\ \A k \in DetailKeys :
            WF_vars((OnServer(t, k) \/ Arrives(t, k) \/ Fails(t, k)) /\ TabAlone)
       /\ WF_vars(Poll(t) /\ TabAlone)
       /\ WF_vars((RequestFails(t) \/ RefreshDetail(t) \/ RefreshList(t) \/ HandlerEnds(t))
                    /\ TabAlone)
       /\ WF_vars(RetryFires(t) /\ UNCHANGED <<backendVars, tabVars>>)

FairSpec == Spec /\ Fairness

-----------------------------------------------------------------------------
(* Properties *)

Answer == [val: UNION {[S -> Status] : S \in SUBSET Interviews}, at: 0 .. MaxWrites]

ASSUME PagesAssumption == "all" \in Filters /\ Undefined \notin Answer

TypeOK ==
  /\ StreamTypeOK(Event)
  /\ BackendTypeOK
  /\ page \in [Tabs -> Keys]
  /\ cache \in [Tabs -> [Keys -> [data: Answer \cup {Undefined}, inval: BOOLEAN,
                                 error: BOOLEAN, flight: {"idle", "asked", "answered"},
                                 got: Answer \cup {Undefined}]]]
  /\ told \in [Tabs -> [Keys -> 0 .. MaxWrites]]
  /\ \A t \in Tabs :
       /\ ui[t].dialog \in Act \cup {"none"} /\ ui[t].own \in BOOLEAN
       /\ ui[t].awaits \subseteq Keys
       /\ ui[t].step \in {"none", "request", "served", "detail", "list"}
       /\ ui[t].step # "none" => ui[t].act \in Act /\ ui[t].id \in Interviews

\* What the cache holds is never older than a write that the tab was told of,
\* by an event or by the answer to its own action, unless a fetch that will
\* bring the write is under way, the page shows that it failed (a detail page,
\* that there is no interview), or the query is not on the screen and marked to
\* be fetched when it is.  So no page that is shown or visited rests on data
\* from before an update that came while an older answer was under way
\* (SSEProvider.tsx, the invalidations of the page's handlers) - but for an
\* update that was Overtaken: one that came between the server's answer and its
\* arrival when that answer was the first of the query or nothing on the screen
\* observed it.  The library keeps such a fetch and takes its answer for new.
AnnouncedIsFetched ==
  \A t \in Tabs, k \in Keys :
    LET e == cache[t][k]
        n == told[t][k] IN
      e.data # Undefined /\ e.data.val # Null /\ e.data.at < n =>
        \/ e.flight = "asked"
        \/ e.flight = "answered" /\ e.got.at >= n
        \/ e.error
        \/ k # page[t] /\ e.inval

\* When an action of the page ends well and its dialog closes, the page
\* already shows its effect: not what it showed before, whatever events and
\* polls did in between (handleCancel, handleStartInterview,
\* handleCompleteInterview).
OwnActionShown ==
  [][\A t \in Tabs :
       ui[t].own /\ ui[t].step = "list" /\ ui'[t].step = "none" =>
         LET data == cache[t][<<"interview", ui[t].id>>].data IN
           data.val = Null \/ data.at >= ui[t].wrote]_vars

\* The buttons of the page do not stay disabled (finally of the handlers).
ButtonsComeBack == \A t \in Tabs : Loading(t) ~> ~Loading(t)

\* A list on the screen gets to show the table as it is, unless it is left
\* first (interviews/page.tsx, refetchInterval).
ListCatchesUp ==
  \A t \in Tabs, k \in ListKeys :
    (page[t] = k) ~> (page[t] # k \/ cache[t][k].data = Snapshot(k))

=============================================================================
