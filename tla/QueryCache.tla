----------------------------- MODULE QueryCache -----------------------------
(***************************************************************************)
(* The query cache of the interview platform's dashboard: one entry per    *)
(* query key of the TanStack Query client that QueryProvider creates.  The *)
(* library is external; its entries are modelled as the pages use them     *)
(* (useQuery, refetchInterval, refetch, invalidateQueries).                *)
(*                                                                         *)
(* An answer is [val, at]: what the server returned, and the number of     *)
(* writes it had made by then, which dates the answer for the properties.  *)
(***************************************************************************)
EXTENDS Naturals, Sequences

CONSTANT Undefined   \* data of a query that has not succeeded yet

\* An entry: its data, whether it is marked invalidated, whether its last
\* fetch failed, and its fetch: idle, asked of the server, or answered with
\* got but not yet arrived in the browser.
NewEntry == [data |-> Undefined, inval |-> FALSE, error |-> FALSE,
             flight |-> "idle", got |-> Undefined]

Fetching(e) == e.flight # "idle"

\* A fetch starts; without data the query is pending again, not failed.
StartFetch(e) ==
  [e EXCEPT !.flight = "asked", !.got = Undefined,
            !.error = IF e.data = Undefined THEN FALSE ELSE e.error]

\* refetchInterval, window focus: the fetch under way, if any, is kept.
Refetch(e) == IF Fetching(e) THEN e ELSE StartFetch(e)

\* refetch() and invalidateQueries: a fetch under way is cancelled and started
\* again, unless the query has no data yet: then it is kept.
RefetchAnew(e) ==
  IF Fetching(e) /\ e.data = Undefined THEN e ELSE StartFetch(e)

\* useQuery mounts.  staleTime is one minute: old says it has passed.
MountQuery(e, old) ==
  IF e.data = Undefined \/ e.inval \/ old THEN Refetch(e) ELSE e

\* invalidateQueries: the entry is marked, and fetched when a page observes it.
InvalidateQuery(e, active) ==
  LET m == [e EXCEPT !.inval = TRUE] IN IF active THEN RefetchAnew(m) ELSE m

ServerAnswers(e, answer) == [e EXCEPT !.flight = "answered", !.got = answer]

\* The query function returns: the answer replaces the data, and a mark that
\* was made while it was under way goes with it.
Succeed(answer) == [NewEntry EXCEPT !.data = answer]

\* The query function threw, and its one retry too: old data is kept, marked.
Reject(e) ==
  [e EXCEPT !.flight = "idle", !.got = Undefined, !.error = TRUE, !.inval = TRUE]

-----------------------------------------------------------------------------
(* SSEProvider: which query keys an event invalidates.  A key is a tuple, and *)
(* invalidateQueries takes every key that begins with the given one.          *)

\* Mutant: an update is taken to concern the lists only.
InvalidatedLists(event) ==
  CASE event.type \in {"interview_created", "interview_updated"} -> {<<"interviews">>}
    [] event.type = "evaluation_created" -> {<<"evaluations">>}
    [] event.type = "report_generated" -> {<<"reports">>}

\* The backend broadcasts no interview_scheduled, evaluation_updated and
\* notification_sent.
InvalidatedBy(event) ==
  CASE event.type \in {"interview_created", "interview_scheduled"} -> {<<"interviews">>}
    [] event.type = "interview_updated" -> {<<"interviews">>, <<"interview", event.id>>}
    [] event.type \in {"evaluation_created", "evaluation_updated"} -> {<<"evaluations">>}
    [] event.type = "report_generated" -> {<<"reports">>}
    [] event.type = "notification_sent" -> {}

Matches(key, prefix) ==
  Len(prefix) <= Len(key) /\ SubSeq(key, 1, Len(prefix)) = prefix

=============================================================================
