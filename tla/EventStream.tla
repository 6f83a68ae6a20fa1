---------------------------- MODULE EventStream -----------------------------
(***************************************************************************)
(* The live updates of the dashboard: the hook useSSE of every browser tab *)
(* and the broadcaster of the backend.  A tab's hook record is             *)
(*   mounted  the effect has run and its cleanup has not                   *)
(*   ref      eventSourceRef: the EventSource it refers to                 *)
(*   src      readyState of every EventSource the tab has created          *)
(*   retry    the timer in reconnectTimeoutRef is pending                  *)
(* and chan is the buffered channel of the server's client for a source.   *)
(* The browser reopens a broken stream by itself; it gives up (CLOSED)     *)
(* when the server refuses the request.  isConnected and lastEvent are     *)
(* only logged and are left out, as are the functions disconnect and       *)
(* reconnect that the hook returns: nothing calls them.                    *)
(***************************************************************************)
EXTENDS Naturals, Sequences

CONSTANTS
  Tabs,         \* browser tabs
  ChannelCap,   \* capacity of a client's channel (10 in the code)
  NoSource      \* eventSourceRef.current === null

ASSUME ChannelAssumption == ChannelCap \in Nat \ {0}

VARIABLES hook, chan

streamVars == <<hook, chan>>

\* Two are enough for a stray connection to show.
Sources == 1 .. 2

ASSUME SourceAssumption == NoSource \notin Sources

ReadyState == {"CONNECTING", "OPEN", "CLOSED"}

StreamInit ==
  /\ hook = [t \in Tabs |->
       [mounted |-> FALSE, ref |-> NoSource, src |-> [s \in Sources |-> "CLOSED"],
        retry |-> FALSE]]
  /\ chan = [t \in Tabs |-> [s \in Sources |-> <<>>]]

Live(h) == {s \in Sources : h.src[s] # "CLOSED"}

-----------------------------------------------------------------------------
(* The hook *)

\* connect: nothing if there is a source already.
Connect(h) ==
  IF h.ref # NoSource THEN h
  ELSE LET s == CHOOSE x \in Sources : h.src[x] = "CLOSED" IN
       [h EXCEPT !.ref = s, !.src[s] = "CONNECTING"]

\* Mutant: the pending timer survives.
DisconnectKeepsTimer(h) ==
  [h EXCEPT !.ref = NoSource,
            !.src = IF h.ref = NoSource THEN h.src
                    ELSE [h.src EXCEPT ![h.ref] = "CLOSED"]]

\* disconnect: clears the timer, closes the source.
Disconnect(h) ==
  [h EXCEPT !.retry = FALSE, !.ref = NoSource,
            !.src = IF h.ref = NoSource THEN h.src
                    ELSE [h.src EXCEPT ![h.ref] = "CLOSED"]]

\* Mutant: no timer is set.
GiveUpForGood(h, s) == [h EXCEPT !.src[s] = "CLOSED", !.ref = NoSource]

\* onerror once the source is CLOSED.
GiveUp(h, s) ==
  [h EXCEPT !.src[s] = "CLOSED", !.ref = NoSource, !.retry = TRUE]

MountEffect(t) ==
  /\ ~hook[t].mounted
  /\ hook' = [hook EXCEPT ![t] = Connect([@ EXCEPT !.mounted = TRUE])]
  /\ UNCHANGED chan

\* The cleanup; the server notices that the stream is gone (RemoveClient).
UnmountEffect(t) ==
  /\ hook[t].mounted
  /\ hook' = [hook EXCEPT ![t] = Disconnect([@ EXCEPT !.mounted = FALSE])]
  /\ chan' = [chan EXCEPT ![t] = [s \in Sources |->
                IF hook'[t].src[s] = "OPEN" THEN chan[t][s] ELSE <<>>]]

\* The server registers a client (AddClient) and the source opens.
Opens(t, s) ==
  /\ hook[t].src[s] = "CONNECTING"
  /\ hook' = [hook EXCEPT ![t].src[s] = "OPEN"]
  /\ chan' = [chan EXCEPT ![t][s] = <<>>]

\* The stream breaks: the browser connects again, onerror only logs, and what
\* the channel held is lost with the client.
Breaks(t, s) ==
  /\ hook[t].src[s] = "OPEN"
  /\ hook' = [hook EXCEPT ![t].src[s] = "CONNECTING"]
  /\ chan' = [chan EXCEPT ![t][s] = <<>>]

\* The server, or a proxy, refuses the request.
Refused(t, s) ==
  /\ hook[t].src[s] = "CONNECTING"
  /\ hook' = [hook EXCEPT ![t] = GiveUp(@, s)]
  /\ UNCHANGED chan

\* The timer set by onerror.
RetryFires(t) ==
  /\ hook[t].retry
  /\ hook' = [hook EXCEPT ![t] = Connect([@ EXCEPT !.retry = FALSE])]
  /\ UNCHANGED chan

StreamStep(t) ==
  \/ MountEffect(t)
  \/ UnmountEffect(t)
  \/ RetryFires(t)
  \/ \E s \in Sources : Opens(t, s) \/ Breaks(t, s) \/ Refused(t, s)

-----------------------------------------------------------------------------
(* The broadcaster *)

\* Mutant: full channels are not skipped.
BroadcastToAll(c, event) ==
  [t \in Tabs |-> [s \in Sources |->
     IF hook[t].src[s] = "OPEN" THEN Append(c[t][s], event) ELSE c[t][s]]]

\* Broadcast: a client whose channel is full is skipped.
Broadcast(c, event) ==
  [t \in Tabs |-> [s \in Sources |->
     IF hook[t].src[s] = "OPEN" /\ Len(c[t][s]) < ChannelCap
     THEN Append(c[t][s], event) ELSE c[t][s]]]

-----------------------------------------------------------------------------
(* Properties *)

StreamTypeOK(Event) ==
  /\ hook \in [Tabs -> [mounted: BOOLEAN, ref: Sources \cup {NoSource},
                        src: [Sources -> ReadyState], retry: BOOLEAN]]
  /\ \A t \in Tabs, s \in Sources :
       Len(chan[t][s]) <= ChannelCap /\ \A i \in DOMAIN chan[t][s] : chan[t][s][i] \in Event

\* A tab never has a connection that its hook has lost hold of, and after the
\* cleanup it has neither a connection nor a timer that would open one
\* (useSSE.ts, connect and disconnect).
NoStrayConnection ==
  \A t \in Tabs :
    /\ Live(hook[t]) \subseteq {hook[t].ref}
    /\ ~hook[t].mounted => Live(hook[t]) = {} /\ ~hook[t].retry

\* A mounted hook that has no connection opens one again (useSSE.ts, onerror).
StreamComesBack ==
  \A t \in Tabs : (hook[t].mounted /\ hook[t].ref = NoSource)
                    ~> (hook[t].ref # NoSource \/ ~hook[t].mounted)

=============================================================================
