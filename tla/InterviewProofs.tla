-------------------------- MODULE InterviewProofs ---------------------------
(***************************************************************************)
(* The interview pages with their event streams, for any number of tabs,   *)
(* interviews and filters, and any capacity of the channels.               *)
(***************************************************************************)
EXTENDS InterviewPages, TLAPS, SequenceTheorems

-----------------------------------------------------------------------------
(* The hook of a tab *)

Hook == [mounted: BOOLEAN, ref: Sources \cup {NoSource},
         src: [Sources -> ReadyState], retry: BOOLEAN]

\* One tab's part of NoStrayConnection.
Held(h) ==
  /\ Live(h) \subseteq {h.ref}
  /\ ~h.mounted => Live(h) = {} /\ ~h.retry

\* connect opens a source when the hook has none, and no other is live then
\* (useSSE.ts, connect).
LEMMA ConnectHeld ==
  ASSUME NEW h \in Hook, Live(h) \subseteq {h.ref}, h.mounted
  PROVE  Connect(h) \in Hook /\ Held(Connect(h))
<1>1. CASE h.ref # NoSource
  BY <1>1 DEF Connect, Held
<1>2. CASE h.ref = NoSource
  <2> DEFINE s == CHOOSE x \in Sources : h.src[x] = "CLOSED"
             g == [h EXCEPT !.ref = s, !.src[s] = "CONNECTING"]
  <2>1. \A x \in Sources : h.src[x] = "CLOSED"
    BY <1>2, SourceAssumption DEF Live
  <2>2. s \in Sources
    BY <2>1 DEF Sources
  <2>3. Connect(h) = g
    BY <1>2 DEF Connect
  <2> HIDE DEF s
  <2>4. /\ g \in Hook /\ g.ref = s /\ g.mounted /\ g.retry = h.retry
        /\ g.src = [h.src EXCEPT ![s] = "CONNECTING"]
    BY <2>2 DEF Hook, ReadyState
  <2> HIDE DEF g
  <2>5. \A x \in Sources : x # s => g.src[x] = "CLOSED"
    BY <2>1, <2>4 DEF Hook
  <2> QED
    BY <2>3, <2>4, <2>5 DEF Held, Live
<1> QED
  BY <1>1, <1>2

\* disconnect leaves neither a source nor a timer (useSSE.ts, disconnect).
LEMMA DisconnectHeld ==
  ASSUME NEW h \in Hook, Live(h) \subseteq {h.ref}
  PROVE  /\ Disconnect(h) \in Hook /\ Live(Disconnect(h)) = {}
         /\ ~Disconnect(h).retry /\ Disconnect(h).mounted = h.mounted
<1> DEFINE src == IF h.ref = NoSource THEN h.src ELSE [h.src EXCEPT ![h.ref] = "CLOSED"]
           g == [h EXCEPT !.retry = FALSE, !.ref = NoSource, !.src = src]
<1>1. Disconnect(h) = g
  BY DEF Disconnect
<1>2. h.src \in [Sources -> ReadyState] /\ h.ref \in Sources \cup {NoSource}
  BY DEF Hook
<1>3. src \in [Sources -> ReadyState]
  BY <1>2 DEF ReadyState
<1>4. \A x \in Sources : src[x] = "CLOSED"
  BY <1>2, SourceAssumption DEF Live
<1> HIDE DEF src
<1>5. g \in Hook /\ g.src = src /\ ~g.retry /\ g.mounted = h.mounted
  BY <1>3 DEF Hook
<1> HIDE DEF g
<1> QED
  BY <1>1, <1>4, <1>5 DEF Live

HookInv == hook \in [Tabs -> Hook] /\ \A t \in Tabs : Held(hook[t])

\* Every step of the hook keeps hold of its connection.
LEMMA HookStep ==
  ASSUME HookInv, NEW t \in Tabs, StreamStep(t)
  PROVE  HookInv'
<1> DEFINE h == hook[t]
<1>0. hook \in [Tabs -> Hook] /\ h \in Hook /\ Held(h)
  BY DEF HookInv
\* It is enough to look at the hook of this tab.
<1>1. ASSUME NEW g \in Hook, Held(g), hook' = [hook EXCEPT ![t] = g]
      PROVE  HookInv'
  BY <1>1 DEF HookInv
<1>2. CASE MountEffect(t)
  <2> DEFINE g == [h EXCEPT !.mounted = TRUE]
  <2>1. hook' = [hook EXCEPT ![t] = Connect(g)]
    BY <1>2 DEF MountEffect
  <2>2. g \in Hook /\ g.mounted /\ g.ref = h.ref /\ g.src = h.src
    BY <1>0 DEF Hook
  <2> HIDE DEF g
  <2>3. Live(g) \subseteq {g.ref}
    BY <1>0, <2>2 DEF Held, Live
  <2> QED
    BY <1>1, <2>1, <2>2, <2>3, ConnectHeld
<1>3. CASE UnmountEffect(t)
  <2> DEFINE g == [h EXCEPT !.mounted = FALSE]
  <2>1. hook' = [hook EXCEPT ![t] = Disconnect(g)]
    BY <1>3 DEF UnmountEffect
  <2>2. g \in Hook /\ ~g.mounted /\ g.ref = h.ref /\ g.src = h.src
    BY <1>0 DEF Hook
  <2> HIDE DEF g
  <2>3. Live(g) \subseteq {g.ref}
    BY <1>0, <2>2 DEF Held, Live
  <2>4. Disconnect(g) \in Hook /\ Held(Disconnect(g))
    BY <2>2, <2>3, DisconnectHeld DEF Held
  <2> QED
    BY <1>1, <2>1, <2>4
<1>4. CASE RetryFires(t)
  <2> DEFINE g == [h EXCEPT !.retry = FALSE]
  <2>1. hook' = [hook EXCEPT ![t] = Connect(g)] /\ h.retry
    BY <1>4 DEF RetryFires
  <2>2. g \in Hook /\ g.mounted = h.mounted /\ g.ref = h.ref /\ g.src = h.src
    BY <1>0 DEF Hook
  <2> HIDE DEF g
  <2>3. Live(g) \subseteq {g.ref} /\ g.mounted
    BY <1>0, <2>1, <2>2 DEF Held, Live
  <2> QED
    BY <1>1, <2>1, <2>2, <2>3, ConnectHeld
<1>5. ASSUME NEW s \in Sources, NEW state \in {"CONNECTING", "OPEN"}, h.src[s] # "CLOSED",
             hook' = [hook EXCEPT ![t].src[s] = state]
      PROVE  HookInv'
  <2> DEFINE g == [h EXCEPT !.src[s] = state]
  <2>1. hook' = [hook EXCEPT ![t] = g]
    BY <1>5
  <2>2. /\ g \in Hook /\ g.mounted = h.mounted /\ g.ref = h.ref /\ g.retry = h.retry
        /\ g.src = [h.src EXCEPT ![s] = state]
    BY <1>0 DEF Hook, ReadyState
  <2> HIDE DEF g
  <2>3. Live(g) = Live(h)
    BY <1>0, <1>5, <2>2 DEF Live, Hook
  <2>4. Held(g)
    BY <1>0, <2>2, <2>3 DEF Held
  <2> QED
    BY <1>1, <2>1, <2>2, <2>4
<1>6. ASSUME NEW s \in Sources, Opens(t, s) \/ Breaks(t, s)
      PROVE  HookInv'
  BY <1>5, <1>6 DEF Opens, Breaks
<1>7. ASSUME NEW s \in Sources, Refused(t, s)
      PROVE  HookInv'
  <2> DEFINE g == GiveUp(h, s)
  <2>1. hook' = [hook EXCEPT ![t] = g] /\ h.src[s] = "CONNECTING"
    BY <1>7 DEF Refused
  <2>2. /\ g \in Hook /\ g.mounted = h.mounted
        /\ g.src = [h.src EXCEPT ![s] = "CLOSED"]
    BY <1>0 DEF Hook, ReadyState, GiveUp
  <2> HIDE DEF g
  <2>3. s \in Live(h) /\ Live(h) = {s} /\ h.mounted
    BY <1>0, <2>1 DEF Live, Held
  <2>4. Live(g) = {}
    BY <1>0, <2>2, <2>3 DEF Live, Hook
  <2>5. Held(g)
    BY <2>2, <2>3, <2>4 DEF Held
  <2> QED
    BY <1>1, <2>1, <2>2, <2>5
<1> QED
  BY <1>2, <1>3, <1>4, <1>6, <1>7 DEF StreamStep

-----------------------------------------------------------------------------
(* The backend *)

Message == [at: {"none", "queued", "leased", "done", "dead"}, left: 0 .. MaxAttempts]
Work == {Idle} \cup [step: {"got", "read", "updated"}, on: Interviews]

\* A message that waits to be delivered has an attempt left.
HasAttempt(m) == m.at \in {"none", "queued"} => m.left > 0

BackendInv ==
  /\ rows \in [Interviews -> Status \cup {"absent"}]
  /\ writes \in 0 .. MaxWrites
  /\ msg \in [Interviews -> Message]
  /\ \A i \in Interviews : HasAttempt(msg[i])
  /\ \A i \in Interviews : rows[i] = "absent" => msg[i].at = "none"
  /\ work \in Work

\* What a step that leaves the rows alone has to keep of the messages.
MessagesKept ==
  /\ msg' \in [Interviews -> Message]
  /\ \A j \in Interviews : HasAttempt(msg'[j])
  /\ \A j \in Interviews : msg[j].at = "none" => msg'[j].at = "none"

\* One message changes.
LEMMA MessageStep ==
  ASSUME BackendInv, NEW i \in Interviews, NEW m \in Message, HasAttempt(m),
         msg[i].at # "none" \/ m.at = "none", msg' = [msg EXCEPT ![i] = m]
  PROVE  MessagesKept
  BY DEF BackendInv, MessagesKept

\* What goes only one way: a row that exists is not deleted, a message is not
\* posted a second time.
Onward ==
  \A j \in Interviews : /\ msg[j].at = "none" => msg'[j].at = "none"
                        /\ rows[j] # "absent" => rows'[j] # "absent"

\* A write to the table counts.
LEMMA RowStep ==
  ASSUME BackendInv, NEW i \in Interviews, NEW status \in Status,
         WriteRow(i, status)
  PROVE  /\ rows' \in [Interviews -> Status \cup {"absent"}]
         /\ writes' \in 0 .. MaxWrites /\ writes' = writes + 1
         /\ rows'[i] # "absent"
         /\ \A j \in Interviews \ {i} : rows'[j] = rows[j]
  BY InterviewsAssumption DEF BackendInv, WriteRow, Status

\* AcknowledgeMessage, whether or not it arrives.
LEMMA AcknowledgeStep ==
  ASSUME BackendInv, NEW i \in Interviews, Acknowledge(i)
  PROVE  MessagesKept
<1>1. CASE msg' = msg
  BY <1>1 DEF BackendInv, MessagesKept
<1>2. CASE msg' = [msg EXCEPT ![i].at = IF @ = "leased" THEN "done" ELSE @]
  <2> DEFINE old == msg[i]
             to == IF old.at = "leased" THEN "done" ELSE old.at
             new == [old EXCEPT !.at = to]
  <2>1. old \in Message /\ HasAttempt(old)
    BY DEF BackendInv
  <2>2. msg' = [msg EXCEPT ![i] = new]
    BY <1>2 DEF BackendInv
  <2> HIDE DEF old
  <2>3. to \in {"none", "queued", "leased", "done", "dead"}
    BY <2>1 DEF Message
  <2>4. /\ to \in {"none", "queued"} => to = old.at
        /\ old.at = "none" => to = "none"
    OBVIOUS
  <2> HIDE DEF to
  <2>5. new \in Message /\ new.at = to /\ new.left = old.left
    BY <2>1, <2>3 DEF Message
  <2> HIDE DEF new
  <2>6. HasAttempt(new)
    BY <2>1, <2>4, <2>5 DEF HasAttempt
  <2>7. msg[i].at # "none" \/ new.at = "none"
    BY <2>4, <2>5 DEF old
  <2> QED
    BY <2>2, <2>5, <2>6, <2>7, MessageStep
<1> QED
  BY <1>1, <1>2 DEF Acknowledge

\* The worker, its stops and the lapse of its leases.
LEMMA WorkerStepInv ==
  ASSUME BackendInv, WorkerStep
  PROVE  BackendInv' /\ (writes' = writes \/ writes' = writes + 1) /\ Onward
<1>0. /\ work \in Work /\ Idle \in Work
      /\ work # Idle => work \in [step: {"got", "read", "updated"}, on: Interviews]
      /\ Idle.step = "idle"
  BY DEF BackendInv, Work, Idle
<1>1. CASE ReadsInterview
  <2>1. work \in [step: {"got", "read", "updated"}, on: Interviews] /\ work.on \in Interviews
    BY <1>0, <1>1 DEF ReadsInterview
  <2>2. /\ rows' = rows /\ writes' = writes
        /\ work' = Idle \/ work' = [work EXCEPT !.step = "read"]
        /\ msg' = msg \/ Acknowledge(work.on)
    BY <1>1 DEF ReadsInterview
  <2>3. MessagesKept
    BY <2>1, <2>2, AcknowledgeStep DEF BackendInv, MessagesKept
  <2>4. work' \in Work
    BY <2>1, <2>2 DEF Work
  <2> QED
    BY <2>2, <2>3, <2>4 DEF BackendInv, MessagesKept, Onward
<1>2. CASE SetsScheduled
  <2>1. work \in [step: {"got", "read", "updated"}, on: Interviews] /\ work.on \in Interviews
    BY <1>0, <1>2 DEF SetsScheduled
  <2>2. WriteRow(work.on, "scheduled") /\ msg' = msg /\ work' = [work EXCEPT !.step = "updated"]
    BY <1>2 DEF SetsScheduled
  <2>3. work' \in Work
    BY <2>1, <2>2 DEF Work
  <2>4. /\ rows' \in [Interviews -> Status \cup {"absent"}]
        /\ writes' \in 0 .. MaxWrites /\ writes' = writes + 1
        /\ \A j \in Interviews : rows'[j] = "absent" => rows[j] = "absent"
    BY <2>1, <2>2, RowStep DEF Status
  <2> QED
    BY <2>2, <2>3, <2>4 DEF BackendInv, Onward
<1>3. CASE Finishes
  <2>1. work.on \in Interviews
    BY <1>0, <1>3 DEF Finishes
  <2>2. Acknowledge(work.on) /\ work' = Idle /\ rows' = rows /\ writes' = writes
    BY <1>3 DEF Finishes
  <2>3. MessagesKept
    BY <2>1, <2>2, AcknowledgeStep
  <2> QED
    BY <1>0, <2>2, <2>3 DEF BackendInv, MessagesKept, Onward
<1>4. CASE WorkerStops
  BY <1>0, <1>4 DEF WorkerStops, BackendInv, Onward
<1>5. ASSUME NEW i \in Interviews, GetNextMessage(i)
      PROVE  BackendInv' /\ writes' = writes /\ Onward
  <2> DEFINE old == msg[i]
             new == [at |-> "leased", left |-> old.left - 1]
  <2>1. old \in Message /\ HasAttempt(old) /\ old.at = "queued"
    BY <1>5 DEF BackendInv, GetNextMessage
  <2>2. old.left - 1 \in 0 .. MaxAttempts
    BY <2>1, InterviewsAssumption DEF Message, HasAttempt
  <2>3. msg' = [msg EXCEPT ![i] = new]
    <3>1. msg' = [msg EXCEPT ![i].at = "leased", ![i].left = @ - 1]
      BY <1>5 DEF GetNextMessage
    <3> QED
      BY <2>1, <3>1 DEF BackendInv, Message
  <2>4. new \in Message /\ HasAttempt(new)
    BY <2>2 DEF Message, HasAttempt
  <2> HIDE DEF new
  <2>5. MessagesKept
    BY <2>1, <2>3, <2>4, MessageStep
  <2>6. work' \in Work /\ rows' = rows /\ writes' = writes
    BY <1>5 DEF GetNextMessage, Work
  <2> QED
    BY <2>5, <2>6 DEF BackendInv, MessagesKept, Onward
<1>6. ASSUME NEW i \in Interviews, LeaseExpires(i)
      PROVE  BackendInv' /\ writes' = writes /\ Onward
  <2> DEFINE old == msg[i]
             to == IF old.left > 0 THEN "queued" ELSE "dead"
             new == [old EXCEPT !.at = to]
  <2>1. old \in Message
    BY DEF BackendInv
  <2>2. msg' = [msg EXCEPT ![i] = new]
    BY <1>6 DEF LeaseExpires
  <2>3. to \in {"queued", "dead"} /\ (to = "queued" => old.left > 0)
    OBVIOUS
  <2> HIDE DEF old, to
  <2>4. new \in Message /\ new.at = to /\ new.left = old.left
    BY <2>1, <2>3 DEF Message
  <2> HIDE DEF new
  <2>5. HasAttempt(new)
    BY <2>3, <2>4 DEF HasAttempt
  <2>6. MessagesKept
    BY <1>6, <2>2, <2>4, <2>5, MessageStep DEF LeaseExpires
  <2>7. work' = work /\ rows' = rows /\ writes' = writes
    BY <1>6 DEF LeaseExpires
  <2> QED
    BY <2>6, <2>7 DEF BackendInv, MessagesKept, Onward
<1> QED
  BY <1>1, <1>2, <1>3, <1>4, <1>5, <1>6 DEF WorkerStep

\* A write of a handler, to a row that exists or that it creates.
LEMMA WriteInv ==
  ASSUME BackendInv, NEW i \in Interviews, NEW status \in Status,
         WriteRow(i, status), msg' = msg, work' = work
  PROVE  BackendInv' /\ writes' = writes + 1 /\ rows'[i] # "absent" /\ Onward
<1>1. /\ rows' \in [Interviews -> Status \cup {"absent"}]
      /\ writes' \in 0 .. MaxWrites /\ writes' = writes + 1
      /\ rows'[i] # "absent"
      /\ \A j \in Interviews \ {i} : rows'[j] = rows[j]
  BY RowStep
<1> QED
  BY <1>1 DEF BackendInv, Onward

-----------------------------------------------------------------------------
(* The channels: what they hold was written before *)

EventsTill(w) == [type: {"interview_created", "interview_updated"},
                  id: Interviews, at: 1 .. w]

Channel(w) == {c \in Seq(EventsTill(w)) : Len(c) <= ChannelCap}

ChanInv == chan \in [Tabs -> [Sources -> Channel(writes)]]

\* What is yet to be broadcast is of a row that exists; an interview is
\* announced as new once, and its scheduling message is posted after that.
UnsentInv ==
  /\ unsent \subseteq EventsTill(writes)
  /\ \A e \in unsent : rows[e.id] # "absent"
  /\ \A e \in unsent : e.type = "interview_created" => msg[e.id].at = "none"
  /\ \A e, f \in unsent :
       e.type = "interview_created" /\ f.type = "interview_created" /\ e.id = f.id => e = f

\* A longer history has all the events of a shorter one.
LEMMA EventsGrow ==
  ASSUME NEW v \in Nat, NEW w \in Nat, v <= w
  PROVE  EventsTill(v) \subseteq EventsTill(w)
<1>1. 1 .. v \subseteq 1 .. w
  OBVIOUS
<1> QED
  BY <1>1 DEF EventsTill

\* So has a channel.
LEMMA ChannelGrows ==
  ASSUME NEW v \in Nat, NEW w \in Nat, v <= w
  PROVE  Channel(v) \subseteq Channel(w)
<1>1. EventsTill(v) \subseteq EventsTill(w)
  BY EventsGrow
<1>2. \A A, B : A \subseteq B => Seq(A) \subseteq Seq(B)
  OBVIOUS
<1> HIDE DEF EventsTill
<1>3. Seq(EventsTill(v)) \subseteq Seq(EventsTill(w))
  BY <1>1, <1>2
<1> QED
  BY <1>3 DEF Channel

\* An empty channel, a channel with one event more, and one with one less.
LEMMA ChannelOps ==
  ASSUME NEW w, NEW c \in Channel(w)
  PROVE  /\ <<>> \in Channel(w)
         /\ c # <<>> => Tail(c) \in Channel(w) /\ Head(c) \in EventsTill(w)
         /\ \A event \in EventsTill(w) : Len(c) < ChannelCap => Append(c, event) \in Channel(w)
<1> DEFINE E == EventsTill(w)
<1>1. c \in Seq(E) /\ Len(c) <= ChannelCap /\ Len(c) \in Nat /\ ChannelCap \in Nat
  BY ChannelAssumption DEF Channel
<1> HIDE DEF E
<1>2. <<>> \in Seq(E) /\ Len(<<>>) <= ChannelCap
  BY <1>1
<1>3. c # <<>> => Tail(c) \in Seq(E) /\ Len(Tail(c)) <= ChannelCap /\ Head(c) \in E
  BY <1>1
<1>4. \A event \in E : Len(c) < ChannelCap =>
        Append(c, event) \in Seq(E) /\ Len(Append(c, event)) <= ChannelCap
  BY <1>1
<1> QED
  BY <1>2, <1>3, <1>4 DEF Channel, E

\* A step after which what is to be broadcast is as before.
LEMMA UnsentKept ==
  ASSUME UnsentInv, writes \in Nat, writes' \in Nat, writes <= writes', Onward,
         unsent' \subseteq unsent
  PROVE  UnsentInv'
<1>1. unsent' \subseteq EventsTill(writes') /\ unsent \subseteq EventsTill(writes)
  BY EventsGrow DEF UnsentInv
<1>2. \A e \in unsent : e.id \in Interviews
  BY <1>1 DEF EventsTill
<1> QED
  BY <1>1, <1>2 DEF UnsentInv, Onward

\* A handler has written and is to broadcast.
LEMMA AnnounceInv ==
  ASSUME BackendInv, UnsentInv, NEW i \in Interviews, NEW status \in Status,
         WriteRow(i, status), msg' = msg, work' = work,
         NEW type \in {"interview_created", "interview_updated"}, Announce(type, i),
         type = "interview_created" => rows[i] = "absent"
  PROVE  BackendInv' /\ UnsentInv' /\ writes' = writes + 1
<1> DEFINE event == [type |-> type, id |-> i, at |-> writes']
<1>1. BackendInv' /\ writes' = writes + 1 /\ rows'[i] # "absent" /\ Onward
  BY WriteInv
<1>2. writes \in Nat /\ writes' \in Nat /\ writes <= writes'
  BY <1>1, InterviewsAssumption DEF BackendInv
<1>3. event \in EventsTill(writes') /\ event.type = type /\ event.id = i
  BY <1>1, <1>2 DEF EventsTill
<1>4. unsent' = unsent \cup {event}
  BY DEF Announce
<1> HIDE DEF event
<1>5. unsent \subseteq EventsTill(writes) /\ unsent' \subseteq EventsTill(writes')
  BY <1>2, <1>3, <1>4, EventsGrow DEF UnsentInv
<1>6. \A e \in unsent : e.id \in Interviews
  BY <1>5 DEF EventsTill
<1>7. \A e \in unsent : /\ rows'[e.id] # "absent"
                        /\ e.type = "interview_created" => msg'[e.id].at = "none"
  BY <1>1, <1>6 DEF UnsentInv, Onward
<1>8. type = "interview_created" => msg'[i].at = "none" /\ \A e \in unsent : e.id # i
  BY DEF UnsentInv, BackendInv
<1>9. \A e, f \in unsent' :
        e.type = "interview_created" /\ f.type = "interview_created" /\ e.id = f.id => e = f
  BY <1>3, <1>4, <1>8 DEF UnsentInv
<1> QED
  BY <1>1, <1>3, <1>4, <1>5, <1>7, <1>8, <1>9 DEF UnsentInv

\* Broadcast of a write.
LEMMA BroadcastStep ==
  ASSUME ChanInv, writes \in Nat, writes' = writes,
         NEW event \in EventsTill(writes), chan' = Broadcast(chan, event)
  PROVE  ChanInv'
<1>1. event \in EventsTill(writes')
  OBVIOUS
<1>2. ASSUME NEW t \in Tabs, NEW s \in Sources
      PROVE  /\ chan[t][s] \in Channel(writes')
             /\ Len(chan[t][s]) < ChannelCap => Append(chan[t][s], event) \in Channel(writes')
  <2>1. chan[t][s] \in Channel(writes)
    BY DEF ChanInv
  <2>2. chan[t][s] \in Channel(writes')
    BY <2>1
  <2> QED
    BY <1>1, <2>2, ChannelOps
<1> DEFINE new(t, s) == IF hook[t].src[s] = "OPEN" /\ Len(chan[t][s]) < ChannelCap
                        THEN Append(chan[t][s], event) ELSE chan[t][s]
<1>3. \A t \in Tabs, s \in Sources : new(t, s) \in Channel(writes')
  BY <1>2
<1>4. chan' = [t \in Tabs |-> [s \in Sources |-> new(t, s)]]
  BY DEF Broadcast
<1> HIDE DEF new
<1>5. \A t \in Tabs : [s \in Sources |-> new(t, s)] \in [Sources -> Channel(writes')]
  BY <1>3
<1> QED
  BY <1>4, <1>5 DEF ChanInv

\* The handler broadcasts; that of a new interview then posts its message.
LEMMA BroadcastsInv ==
  ASSUME BackendInv, UnsentInv, ChanInv, NEW event \in unsent, Broadcasts(event)
  PROVE  BackendInv' /\ UnsentInv' /\ ChanInv' /\ writes' = writes
<1>1. /\ unsent' = unsent \ {event} /\ chan' = Broadcast(chan, event)
      /\ rows' = rows /\ writes' = writes /\ work' = work /\ writes \in Nat
  BY InterviewsAssumption DEF Broadcasts, BackendInv
<1> DEFINE i == event.id
           old == msg[i]
<1>2. event \in EventsTill(writes)
  BY DEF UnsentInv
<1>3. i \in Interviews /\ rows[i] # "absent"
  BY <1>2 DEF UnsentInv, EventsTill
<1>4. ChanInv'
  BY <1>1, <1>2, BroadcastStep
<1>5. CASE event.type # "interview_created"
  <2>1. msg' = msg
    BY <1>5 DEF Broadcasts
  <2>2. Onward /\ BackendInv'
    BY <1>1, <2>1 DEF Onward, BackendInv
  <2> QED
    BY <1>1, <1>4, <2>2, UnsentKept
<1>6. CASE event.type = "interview_created"
  <2>1. PICK posted \in {"queued", "none"} : msg' = [msg EXCEPT ![i].at = posted]
    BY <1>6 DEF Broadcasts
  <2> DEFINE new == [old EXCEPT !.at = posted]
  <2>2. old \in Message /\ HasAttempt(old) /\ old.at = "none"
    BY <1>3, <1>6 DEF BackendInv, UnsentInv
  <2>3. msg' = [msg EXCEPT ![i] = new]
    BY <2>1
  <2> HIDE DEF i, old
  <2>4. new \in Message /\ new.left = old.left
    BY <2>2 DEF Message
  <2> HIDE DEF new
  <2>5. HasAttempt(new)
    BY <2>2, <2>4 DEF HasAttempt
  <2>6. /\ msg' \in [Interviews -> Message] /\ msg'[i] = new
        /\ \A j \in Interviews \ {i} : msg'[j] = msg[j]
    BY <1>3, <2>3, <2>4 DEF BackendInv
  <2>7. BackendInv'
    BY <1>1, <1>3, <2>5, <2>6 DEF BackendInv
  <2>8. \A e \in unsent' : e.type = "interview_created" => e.id \in Interviews \ {i}
    BY <1>1, <1>2, <1>6 DEF UnsentInv, EventsTill, i
  <2>9. UnsentInv'
    BY <1>1, <2>6, <2>8 DEF UnsentInv
  <2> QED
    BY <1>1, <1>4, <2>7, <2>9
<1> QED
  BY <1>5, <1>6

\* The stream's own steps only empty channels.
LEMMA StreamChan ==
  ASSUME ChanInv, NEW t \in Tabs, StreamStep(t), writes' = writes
  PROVE  ChanInv'
<1>1. \A u \in Tabs, s \in Sources : chan[u][s] \in Channel(writes) /\ <<>> \in Channel(writes)
  BY ChannelOps DEF ChanInv
<1>2. CASE chan' = chan
  BY <1>2 DEF ChanInv
<1>3. ASSUME NEW s \in Sources, chan' = [chan EXCEPT ![t][s] = <<>>]
      PROVE  ChanInv'
  BY <1>1, <1>3 DEF ChanInv
<1>4. CASE UnmountEffect(t)
  <2> DEFINE cs == [s \in Sources |-> IF hook'[t].src[s] = "OPEN" THEN chan[t][s] ELSE <<>>]
  <2>1. chan' = [chan EXCEPT ![t] = cs]
    BY <1>4 DEF UnmountEffect
  <2>2. cs \in [Sources -> Channel(writes)]
    BY <1>1
  <2> HIDE DEF cs
  <2> QED
    BY <2>1, <2>2 DEF ChanInv
<1> QED
  BY <1>2, <1>3, <1>4 DEF StreamStep, MountEffect, RetryFires, Opens, Breaks, Refused

-----------------------------------------------------------------------------
(* The entries of the query cache *)

Entry == [data: Answer \cup {Undefined}, inval: BOOLEAN, error: BOOLEAN,
          flight: {"idle", "asked", "answered"}, got: Answer \cup {Undefined}]

GoodEntry == {e \in Entry : e.flight = "answered" => e.got \in Answer}

\* f is e, with the same data, its fetch as it was or started anew.
Carried(e, f) ==
  /\ f.data = e.data
  /\ \/ f.flight = "asked"
     \/ f.flight = e.flight /\ f.got = e.got /\ f.error = e.error /\ (e.inval => f.inval)

\* A fetch that starts is asked of the server, and the data is kept.
LEMMA StartFetchFacts ==
  ASSUME NEW e \in GoodEntry
  PROVE  /\ StartFetch(e) \in GoodEntry /\ Carried(e, StartFetch(e))
         /\ StartFetch(e).flight = "asked"
<1> DEFINE err == IF e.data = Undefined THEN FALSE ELSE e.error
           f == [e EXCEPT !.flight = "asked", !.got = Undefined, !.error = err]
<1>1. e \in Entry /\ err \in BOOLEAN
  BY DEF GoodEntry, Entry
<1>2. StartFetch(e) = f
  BY DEF StartFetch
<1> HIDE DEF err
<1>3. f \in Entry /\ f.data = e.data /\ f.flight = "asked"
  BY <1>1 DEF Entry
<1> HIDE DEF f
<1> QED
  BY <1>2, <1>3 DEF GoodEntry, Carried

\* Mounting, polling, refetching and invalidating carry an entry; what is
\* invalidated on the page shown is asked for anew once it has data.
LEMMA CarriedFacts ==
  ASSUME NEW e \in GoodEntry
  PROVE  /\ Carried(e, e)
         /\ Refetch(e) \in GoodEntry /\ Carried(e, Refetch(e))
         /\ RefetchAnew(e) \in GoodEntry /\ Carried(e, RefetchAnew(e))
         /\ e.data # Undefined => RefetchAnew(e).flight = "asked"
         /\ \A old : MountQuery(e, old) \in GoodEntry /\ Carried(e, MountQuery(e, old))
         /\ \A active : InvalidateQuery(e, active) \in GoodEntry
                        /\ Carried(e, InvalidateQuery(e, active))
         /\ e.data # Undefined => InvalidateQuery(e, TRUE).flight = "asked"
<1>1. Carried(e, e)
  BY DEF Carried
<1>2. Refetch(e) \in GoodEntry /\ Carried(e, Refetch(e))
  BY <1>1, StartFetchFacts DEF Refetch
<1>3. ASSUME NEW f \in GoodEntry
      PROVE  /\ RefetchAnew(f) \in GoodEntry /\ Carried(f, RefetchAnew(f))
             /\ f.data # Undefined => RefetchAnew(f).flight = "asked"
  <2>1. Carried(f, f)
    BY DEF Carried
  <2> QED
    BY <2>1, StartFetchFacts DEF RefetchAnew
<1>4. \A old : MountQuery(e, old) \in GoodEntry /\ Carried(e, MountQuery(e, old))
  BY <1>1, <1>2 DEF MountQuery
<1> DEFINE m == [e EXCEPT !.inval = TRUE]
<1>5. /\ m \in Entry /\ m.data = e.data /\ m.flight = e.flight /\ m.got = e.got
      /\ m.error = e.error /\ m.inval
  BY DEF GoodEntry, Entry
<1>6. \A active : InvalidateQuery(e, active) = IF active THEN RefetchAnew(m) ELSE m
  BY DEF InvalidateQuery
<1> HIDE DEF m
<1>7. m \in GoodEntry
  BY <1>5 DEF GoodEntry
<1>8. /\ RefetchAnew(m) \in GoodEntry /\ Carried(m, RefetchAnew(m))
      /\ m.data # Undefined => RefetchAnew(m).flight = "asked"
  BY <1>3, <1>7
<1>9. Carried(e, RefetchAnew(m)) /\ Carried(e, m)
  BY <1>5, <1>8 DEF Carried
<1> QED
  BY <1>1, <1>2, <1>3, <1>4, <1>5, <1>6, <1>7, <1>8, <1>9

\* The ends of a fetch.
LEMMA SettledFacts ==
  ASSUME NEW e \in GoodEntry, NEW a \in Answer
  PROVE  /\ ServerAnswers(e, a) \in GoodEntry /\ ServerAnswers(e, a).data = e.data
         /\ ServerAnswers(e, a).flight = "answered" /\ ServerAnswers(e, a).got = a
         /\ Succeed(a) \in GoodEntry /\ Succeed(a).data = a /\ Succeed(a).flight = "idle"
         /\ Reject(e) \in GoodEntry /\ Reject(e).data = e.data /\ Reject(e).flight = "idle"
         /\ Reject(e).error
<1>1. e \in Entry
  BY DEF GoodEntry
<1>2. /\ ServerAnswers(e, a) \in Entry /\ ServerAnswers(e, a).data = e.data
      /\ ServerAnswers(e, a).flight = "answered" /\ ServerAnswers(e, a).got = a
  BY <1>1 DEF Entry, ServerAnswers
<1>3. Succeed(a) \in Entry /\ Succeed(a).data = a /\ Succeed(a).flight = "idle"
  BY DEF Entry, Succeed, NewEntry
<1>4. /\ Reject(e) \in Entry /\ Reject(e).data = e.data /\ Reject(e).flight = "idle"
      /\ Reject(e).error
  BY <1>1 DEF Entry, Reject
<1> QED
  BY <1>2, <1>3, <1>4 DEF GoodEntry

\* What the server returns to a query is an answer, dated by the last write.
LEMMA SnapshotFacts ==
  ASSUME BackendInv, NEW k \in Keys
  PROVE  /\ Snapshot(k) \in Answer /\ Snapshot(k).at = writes
         /\ [val |-> Null, at |-> 0] \in Answer
<1> DEFINE V == UNION {[S -> Status] : S \in SUBSET Interviews}
           S0 == {j \in Asked(k) : rows[j] # "absent"}
           v == [i \in S0 |-> rows[i]]
<1>1. Asked(k) \subseteq Interviews
  BY DEF Asked, DetailKeys
<1>2. S0 \in SUBSET Interviews
  BY <1>1
<1>3. \A i \in S0 : rows[i] \in Status
  BY <1>1 DEF BackendInv
<1>4. v \in [S0 -> Status]
  BY <1>3
<1>5. Null \in [{} -> Status] /\ {} \in SUBSET Interviews
  BY DEF Null
<1> HIDE DEF S0, v
<1>6. v \in V /\ Null \in V
  BY <1>2, <1>4, <1>5
<1>7. writes \in 0 .. MaxWrites /\ 0 \in 0 .. MaxWrites
  BY InterviewsAssumption DEF BackendInv
<1>8. Snapshot(k) = [val |-> v, at |-> writes]
  BY DEF Snapshot, v, S0
<1>9. Answer = [val: V, at: 0 .. MaxWrites]
  BY DEF Answer
<1> HIDE DEF V
<1> QED
  BY <1>6, <1>7, <1>8, <1>9

\* The keys that an event or a handler invalidates are those of the pages
\* concerned (InvalidatedBy, invalidateQueries).
LEMMA KeyFacts ==
  /\ \A i \in Interviews : /\ <<"interview", i>> \in DetailKeys /\ <<"interview", i>>[2] = i
                           /\ Matches(<<"interview", i>>, <<"interview", i>>)
  /\ \A k \in ListKeys : Matches(k, <<"interviews">>)
  /\ \A k \in DetailKeys : k[2] \in Interviews /\ k = <<"interview", k[2]>>
  /\ \A k \in ListKeys : k \notin DetailKeys
<1>1. ASSUME NEW i
      PROVE  Matches(<<"interview", i>>, <<"interview", i>>)
  <2> DEFINE S == {"interview", i}
             k == <<"interview", i>>
             part == SubSeq(k, 1, 2)
  <2>1. k \in Seq(S) /\ Len(k) = 2 /\ \A n \in 1 .. 2 : k[n] \in S
    OBVIOUS
  <2> HIDE DEF S, k
  <2>2. /\ part \in Seq(S) /\ Len(part) = IF 1 <= 2 THEN 2 - 1 + 1 ELSE 0
        /\ \A n \in 1 .. 2 - 1 + 1 : part[n] = k[1 + n - 1]
    BY <2>1, SubSeqProperties
  <2> HIDE DEF part
  <2>3. Len(part) = 2 /\ \A n \in 1 .. 2 : part[n] = k[n]
    BY <2>2
  <2>4. part = k
    BY <2>1, <2>2, <2>3, SeqEqual
  <2> QED
    BY <2>1, <2>4 DEF Matches, part, k
<1>2. ASSUME NEW f
      PROVE  Matches(<<"interviews", f>>, <<"interviews">>)
  <2> DEFINE S == {"interviews", f}
             k == <<"interviews", f>>
             p == <<"interviews">>
             part == SubSeq(k, 1, 1)
  <2>1. /\ k[1] \in S /\ k[1] = p[1] /\ p \in Seq(S) /\ Len(p) = 1 /\ Len(k) = 2
        /\ \A n \in 1 .. 1 : k[n] \in S
    OBVIOUS
  <2> HIDE DEF S, k, p
  <2>2. /\ part \in Seq(S) /\ Len(part) = IF 1 <= 1 THEN 1 - 1 + 1 ELSE 0
        /\ \A n \in 1 .. 1 - 1 + 1 : part[n] = k[1 + n - 1]
    BY <2>1, SubSeqProperties
  <2> HIDE DEF part
  <2>3. Len(part) = 1 /\ \A n \in 1 .. 1 : part[n] = p[n]
    BY <2>1, <2>2
  <2>4. part = p
    BY <2>1, <2>2, <2>3, SeqEqual
  <2> QED
    BY <2>1, <2>4 DEF Matches, part, k, p
<1>3. \A k \in DetailKeys : k[2] \in Interviews /\ k = <<"interview", k[2]>>
  BY DEF DetailKeys
<1>4. \A k \in ListKeys : k \notin DetailKeys
  BY DEF DetailKeys, ListKeys
<1> QED
  BY <1>1, <1>2, <1>3, <1>4 DEF DetailKeys, ListKeys

-----------------------------------------------------------------------------
(* One tab *)

IdleHandler == [dialog: Act \cup {"none"}, step: {"none"}, own: {FALSE}, awaits: {{}}]
BusyHandler == [dialog: Act \cup {"none"}, step: {"request", "served", "detail", "list"},
                own: BOOLEAN, awaits: SUBSET Keys, act: Act, id: Interviews,
                wrote: 0 .. MaxWrites]
Handler == IdleHandler \cup BusyHandler

\* The entry e of query k on page p, when the newest write that its tab was told
\* of is n: an answer under way has it, and so has what came, unless it failed
\* or the query is marked for the next visit.
UpToDate(p, k, e, n) ==
  /\ e.flight = "answered" => e.got.at >= n
  /\ e.data # Undefined /\ e.flight = "idle" /\ ~e.error =>
       e.data.val = Null \/ e.data.at >= n \/ (k # p /\ e.inval)

\* The page shown has started the handler h and is still there.  Once it has
\* asked for the detail, no answer from before its write can come.
Follows(p, h, e) ==
  /\ h.step # "none"
  /\ p = <<"interview", h.id>> /\ e.data # Undefined
  /\ h.step \in {"detail", "list"} =>
       /\ e.flight = "answered" => e.got.at >= h.wrote
       /\ p \notin h.awaits => e.data.val = Null \/ e.data.at >= h.wrote

TabOK(p, h, c, n, w) ==
  /\ p \in Keys /\ h \in Handler /\ c \in [Keys -> GoodEntry]
  /\ n \in [Keys -> Nat] /\ \A k \in Keys : n[k] <= w
  /\ h.step # "none" => h.wrote <= w
  /\ h.dialog # "none" => p \in DetailKeys
  /\ \A k \in Keys : UpToDate(p, k, c[k], n[k])
  /\ h.own => Follows(p, h, c[p])

\* An entry that is carried stays up to date and goes on to be followed.
LEMMA CarriedUpToDate ==
  ASSUME NEW e, NEW f, Carried(e, f)
  PROVE  /\ \A p, k, n : UpToDate(p, k, e, n) => UpToDate(p, k, f, n)
         /\ \A p, h : Follows(p, h, e) => Follows(p, h, f)
  BY DEF Carried, UpToDate, Follows

\* A tab whose entries are all carried.
LEMMA CarriedTab ==
  ASSUME NEW p, NEW h, NEW c, NEW n, NEW w, TabOK(p, h, c, n, w),
         NEW d \in [Keys -> GoodEntry], \A k \in Keys : Carried(c[k], d[k])
  PROVE  TabOK(p, h, d, n, w)
<1>1. \A k \in Keys : UpToDate(p, k, d[k], n[k])
  <2> SUFFICES ASSUME NEW k \in Keys
               PROVE  UpToDate(p, k, d[k], n[k])
    OBVIOUS
  <2>1. Carried(c[k], d[k]) /\ UpToDate(p, k, c[k], n[k])
    BY DEF TabOK
  <2> QED
    BY <2>1, CarriedUpToDate
<1>2. Carried(c[p], d[p])
  BY DEF TabOK
<1>3. h.own => Follows(p, h, d[p])
  BY <1>2, CarriedUpToDate DEF TabOK
<1> QED
  BY <1>1, <1>3 DEF TabOK

\* A query that is invalidated has been told of, unless it was overtaken.
LEMMA ToldFacts ==
  ASSUME NEW p, NEW k, NEW e \in GoodEntry, NEW n \in Nat, NEW m \in Nat,
         UpToDate(p, k, e, n), ~Overtaken(e, k = p, m)
  PROVE  UpToDate(p, k, InvalidateQuery(e, k = p), Newer(n, m))
<1> DEFINE x == [e EXCEPT !.inval = TRUE]
           f == InvalidateQuery(e, k = p)
           new == Newer(n, m)
<1>1. /\ x \in Entry /\ x.data = e.data /\ x.flight = e.flight /\ x.got = e.got
      /\ x.error = e.error /\ x.inval
  BY DEF GoodEntry, Entry
<1>2. x \in GoodEntry
  BY <1>1 DEF GoodEntry
<1>3. /\ k # p => f = x
      /\ k = p /\ Fetching(x) /\ x.data = Undefined => f = x
      /\ k = p /\ ~(Fetching(x) /\ x.data = Undefined) => f = StartFetch(x)
  BY DEF InvalidateQuery, RefetchAnew
<1> HIDE DEF x, f
<1>4. ASSUME e.flight = "answered", k # p \/ e.data = Undefined
      PROVE  e.got.at >= new
  <2>1. e.got.at >= n /\ ~(e.got.at < m)
    BY <1>4 DEF UpToDate, Overtaken
  <2>2. e.got \in Answer
    BY <1>4 DEF GoodEntry
  <2>3. e.got.at \in Nat
    BY <2>2, InterviewsAssumption DEF Answer
  <2> QED
    BY <2>1, <2>3 DEF Newer
<1>5. CASE f = StartFetch(x)
  <2>1. f.flight = "asked"
    BY <1>2, <1>5, StartFetchFacts
  <2>2. UpToDate(p, k, f, new)
    BY <2>1 DEF UpToDate
  <2> QED
    BY <2>2 DEF f
<1>6. CASE f = x /\ k # p
  <2>1. UpToDate(p, k, f, new)
    BY <1>1, <1>4, <1>6 DEF UpToDate
  <2> QED
    BY <2>1 DEF f
<1>7. CASE f = x /\ x.data = Undefined
  <2>1. UpToDate(p, k, f, new)
    BY <1>1, <1>4, <1>7 DEF UpToDate
  <2> QED
    BY <2>1 DEF f
<1> QED
  BY <1>3, <1>5, <1>6, <1>7

\* What Invalidate and Tell make of a tab.
After(p, c, hit) == [k \in Keys |-> IF k \in hit THEN InvalidateQuery(c[k], k = p) ELSE c[k]]

ToldOf(p, c, n, ks, m) ==
  [k \in Keys |-> IF k \in ks /\ ~Overtaken(c[k], k = p, m) THEN Newer(n[k], m) ELSE n[k]]

\* A tab that is told of a write and invalidates at least what the write
\* concerns.
LEMMA ToldTab ==
  ASSUME NEW p, NEW h, NEW c, NEW n, NEW w \in Nat, TabOK(p, h, c, n, w),
         NEW hit, NEW ks, \A k \in Keys : k \in ks => k \in hit,
         NEW m \in Nat, m <= w
  PROVE  /\ TabOK(p, h, After(p, c, hit), ToldOf(p, c, n, ks, m), w)
         /\ \A k \in Keys : Carried(c[k], After(p, c, hit)[k])
<1> DEFINE d == After(p, c, hit)
           new == ToldOf(p, c, n, ks, m)
<1>1. c \in [Keys -> GoodEntry] /\ n \in [Keys -> Nat] /\ p \in Keys
  BY DEF TabOK
<1>2. ASSUME NEW k \in Keys
      PROVE  /\ d[k] \in GoodEntry /\ Carried(c[k], d[k])
             /\ new[k] \in Nat /\ new[k] <= w /\ UpToDate(p, k, d[k], new[k])
  <2> DEFINE e == c[k]
             active == (k = p)
  <2>1. e \in GoodEntry /\ n[k] \in Nat /\ n[k] <= w /\ UpToDate(p, k, e, n[k])
    BY <1>1 DEF TabOK
  <2>2. d[k] = IF k \in hit THEN InvalidateQuery(e, active) ELSE e
    BY DEF After
  <2>3. new[k] = IF k \in ks /\ ~Overtaken(e, active, m) THEN Newer(n[k], m) ELSE n[k]
    BY DEF ToldOf
  <2> HIDE DEF d, new, e
  <2>4. d[k] \in GoodEntry /\ Carried(e, d[k])
    <3>1. Carried(e, e)
      BY <2>1, CarriedFacts
    <3>2. InvalidateQuery(e, active) \in GoodEntry /\ Carried(e, InvalidateQuery(e, active))
      BY <2>1, CarriedFacts, Zenon
    <3> HIDE DEF active
    <3>3. CASE k \in hit
      BY <2>2, <3>2, <3>3
    <3>4. CASE k \notin hit
      BY <2>1, <2>2, <3>1, <3>4
    <3> QED
      BY <3>3, <3>4
  <2>5. new[k] \in Nat /\ new[k] <= w
    <3> HIDE DEF active
    <3> QED
      BY <2>1, <2>3 DEF Newer
  <2>6. ASSUME new[k] = n[k]
        PROVE  UpToDate(p, k, d[k], new[k])
    BY <2>1, <2>4, <2>6, CarriedUpToDate
  <2>7. ASSUME k \in ks, ~Overtaken(e, active, m)
        PROVE  UpToDate(p, k, d[k], new[k])
    <3>1. d[k] = InvalidateQuery(e, active) /\ new[k] = Newer(n[k], m)
      <4> HIDE DEF active
      <4> QED
        BY <2>2, <2>3, <2>7
    <3>2. UpToDate(p, k, InvalidateQuery(e, active), Newer(n[k], m))
      BY <2>1, <2>7, ToldFacts
    <3> HIDE DEF active
    <3> QED
      BY <3>1, <3>2
  <2>8. new[k] = n[k] \/ (k \in ks /\ ~Overtaken(e, active, m))
    <3> HIDE DEF active
    <3> QED
      BY <2>3
  <2>9. UpToDate(p, k, d[k], new[k])
    BY <2>6, <2>7, <2>8
  <2> QED
    BY <2>4, <2>5, <2>9 DEF e
<1>3. d \in [Keys -> GoodEntry] /\ new \in [Keys -> Nat]
  <2>1. /\ d = [k \in Keys |-> d[k]] /\ new = [k \in Keys |-> new[k]]
    BY DEF After, ToldOf
  <2> HIDE DEF d, new
  <2> QED
    BY <1>2, <2>1
<1> HIDE DEF d, new
<1>4. h.own => Follows(p, h, d[p])
  BY <1>1, <1>2, CarriedUpToDate DEF TabOK
<1>5. TabOK(p, h, d, new, w)
  BY <1>2, <1>3, <1>4 DEF TabOK
<1> QED
  BY <1>2, <1>5 DEF d, new

\* One entry changes.
LEMMA OneEntry ==
  ASSUME NEW c \in [Keys -> GoodEntry], NEW k \in Keys, NEW f \in GoodEntry,
         Carried(c[k], f)
  PROVE  /\ [c EXCEPT ![k] = f] \in [Keys -> GoodEntry]
         /\ \A j \in Keys : Carried(c[j], [c EXCEPT ![k] = f][j])
<1>1. \A j \in Keys : Carried(c[j], c[j])
  BY CarriedFacts
<1> QED
  BY <1>1

\* A write that the tab has not been told of does not concern it.
LEMMA TabDateGrows ==
  ASSUME NEW p, NEW h, NEW c, NEW n, NEW v \in Nat, NEW w \in Nat, v <= w,
         TabOK(p, h, c, n, v)
  PROVE  TabOK(p, h, c, n, w)
<1>1. \A k \in Keys : n[k] <= w
  BY DEF TabOK
<1>2. h.step # "none" => h.wrote <= w
  <2> SUFFICES ASSUME h.step # "none"
               PROVE  h.wrote <= w
    OBVIOUS
  <2>1. h \in BusyHandler
    BY DEF TabOK, Handler, IdleHandler
  <2>2. h.wrote \in 0 .. MaxWrites
    BY <2>1 DEF BusyHandler
  <2>3. h.wrote <= v /\ h.wrote \in Int
    BY <2>2, InterviewsAssumption DEF TabOK
  <2> QED
    BY <2>3
<1> QED
  BY <1>1, <1>2 DEF TabOK

\* What the steps of a handler do to its record.
SameAction(h, g) ==
  /\ g.step = h.step /\ g.own = h.own
  /\ h.step # "none" => g.act = h.act /\ g.id = h.id /\ g.wrote = h.wrote

\* The end of a fetch and a dialog leave the action of a handler alone.
LEMMA HandlerFacts ==
  ASSUME NEW h \in Handler
  PROVE  /\ \A k : LET g == [h EXCEPT !.awaits = @ \ {k}] IN
                     /\ g \in Handler /\ SameAction(h, g) /\ g.dialog = h.dialog
                     /\ g.awaits = h.awaits \ {k}
         /\ \A d \in Act \cup {"none"} :
              LET g == [h EXCEPT !.dialog = d] IN
                g \in Handler /\ SameAction(h, g) /\ g.dialog = d /\ g.awaits = h.awaits
<1>1. CASE h \in IdleHandler
  BY <1>1 DEF Handler, IdleHandler, SameAction
<1>2. CASE h \in BusyHandler
  BY <1>2 DEF Handler, BusyHandler, SameAction
<1> QED
  BY <1>1, <1>2 DEF Handler

\* NoHandler, with a dialog left open.
LEMMA NoHandlerFacts ==
  ASSUME NEW d \in Act \cup {"none"}
  PROVE  LET g == [NoHandler EXCEPT !.dialog = d] IN
           g \in Handler /\ g.dialog = d /\ g.step = "none" /\ ~g.own /\ g.awaits = {}
  BY DEF Handler, IdleHandler, NoHandler

\* A handler that runs is a busy one.
LEMMA BusyFacts ==
  ASSUME NEW h \in Handler, h.step # "none"
  PROVE  /\ h \in BusyHandler /\ h.act \in Act /\ h.id \in Interviews
         /\ h.wrote \in Nat /\ h.awaits \subseteq Keys
<1>1. h \in BusyHandler
  BY DEF Handler, IdleHandler
<1>2. /\ h.act \in Act /\ h.id \in Interviews /\ h.wrote \in 0 .. MaxWrites
      /\ h.awaits \subseteq Keys
  BY <1>1 DEF BusyHandler
<1> QED
  BY <1>1, <1>2, InterviewsAssumption

-----------------------------------------------------------------------------
(* The steps of a tab *)

TabsInv ==
  /\ page \in [Tabs -> Keys] /\ ui \in [Tabs -> Handler]
  /\ cache \in [Tabs -> [Keys -> GoodEntry]] /\ told \in [Tabs -> [Keys -> Nat]]
  /\ \A t \in Tabs : TabOK(page[t], ui[t], cache[t], told[t], writes)

\* It is enough to look at the tab that steps.
LEMMA OneTab ==
  ASSUME TabsInv, NEW t \in Tabs, NEW p, NEW h, NEW c, NEW n,
         TabOK(p, h, c, n, writes),
         page' = [page EXCEPT ![t] = p], ui' = [ui EXCEPT ![t] = h],
         cache' = [cache EXCEPT ![t] = c], told' = [told EXCEPT ![t] = n],
         writes' = writes
  PROVE  TabsInv'
<1>1. p \in Keys /\ h \in Handler /\ c \in [Keys -> GoodEntry] /\ n \in [Keys -> Nat]
  BY DEF TabOK
<1>2. /\ page' \in [Tabs -> Keys] /\ ui' \in [Tabs -> Handler]
      /\ cache' \in [Tabs -> [Keys -> GoodEntry]] /\ told' \in [Tabs -> [Keys -> Nat]]
  BY <1>1 DEF TabsInv
<1>3. ASSUME NEW u \in Tabs
      PROVE  TabOK(page'[u], ui'[u], cache'[u], told'[u], writes')
  <2>1. CASE u = t
    <3>1. page'[u] = p /\ ui'[u] = h /\ cache'[u] = c /\ told'[u] = n
      BY <2>1 DEF TabsInv
    <3> QED
      BY <3>1
  <2>2. CASE u # t
    <3>1. /\ page'[u] = page[u] /\ ui'[u] = ui[u] /\ cache'[u] = cache[u]
          /\ told'[u] = told[u]
      BY <2>2 DEF TabsInv
    <3> QED
      BY <3>1 DEF TabsInv
  <2> QED
    BY <2>1, <2>2
<1> QED
  BY <1>2, <1>3 DEF TabsInv

\* A step that only carries entries of one tab.
LEMMA CarryStep ==
  ASSUME TabsInv, NEW t \in Tabs, NEW d \in [Keys -> GoodEntry],
         \A k \in Keys : Carried(cache[t][k], d[k]),
         cache' = [cache EXCEPT ![t] = d],
         page' = page, ui' = ui, told' = told, writes' = writes
  PROVE  TabsInv'
<1> DEFINE p == page[t]
           h == ui[t]
           n == told[t]
<1>1. TabOK(p, h, cache[t], n, writes)
  BY DEF TabsInv
<1>2. TabOK(p, h, d, n, writes)
  BY <1>1, CarriedTab
<1>3. /\ page' = [page EXCEPT ![t] = p] /\ ui' = [ui EXCEPT ![t] = h]
      /\ told' = [told EXCEPT ![t] = n]
  BY DEF TabsInv
<1> HIDE DEF p, h, n
<1> QED
  BY <1>2, <1>3, OneTab

\* The polls, the focus and the retry of a list.
LEMMA RefetchStep ==
  ASSUME TabsInv, NEW t \in Tabs, writes' = writes,
         Poll(t) \/ Focus(t) \/ RetryList(t)
  PROVE  TabsInv'
<1> DEFINE k == page[t]
           e == cache[t][k]
<1>1. k \in Keys /\ cache[t] \in [Keys -> GoodEntry] /\ e \in GoodEntry
  BY DEF TabsInv
<1>2. PICK f : /\ f = Refetch(e) \/ f = RefetchAnew(e)
               /\ cache' = [cache EXCEPT ![t][k] = f]
  BY DEF Poll, Focus, RetryList, SetEntry
<1>3. page' = page /\ ui' = ui /\ told' = told
  BY DEF Poll, Focus, RetryList
<1> HIDE DEF k, e
<1>4. f \in GoodEntry /\ Carried(e, f)
  BY <1>1, <1>2, CarriedFacts
<1> DEFINE d == [cache[t] EXCEPT ![k] = f]
<1>5. d \in [Keys -> GoodEntry] /\ \A j \in Keys : Carried(cache[t][j], d[j])
  BY <1>1, <1>4, OneEntry DEF e
<1>6. cache' = [cache EXCEPT ![t] = d]
  BY <1>2 DEF TabsInv
<1> HIDE DEF d
<1> QED
  BY <1>3, <1>5, <1>6, CarryStep

\* The answer of the server is as new as its last write.
LEMMA OnServerStep ==
  ASSUME TabsInv, BackendInv, NEW t \in Tabs, NEW k \in Keys, OnServer(t, k), writes' = writes
  PROVE  TabsInv'
<1> DEFINE e == cache[t][k]
           f == ServerAnswers(e, Snapshot(k))
           d == [cache[t] EXCEPT ![k] = f]
           p == page[t]
           h == ui[t]
<1>1. /\ e.flight = "asked" /\ cache' = [cache EXCEPT ![t][k] = f]
      /\ page' = page /\ ui' = ui /\ told' = told
  BY DEF OnServer, SetEntry
<1>2. cache' = [cache EXCEPT ![t] = d]
  BY <1>1 DEF TabsInv
<1>3. TabOK(p, h, cache[t], told[t], writes) /\ e \in GoodEntry
  BY DEF TabsInv
<1>4. /\ f \in GoodEntry /\ f.data = e.data /\ f.flight = "answered"
      /\ f.got.at = writes
  <2>1. Snapshot(k) \in Answer /\ Snapshot(k).at = writes
    BY SnapshotFacts
  <2> HIDE DEF e
  <2> QED
    BY <1>3, <2>1, SettledFacts
<1> HIDE DEF f
<1>5. d \in [Keys -> GoodEntry] /\ d[k] = f /\ \A j \in Keys \ {k} : d[j] = cache[t][j]
  BY <1>4 DEF TabsInv
<1> HIDE DEF d
<1> DEFINE n == told[t]
<1>6. TabOK(p, h, d, n, writes)
  <2>1. ASSUME NEW j \in Keys
        PROVE  UpToDate(p, j, d[j], n[j])
    <3>1. CASE j # k
      BY <1>3, <1>5, <3>1 DEF TabOK
    <3>2. CASE j = k
      <4>1. n[j] <= writes /\ d[j] = f
        BY <1>3, <1>5, <3>2 DEF TabOK
      <4> QED
        BY <1>4, <4>1 DEF UpToDate
    <3> QED
      BY <3>1, <3>2
  <2>2. ASSUME h.own
        PROVE  Follows(p, h, d[p])
    <3>1. Follows(p, h, cache[t][p]) /\ h.wrote <= writes /\ p \in Keys
      BY <1>3, <2>2 DEF TabOK, Follows
    <3>2. CASE p # k
      BY <1>5, <3>1, <3>2
    <3>3. CASE p = k
      BY <1>4, <1>5, <3>1, <3>3 DEF Follows
    <3> QED
      BY <3>2, <3>3
  <2> QED
    BY <1>3, <1>5, <2>1, <2>2 DEF TabOK
<1>7. /\ page' = [page EXCEPT ![t] = p] /\ ui' = [ui EXCEPT ![t] = h]
      /\ told' = [told EXCEPT ![t] = told[t]]
  BY <1>1 DEF TabsInv
<1> QED
  BY <1>2, <1>6, <1>7, OneTab

\* A fetch that ends: what came is as new as what was awaited, or it failed and
\* the page shows it.
LEMMA SettleStep ==
  ASSUME TabsInv, BackendInv, NEW t \in Tabs, NEW k \in Keys,
         Arrives(t, k) \/ Fails(t, k), writes' = writes
  PROVE  TabsInv'
<1> DEFINE e == cache[t][k]
           p == page[t]
           h == ui[t]
           n == told[t]
           g == [h EXCEPT !.awaits = @ \ {k}]
<1>1. TabOK(p, h, cache[t], n, writes) /\ e \in GoodEntry /\ h \in Handler
  BY DEF TabsInv
<1>2. PICK f : /\ \/ e.flight = "answered" /\ f = Succeed(e.got)
                  \/ f = Failure(e, k)
               /\ Settles(t, k, f)
  BY DEF Arrives, Fails
<1>3. /\ f \in GoodEntry /\ f.flight = "idle" /\ (e.data # Undefined => f.data # Undefined)
      /\ \/ e.flight = "answered" /\ f.data = e.got
         \/ k \in DetailKeys /\ f.data.val = Null
         \/ k \notin DetailKeys /\ f.error /\ f.data = e.data
  <2>1. CASE e.flight = "answered" /\ f = Succeed(e.got)
    <3>1. e.got \in Answer /\ e.got # Undefined
      BY <1>1, <2>1, PagesAssumption DEF GoodEntry
    <3> QED
      BY <1>1, <2>1, <3>1, SettledFacts
  <2>2. CASE f = Failure(e, k)
    <3> DEFINE a == [val |-> Null, at |-> 0]
    <3>1. a \in Answer /\ a # Undefined /\ a.val = Null
      BY SnapshotFacts, PagesAssumption
    <3>2. f = IF k \in DetailKeys THEN Succeed(a) ELSE Reject(e)
      BY <2>2 DEF Failure
    <3> HIDE DEF a
    <3> QED
      BY <1>1, <3>1, <3>2, SettledFacts
  <2> QED
    BY <1>2, <2>1, <2>2
<1> DEFINE d == [cache[t] EXCEPT ![k] = f]
<1>4. /\ cache' = [cache EXCEPT ![t] = d] /\ ui' = [ui EXCEPT ![t] = g]
      /\ page' = page /\ told' = told
  BY <1>2 DEF Settles, SetEntry, TabsInv
<1>5. d \in [Keys -> GoodEntry] /\ d[k] = f /\ \A j \in Keys \ {k} : d[j] = cache[t][j]
  BY <1>3 DEF TabsInv
<1> HIDE DEF d
<1>6. g \in Handler /\ SameAction(h, g) /\ g.dialog = h.dialog /\ g.awaits = h.awaits \ {k}
  BY <1>1, HandlerFacts
<1> HIDE DEF g
<1>7. ASSUME NEW j \in Keys
      PROVE  UpToDate(p, j, d[j], n[j])
  <2>1. UpToDate(p, j, cache[t][j], n[j])
    BY <1>1 DEF TabOK
  <2>2. CASE j # k
    BY <1>5, <2>1, <2>2
  <2>3. CASE j = k
    BY <1>3, <1>5, <2>1, <2>3 DEF UpToDate
  <2> QED
    BY <2>2, <2>3
<1>8. ASSUME g.own
      PROVE  Follows(p, g, d[p])
  <2>1. h.own /\ Follows(p, h, cache[t][p]) /\ h.step # "none"
    BY <1>1, <1>6, <1>8 DEF TabOK, SameAction, Follows
  <2>2. g.step = h.step /\ g.id = h.id /\ g.wrote = h.wrote
    BY <1>6, <2>1 DEF SameAction
  <2>3. CASE p # k
    BY <1>1, <1>5, <1>6, <2>1, <2>2, <2>3 DEF TabOK, Follows
  <2>4. CASE p = k
    <3>1. k \in DetailKeys
      BY <1>1, <2>1, <2>4, BusyFacts, KeyFacts DEF Follows
    <3> QED
      BY <1>3, <1>5, <1>6, <2>1, <2>2, <2>4, <3>1 DEF Follows
  <2> QED
    BY <2>3, <2>4
<1>9. TabOK(p, g, d, n, writes)
  BY <1>1, <1>5, <1>6, <1>7, <1>8 DEF TabOK, SameAction
<1>10. page' = [page EXCEPT ![t] = p] /\ told' = [told EXCEPT ![t] = n]
  BY <1>4 DEF TabsInv
<1> HIDE DEF p, n, h
<1> QED
  BY <1>4, <1>9, <1>10, OneTab

\* A query that is marked is fetched when a page that observes it is opened.
LEMMA MountFacts ==
  ASSUME NEW p, NEW k, NEW e \in GoodEntry, NEW n, NEW old, UpToDate(p, k, e, n)
  PROVE  UpToDate(k, k, MountQuery(e, old), n)
<1> DEFINE f == MountQuery(e, old)
<1>1. CASE f = StartFetch(e)
  <2>1. f.flight = "asked"
    BY <1>1, StartFetchFacts
  <2> HIDE DEF f
  <2> QED
    BY <2>1 DEF UpToDate, f
<1>2. CASE f = e /\ (Fetching(e) \/ ~e.inval)
  <2> HIDE DEF f
  <2> QED
    BY <1>2 DEF UpToDate, Fetching, f
<1> QED
  BY <1>1, <1>2 DEF MountQuery, Refetch

\* A page is left for another.
LEMMA VisitStep ==
  ASSUME TabsInv, NEW t \in Tabs, NEW k \in Keys, Visit(t, k), writes' = writes,
         writes \in Nat
  PROVE  TabsInv'
<1> DEFINE e == cache[t][k]
           h == ui[t]
           g == IF h.step = "none" THEN NoHandler
                ELSE [h EXCEPT !.dialog = "none", !.own = FALSE]
           n == told[t]
<1>1. /\ TabOK(page[t], h, cache[t], told[t], writes) /\ e \in GoodEntry /\ h \in Handler
      /\ cache[t] \in [Keys -> GoodEntry]
  BY DEF TabsInv
<1>2. PICK old \in BOOLEAN : cache' = [cache EXCEPT ![t][k] = MountQuery(e, old)]
  BY DEF Visit, SetEntry
<1> DEFINE f == MountQuery(e, old)
           d == [cache[t] EXCEPT ![k] = f]
<1>3. f \in GoodEntry
  BY <1>1, CarriedFacts
<1>4. /\ cache' = [cache EXCEPT ![t] = d] /\ page' = [page EXCEPT ![t] = k]
      /\ ui' = [ui EXCEPT ![t] = g] /\ told' = [told EXCEPT ![t] = n]
  BY <1>2 DEF Visit, TabsInv
<1> HIDE DEF f
<1>5. d \in [Keys -> GoodEntry] /\ d[k] = f /\ \A j \in Keys \ {k} : d[j] = cache[t][j]
  BY <1>1, <1>3
<1> HIDE DEF d
<1>6. /\ g \in Handler /\ g.dialog = "none" /\ ~g.own /\ g.step = h.step
      /\ h.step # "none" => g.wrote = h.wrote
  <2>1. CASE h.step = "none"
    BY <2>1 DEF NoHandler, Handler, IdleHandler
  <2>2. CASE h.step # "none"
    <3>1. h \in BusyHandler
      BY <1>1, <2>2, BusyFacts
    <3>2. g = [h EXCEPT !.dialog = "none", !.own = FALSE]
      BY <2>2
    <3> HIDE DEF g, h
    <3>3. g \in BusyHandler /\ g.dialog = "none" /\ ~g.own /\ g.step = h.step /\ g.wrote = h.wrote
      BY <3>1, <3>2 DEF BusyHandler
    <3> QED
      BY <3>3 DEF Handler
  <2> QED
    BY <2>1, <2>2
<1>7. ASSUME NEW j \in Keys
      PROVE  UpToDate(k, j, d[j], n[j])
  <2>1. UpToDate(page[t], j, cache[t][j], n[j])
    BY <1>1 DEF TabOK
  <2>2. CASE j = k
    <3>1. UpToDate(k, k, f, n[k])
      BY <1>1, <2>1, <2>2, MountFacts DEF f
    <3> QED
      BY <1>5, <2>2, <3>1
  <2>3. CASE j # k
    BY <1>5, <2>1, <2>3 DEF UpToDate
  <2> QED
    BY <2>2, <2>3
<1> HIDE DEF g
<1>8. TabOK(k, g, d, n, writes)
  BY <1>1, <1>5, <1>6, <1>7 DEF TabOK
<1> HIDE DEF n
<1> HIDE DEF h
<1> QED
  BY <1>4, <1>8, OneTab

\* The links, the way back and the filter.
LEMMA NavigateStep ==
  ASSUME TabsInv, NEW t \in Tabs, writes' = writes, writes \in Nat,
         \/ \E i \in Interviews : ViewInterview(t, i)
         \/ BackToInterviews(t)
         \/ \E f \in Filters : ChangeFilter(t, f)
  PROVE  TabsInv'
<1>1. PICK k \in Keys : Visit(t, k)
  <2>1. \A i \in Interviews : <<"interview", i>> \in Keys
    BY KeyFacts DEF Keys
  <2>2. \A f \in Filters : <<"interviews", f>> \in Keys
    BY DEF Keys, ListKeys
  <2> QED
    BY <2>1, <2>2, PagesAssumption DEF ViewInterview, BackToInterviews, ChangeFilter
<1> QED
  BY <1>1, VisitStep

\* Only the handler of a tab changes.
LEMMA UiOnly ==
  ASSUME TabsInv, NEW t \in Tabs, NEW g, TabOK(page[t], g, cache[t], told[t], writes),
         ui' = [ui EXCEPT ![t] = g],
         page' = page, cache' = cache, told' = told, writes' = writes
  PROVE  TabsInv'
<1> DEFINE p == page[t]
           c == cache[t]
           n == told[t]
<1>1. TabOK(p, g, c, n, writes)
  OBVIOUS
<1>2. /\ page' = [page EXCEPT ![t] = p] /\ cache' = [cache EXCEPT ![t] = c]
      /\ told' = [told EXCEPT ![t] = n]
  BY DEF TabsInv
<1> HIDE DEF p, c, n
<1> QED
  BY <1>1, <1>2, OneTab

\* The dialogs, and a request that fails.
LEMMA DialogStep ==
  ASSUME TabsInv, NEW t \in Tabs, writes' = writes,
         \/ \E act \in Act : OpenDialog(t, act)
         \/ CloseDialog(t) \/ RequestFails(t)
  PROVE  TabsInv'
<1> DEFINE h == ui[t]
<1>1. TabOK(page[t], h, cache[t], told[t], writes) /\ h \in Handler
  BY DEF TabsInv
<1>2. h.dialog \in Act \cup {"none"}
  BY <1>1 DEF Handler, IdleHandler, BusyHandler
<1>3. page' = page /\ cache' = cache /\ told' = told
  BY DEF OpenDialog, CloseDialog, RequestFails
<1>4. ASSUME NEW d \in Act \cup {"none"}, ui' = [ui EXCEPT ![t].dialog = d],
             d # "none" => page[t] \in DetailKeys
      PROVE  TabsInv'
  <2> DEFINE g == [h EXCEPT !.dialog = d]
  <2>1. g \in Handler /\ SameAction(h, g) /\ g.dialog = d /\ g.awaits = h.awaits
    BY <1>1, HandlerFacts
  <2>2. ui' = [ui EXCEPT ![t] = g]
    BY <1>4 DEF TabsInv
  <2> HIDE DEF g, h
  <2>3. ASSUME g.own
        PROVE  Follows(page[t], g, cache[t][page[t]])
    <3>1. h.own /\ Follows(page[t], h, cache[t][page[t]])
      BY <1>1, <2>1, <2>3 DEF TabOK, SameAction
    <3> QED
      BY <2>1, <3>1 DEF Follows, SameAction
  <2>4. TabOK(page[t], g, cache[t], told[t], writes)
    BY <1>1, <1>4, <2>1, <2>3 DEF TabOK, SameAction
  <2> QED
    BY <1>3, <2>2, <2>4, UiOnly
<1>5. CASE \E act \in Act : OpenDialog(t, act)
  BY <1>4, <1>5 DEF OpenDialog
<1>6. CASE CloseDialog(t)
  BY <1>4, <1>6 DEF CloseDialog
<1>7. CASE RequestFails(t)
  <2> DEFINE g == [NoHandler EXCEPT !.dialog = h.dialog]
  <2>1. ui' = [ui EXCEPT ![t] = g]
    BY <1>7 DEF RequestFails
  <2>2. g \in Handler /\ g.dialog = h.dialog /\ g.step = "none" /\ ~g.own
    BY <1>2, NoHandlerFacts
  <2> HIDE DEF g, h
  <2>3. TabOK(page[t], g, cache[t], told[t], writes)
    BY <1>1, <2>2 DEF TabOK
  <2> QED
    BY <1>3, <2>1, <2>3, UiOnly
<1> QED
  BY <1>5, <1>6, <1>7

\* "Yes" on a page that shows an interview.
LEMMA ConfirmStep ==
  ASSUME TabsInv, NEW t \in Tabs, Confirm(t), writes' = writes, writes \in Nat
  PROVE  TabsInv'
<1> DEFINE h == ui[t]
           p == page[t]
           e == cache[t][p]
           g == [dialog |-> h.dialog, step |-> "request", own |-> TRUE,
                 awaits |-> {}, act |-> h.dialog, id |-> p[2], wrote |-> 0]
<1>1. TabOK(p, h, cache[t], told[t], writes) /\ h \in Handler
  BY DEF TabsInv
<1>2. /\ h.dialog # "none" /\ ui' = [ui EXCEPT ![t] = g]
      /\ page' = page /\ cache' = cache /\ told' = told
      /\ DetailView(e) \in Status
  BY DEF Confirm
<1>3. h.dialog \in Act
  BY <1>1, <1>2 DEF Handler, IdleHandler, BusyHandler
<1>4. p \in DetailKeys /\ p[2] \in Interviews /\ p = <<"interview", p[2]>>
  BY <1>1, <1>2, KeyFacts DEF TabOK
<1>5. e.data # Undefined
  BY <1>2 DEF DetailView, Status
<1> HIDE DEF h, p, e
<1>6. /\ g \in Handler /\ g.dialog = h.dialog /\ g.step = "request" /\ g.id = p[2]
      /\ g.wrote = 0
  BY <1>3, <1>4, InterviewsAssumption DEF Handler, BusyHandler
<1> HIDE DEF g
<1>7. Follows(p, g, e)
  BY <1>4, <1>5, <1>6 DEF Follows
<1>8. TabOK(p, g, cache[t], told[t], writes)
  BY <1>1, <1>4, <1>6, <1>7 DEF TabOK, e
<1> QED
  BY <1>2, <1>8, UiOnly DEF p

\* The handler refreshes the page that started it: a fetch from after the
\* write is asked for (RefreshDetail), and waited for (RefreshList).
LEMMA AwaitStep ==
  ASSUME TabsInv, NEW t \in Tabs, RefreshDetail(t) \/ RefreshList(t), writes' = writes,
         writes \in Nat
  PROVE  TabsInv'
<1> DEFINE h == ui[t]
           p == page[t]
           prefix == IF h.step = "served" THEN <<"interview", h.id>> ELSE <<"interviews">>
           to == IF h.step = "served" THEN "detail" ELSE "list"
           hit == {k \in Keys : Matches(k, prefix)}
           c == cache[t]
           d == After(p, c, hit)
           n == ToldOf(p, c, told[t], hit, h.wrote)
           aw == {k \in Keys : k = p /\ Matches(k, prefix) /\ Fetching(d[k])}
           g == [h EXCEPT !.step = to, !.awaits = aw]
<1>1. TabOK(p, h, c, told[t], writes) /\ h \in Handler /\ p \in Keys
      /\ c \in [Keys -> GoodEntry]
  BY DEF TabsInv
<1>2. /\ h.step \in {"served", "detail"} /\ (h.step = "detail" => h.awaits = {})
      /\ Await(t, prefix, to)
  BY DEF RefreshDetail, RefreshList
<1>3. /\ cache' = [cache EXCEPT ![t] = d] /\ page' = page /\ told' = [told EXCEPT ![t] = n]
      /\ ui' = [ui EXCEPT ![t] = g]
  <2>1. Invalidate(t, {prefix}) = d
    <3> HIDE DEF prefix
    <3> QED
      BY DEF Invalidate, After
  <2>2. Tell(t, hit, h.wrote) => told' = [told EXCEPT ![t] = n]
    BY DEF Tell, ToldOf, TabsInv
  <2> HIDE DEF d, n, to, prefix
  <2> QED
    BY <1>2, <2>1, <2>2 DEF Await, TabsInv
<1>4. /\ h \in BusyHandler /\ to \in {"detail", "list"} /\ aw \in SUBSET Keys
      /\ h.wrote \in Nat /\ h.wrote <= writes
  BY <1>1, <1>2, BusyFacts DEF TabOK
<1>5. TabOK(p, h, d, n, writes) /\ \A k \in Keys : Carried(c[k], d[k])
  <2> HIDE DEF hit
  <2> QED
    BY <1>1, <1>4, ToldTab
<1>6. ASSUME h.own, h.step = "served"
      PROVE  d[p].flight = "asked" /\ p \in aw
  <2>1. p = <<"interview", h.id>> /\ c[p].data # Undefined /\ prefix = p
    BY <1>1, <1>6 DEF TabOK, Follows
  <2>2. Matches(p, prefix)
    BY <1>4, <2>1, KeyFacts DEF BusyHandler
  <2>3. d[p] = InvalidateQuery(c[p], TRUE)
    BY <1>1, <2>2 DEF After
  <2>4. d[p].flight = "asked"
    BY <1>1, <2>1, <2>3, CarriedFacts
  <2> QED
    BY <1>1, <2>2, <2>4 DEF Fetching
<1> HIDE DEF d, n, aw, to, prefix
<1>7. /\ g \in BusyHandler /\ g.step = to /\ g.awaits = aw /\ g.own = h.own /\ g.id = h.id
      /\ g.wrote = h.wrote /\ g.dialog = h.dialog
  BY <1>4 DEF BusyHandler
<1> HIDE DEF g
<1>8. ASSUME g.own
      PROVE  Follows(p, g, d[p])
  <2>1. h.own /\ Follows(p, h, d[p])
    BY <1>5, <1>7, <1>8 DEF TabOK
  <2>2. CASE h.step = "served"
    BY <1>4, <1>7, <1>6, <2>1, <2>2 DEF Follows
  <2>3. CASE h.step = "detail"
    BY <1>2, <1>4, <1>7, <2>1, <2>3 DEF Follows
  <2> QED
    BY <1>2, <2>2, <2>3
<1>9. TabOK(p, g, d, n, writes)
  BY <1>2, <1>4, <1>5, <1>7, <1>8 DEF TabOK, Handler
<1>10. page' = [page EXCEPT ![t] = p]
  BY <1>3 DEF TabsInv
<1> HIDE DEF p, h
<1> QED
  BY <1>3, <1>9, <1>10, OneTab

\* The handler ends.
LEMMA HandlerEndsStep ==
  ASSUME TabsInv, NEW t \in Tabs, HandlerEnds(t), writes' = writes
  PROVE  TabsInv'
<1> DEFINE h == ui[t]
           dl == IF h.own /\ h.dialog = h.act THEN "none" ELSE h.dialog
           g == [NoHandler EXCEPT !.dialog = dl]
<1>1. TabOK(page[t], h, cache[t], told[t], writes) /\ h \in Handler
  BY DEF TabsInv
<1>2. /\ h.step = "list" /\ ui' = [ui EXCEPT ![t] = g]
      /\ told' = told /\ page' = page /\ cache' = cache
  BY DEF HandlerEnds
<1>3. h.dialog \in Act \cup {"none"}
  BY <1>1, <1>2, BusyFacts DEF BusyHandler
<1>4. dl \in Act \cup {"none"} /\ (dl # "none" => h.dialog # "none")
  BY <1>3
<1> HIDE DEF dl
<1>5. g \in Handler /\ g.dialog = dl /\ g.step = "none" /\ ~g.own
  BY <1>4, NoHandlerFacts
<1> HIDE DEF g, h
<1>6. TabOK(page[t], g, cache[t], told[t], writes)
  BY <1>1, <1>4, <1>5 DEF TabOK
<1> QED
  BY <1>2, <1>6, UiOnly

\* Writes to the table that the tabs do not make.
LEMMA OtherWrites ==
  ASSUME TabsInv, writes \in Nat, writes' \in Nat, writes <= writes', UNCHANGED tabVars
  PROVE  TabsInv'
<1>1. page' = page /\ ui' = ui /\ cache' = cache /\ told' = told
  BY DEF tabVars
<1>2. \A t \in Tabs : TabOK(page[t], ui[t], cache[t], told[t], writes')
  BY TabDateGrows DEF TabsInv
<1> QED
  BY <1>1, <1>2 DEF TabsInv

\* The request of a handler is served.
LEMMA ServedStep ==
  ASSUME TabsInv, BackendInv, UnsentInv, NEW t \in Tabs, Served(t)
  PROVE  BackendInv' /\ UnsentInv' /\ writes' = writes + 1 /\ TabsInv'
<1> DEFINE h == ui[t]
           p == page[t]
           g == [h EXCEPT !.step = "served", !.wrote = writes']
<1>1. TabOK(p, h, cache[t], told[t], writes) /\ h \in Handler /\ h.step = "request"
  BY DEF TabsInv, Served
<1>2. h \in BusyHandler /\ h.act \in Act /\ h.id \in Interviews
  BY <1>1, BusyFacts
<1>3. NewStatus[h.act] \in Status
  BY <1>2 DEF NewStatus, Status, Act
<1>4. /\ SetStatus(h.id, NewStatus[h.act]) /\ msg' = msg /\ work' = work
      /\ page' = page /\ cache' = cache /\ told' = told
      /\ ui' = [ui EXCEPT ![t].step = "served", ![t].wrote = writes']
  BY DEF Served
<1>5. BackendInv' /\ UnsentInv' /\ writes' = writes + 1
  BY <1>2, <1>3, <1>4, AnnounceInv DEF SetStatus
<1>6. writes \in Nat /\ writes' \in Nat /\ writes' \in 0 .. MaxWrites /\ writes <= writes'
  BY <1>5, InterviewsAssumption DEF BackendInv
<1>7. ui' = [ui EXCEPT ![t] = g]
  BY <1>4 DEF TabsInv
<1> HIDE DEF h
<1>8. /\ g \in BusyHandler /\ g.step = "served" /\ g.wrote = writes' /\ g.own = h.own
      /\ g.id = h.id /\ g.dialog = h.dialog
  BY <1>2, <1>6 DEF BusyHandler
<1> HIDE DEF g
<1>9. TabOK(p, h, cache[t], told[t], writes')
  BY <1>1, <1>6, TabDateGrows
<1>10. TabOK(p, g, cache[t], told[t], writes')
  <2>1. ASSUME g.own
        PROVE  Follows(p, g, cache[t][p])
    BY <1>8, <1>9, <2>1 DEF TabOK, Follows
  <2>2. g.wrote <= writes' /\ g \in Handler
    BY <1>6, <1>8 DEF Handler
  <2> QED
    BY <1>8, <1>9, <2>1, <2>2 DEF TabOK
<1>11. ASSUME NEW u \in Tabs
       PROVE  TabOK(page'[u], ui'[u], cache'[u], told'[u], writes')
  <2>1. CASE u = t
    <3>1. ui'[u] = g
      BY <1>7, <2>1 DEF TabsInv
    <3> QED
      BY <1>4, <1>10, <2>1, <3>1
  <2>2. CASE u # t
    <3>1. ui'[u] = ui[u]
      BY <1>7, <2>2 DEF TabsInv
    <3>2. TabOK(page[u], ui[u], cache[u], told[u], writes')
      BY <1>6, TabDateGrows DEF TabsInv
    <3> QED
      BY <1>4, <3>1, <3>2
  <2> QED
    BY <2>1, <2>2
<1>12. ui' \in [Tabs -> Handler]
  BY <1>7, <1>8 DEF TabsInv, Handler
<1> QED
  BY <1>4, <1>5, <1>11, <1>12 DEF TabsInv

\* An event: the pages that it concerns ask anew.
LEMMA DeliverStep ==
  ASSUME TabsInv, ChanInv, writes \in Nat, NEW t \in Tabs, NEW s \in Sources,
         Deliver(t, s), writes' = writes
  PROVE  TabsInv' /\ ChanInv' /\ hook' = hook
<1> DEFINE event == Head(chan[t][s])
           p == page[t]
           h == ui[t]
           c == cache[t]
           hit == {k \in Keys : \E q \in InvalidatedBy(event) : Matches(k, q)}
           ks == Concerned(event)
           m == event.at
           d == After(p, c, hit)
           n == ToldOf(p, c, told[t], ks, m)
<1>1. /\ chan[t][s] # <<>> /\ chan' = [chan EXCEPT ![t][s] = Tail(@)]
      /\ hook' = hook /\ page' = page /\ ui' = ui
      /\ cache' = [cache EXCEPT ![t] = Invalidate(t, InvalidatedBy(event))]
      /\ Tell(t, ks, m)
  BY DEF Deliver
<1>2. chan[t][s] \in Channel(writes)
  BY DEF ChanInv
<1>3. Tail(chan[t][s]) \in Channel(writes) /\ event \in EventsTill(writes)
  BY <1>1, <1>2, ChannelOps
<1>4. ChanInv'
  BY <1>1, <1>3 DEF ChanInv
<1>5. TabOK(p, h, c, told[t], writes)
  BY DEF TabsInv
<1>6. /\ event.id \in Interviews /\ m \in Nat /\ m <= writes
      /\ event.type \in {"interview_created", "interview_updated"}
  BY <1>3 DEF EventsTill
<1> HIDE DEF event
<1>7. cache' = [cache EXCEPT ![t] = d] /\ told' = [told EXCEPT ![t] = n]
  <2>1. Invalidate(t, InvalidatedBy(event)) = d
    BY DEF Invalidate, After
  <2> HIDE DEF ks, m
  <2>2. Tell(t, ks, m) => told' = [told EXCEPT ![t] = n]
    BY DEF Tell, ToldOf, TabsInv
  <2> HIDE DEF d, n
  <2> QED
    BY <1>1, <2>1, <2>2
<1>8. ASSUME NEW k \in Keys, k \in ks
      PROVE  k \in hit
  <2>1. <<"interviews">> \in InvalidatedBy(event)
    BY <1>6 DEF InvalidatedBy
  <2>2. CASE k \in ListKeys
    BY <2>1, <2>2, KeyFacts
  <2>3. CASE event.type = "interview_updated" /\ k = <<"interview", event.id>>
    <3>1. <<"interview", event.id>> \in InvalidatedBy(event)
      BY <2>3 DEF InvalidatedBy
    <3> QED
      BY <1>6, <2>3, <3>1, KeyFacts
  <2> QED
    BY <1>8, <2>2, <2>3 DEF Concerned
<1> HIDE DEF hit, ks, m
<1>9. TabOK(p, h, d, n, writes)
  BY <1>5, <1>6, <1>8, ToldTab
<1>10. page' = [page EXCEPT ![t] = p] /\ ui' = [ui EXCEPT ![t] = h]
  BY <1>1 DEF TabsInv
<1> HIDE DEF p, h, c, d, n
<1>11. TabsInv'
  BY <1>7, <1>9, <1>10, OneTab
<1> QED
  BY <1>1, <1>4, <1>11

-----------------------------------------------------------------------------
(* The inductive invariant of the whole *)

InterviewInv == HookInv /\ BackendInv /\ UnsentInv /\ ChanInv /\ TabsInv

\* The pages start with the list, which is being fetched.
LEMMA InterviewInit ==
  Init => InterviewInv
<1> SUFFICES ASSUME Init
             PROVE  InterviewInv
  OBVIOUS
<1>1. HookInv
  <2> DEFINE h == [mounted |-> FALSE, ref |-> NoSource,
                   src |-> [s \in Sources |-> "CLOSED"], retry |-> FALSE]
  <2>1. hook = [t \in Tabs |-> h]
    BY DEF Init, StreamInit
  <2>2. h \in Hook /\ Held(h)
    BY DEF Hook, Held, Live, ReadyState
  <2> HIDE DEF h
  <2> QED
    BY <2>1, <2>2 DEF HookInv
<1>2. BackendInv
  <2>1. /\ rows \in [Interviews -> {"absent"} \cup Existing] /\ writes = 0 /\ work = Idle
        /\ msg = [i \in Interviews |->
             [at |-> IF rows[i] = "pending" THEN "queued" ELSE "none", left |-> MaxAttempts]]
    BY DEF Init, BackendInit
  <2>2. \A i \in Interviews : /\ msg[i] \in Message /\ HasAttempt(msg[i])
                              /\ rows[i] = "absent" => msg[i].at = "none"
    BY <2>1, InterviewsAssumption DEF Message, HasAttempt
  <2>3. msg \in [Interviews -> Message]
    BY <2>1, <2>2
  <2>4. rows \in [Interviews -> Status \cup {"absent"}]
    BY <2>1, InterviewsAssumption
  <2> QED
    BY <2>1, <2>2, <2>3, <2>4, InterviewsAssumption DEF BackendInv, Work
<1>3. ChanInv /\ UnsentInv
  <2>1. <<>> \in Channel(writes)
    BY ChannelAssumption DEF Channel
  <2> QED
    BY <2>1 DEF Init, StreamInit, ChanInv, BackendInit, UnsentInv
<1>4. TabsInv
  <2> DEFINE p == <<"interviews", "all">>
             c == [k \in Keys |-> IF k = p THEN MountQuery(NewEntry, TRUE) ELSE NewEntry]
             n == [k \in Keys |-> 0]
  <2>1. p \in Keys /\ p \in ListKeys
    BY PagesAssumption DEF Keys, ListKeys
  <2>2. NewEntry \in GoodEntry
    BY DEF NewEntry, GoodEntry, Entry
  <2>3. MountQuery(NewEntry, TRUE) \in GoodEntry
    BY <2>2, CarriedFacts
  <2>4. c \in [Keys -> GoodEntry]
    BY <2>2, <2>3
  <2>5. ASSUME NEW k \in Keys
        PROVE  UpToDate(p, k, c[k], n[k])
    <3>1. MountQuery(NewEntry, TRUE) = StartFetch(NewEntry)
      BY DEF MountQuery, Refetch, Fetching, NewEntry
    <3>2. StartFetch(NewEntry).flight = "asked"
      BY <2>2, StartFetchFacts
    <3>3. c[k].flight = "asked" \/ (c[k].flight = "idle" /\ c[k].data = Undefined)
      BY <3>1, <3>2 DEF NewEntry
    <3> HIDE DEF p, c, n
    <3> QED
      BY <3>3 DEF UpToDate
  <2>6. NoHandler \in Handler /\ NoHandler.step = "none" /\ ~NoHandler.own
        /\ NoHandler.dialog = "none"
    BY DEF NoHandler, Handler, IdleHandler
  <2>7. /\ page = [t \in Tabs |-> p] /\ ui = [t \in Tabs |-> NoHandler]
        /\ told = [t \in Tabs |-> n] /\ writes = 0
    BY DEF Init, BackendInit
  <2>8. cache = [t \in Tabs |-> c]
    <3> HIDE DEF p
    <3>1. cache = [t \in Tabs |-> [k \in Keys |->
            IF k = page[t] THEN MountQuery(NewEntry, TRUE) ELSE NewEntry]]
      BY DEF Init
    <3> QED
      BY <2>7, <3>1
  <2>a. n \in [Keys -> Nat] /\ \A k \in Keys : n[k] <= 0
    OBVIOUS
  <2> HIDE DEF p, c, n
  <2>9. TabOK(p, NoHandler, c, n, 0)
    BY <2>1, <2>4, <2>5, <2>6, <2>a DEF TabOK
  <2> QED
    BY <2>1, <2>4, <2>6, <2>7, <2>8, <2>9, <2>a DEF TabsInv
<1> QED
  BY <1>1, <1>2, <1>3, <1>4 DEF InterviewInv

\* Every step of a tab by itself.
LEMMA TabStepInv ==
  ASSUME InterviewInv, NEW t \in Tabs, TabStep(t), UNCHANGED <<streamVars, backendVars>>
  PROVE  InterviewInv'
<1>1. /\ hook' = hook /\ chan' = chan /\ rows' = rows /\ writes' = writes /\ msg' = msg
      /\ work' = work /\ unsent' = unsent
  BY DEF streamVars, backendVars
<1>2. HookInv /\ BackendInv /\ UnsentInv /\ ChanInv /\ TabsInv /\ writes \in Nat
  BY InterviewsAssumption DEF InterviewInv, BackendInv
<1>3. TabsInv'
  BY <1>1, <1>2, OnServerStep, SettleStep, RefetchStep, NavigateStep, DialogStep, ConfirmStep,
     AwaitStep, HandlerEndsStep, ActsAssumption DEF TabStep
<1>4. HookInv' /\ BackendInv' /\ UnsentInv' /\ ChanInv'
  BY <1>1, <1>2 DEF HookInv, BackendInv, UnsentInv, ChanInv
<1> QED
  BY <1>3, <1>4 DEF InterviewInv

\* One step per disjunct of the next-state relation.
LEMMA InterviewStep ==
  InterviewInv /\ [Next]_vars => InterviewInv'
<1> SUFFICES ASSUME InterviewInv, [Next]_vars
             PROVE  InterviewInv'
  OBVIOUS
<1>0. HookInv /\ BackendInv /\ UnsentInv /\ ChanInv /\ TabsInv /\ writes \in Nat
  BY InterviewsAssumption DEF InterviewInv, BackendInv
<1>b. BackendInv' => writes' \in Nat
  BY InterviewsAssumption DEF BackendInv
<1>c. ASSUME hook' = hook, chan' = chan, writes' \in Nat, writes <= writes'
      PROVE  HookInv' /\ ChanInv'
  BY <1>0, <1>c, ChannelGrows DEF HookInv, ChanInv
<1>1. ASSUME NEW t \in Tabs, TabStep(t), UNCHANGED <<streamVars, backendVars>>
      PROVE  InterviewInv'
  BY <1>1, TabStepInv
<1>2. ASSUME NEW t \in Tabs, Served(t)
      PROVE  InterviewInv'
  <2>1. BackendInv' /\ UnsentInv' /\ writes' = writes + 1 /\ TabsInv'
    BY <1>0, <1>2, ServedStep
  <2>2. hook' = hook /\ chan' = chan
    BY <1>2 DEF Served, streamVars
  <2> QED
    BY <1>0, <1>b, <1>c, <2>1, <2>2 DEF InterviewInv
<1>3. ASSUME NEW t \in Tabs, NEW s \in Sources, Deliver(t, s), UNCHANGED backendVars
      PROVE  InterviewInv'
  <2>1. rows' = rows /\ writes' = writes /\ unsent' = unsent /\ msg' = msg /\ work' = work
    BY <1>3 DEF backendVars
  <2>2. TabsInv' /\ ChanInv' /\ hook' = hook
    BY <1>0, <1>3, <2>1, DeliverStep
  <2>3. BackendInv' /\ UnsentInv' /\ HookInv'
    BY <1>0, <2>1, <2>2 DEF BackendInv, UnsentInv, HookInv
  <2> QED
    BY <2>2, <2>3 DEF InterviewInv
<1>4. ASSUME NEW t \in Tabs, StreamStep(t), UNCHANGED <<backendVars, tabVars>>
      PROVE  InterviewInv'
  <2>1. /\ rows' = rows /\ writes' = writes /\ unsent' = unsent /\ msg' = msg /\ work' = work
        /\ UNCHANGED tabVars
    BY <1>4 DEF backendVars
  <2>2. HookInv' /\ ChanInv'
    BY <1>0, <1>4, <2>1, HookStep, StreamChan
  <2>3. BackendInv' /\ UnsentInv'
    BY <1>0, <2>1 DEF BackendInv, UnsentInv
  <2>4. TabsInv'
    BY <1>0, <2>1, OtherWrites
  <2> QED
    BY <2>2, <2>3, <2>4 DEF InterviewInv
<1>5. ASSUME NEW i \in Interviews, CreateInterview(i) \/ UpdateInterview(i), UNCHANGED tabVars
      PROVE  InterviewInv'
  <2>1. PICK status \in Status, type \in {"interview_created", "interview_updated"} :
          /\ WriteRow(i, status) /\ Announce(type, i)
          /\ type = "interview_created" => rows[i] = "absent"
    <3>1. CASE CreateInterview(i)
      BY <3>1 DEF CreateInterview, Status
    <3>2. CASE UpdateInterview(i)
      <4>1. rows[i] \in Status
        BY <1>0, <3>2 DEF BackendInv, UpdateInterview
      <4> QED
        BY <3>2, <4>1 DEF UpdateInterview, SetStatus
    <3> QED
      BY <1>5, <3>1, <3>2
  <2>2. hook' = hook /\ chan' = chan /\ msg' = msg /\ work' = work
    BY <1>5 DEF CreateInterview, UpdateInterview, streamVars
  <2>3. BackendInv' /\ UnsentInv' /\ writes' = writes + 1
    BY <1>0, <2>1, <2>2, AnnounceInv
  <2>4. TabsInv'
    BY <1>0, <1>b, <1>5, <2>3, OtherWrites
  <2> QED
    BY <1>0, <1>b, <1>c, <2>2, <2>3, <2>4 DEF InterviewInv
<1>6. ASSUME NEW event \in unsent, Broadcasts(event), UNCHANGED tabVars
      PROVE  InterviewInv'
  <2>1. BackendInv' /\ UnsentInv' /\ ChanInv' /\ writes' = writes
    BY <1>0, <1>6, BroadcastsInv
  <2>2. TabsInv'
    BY <1>0, <1>6, <2>1, OtherWrites
  <2>3. HookInv'
    BY <1>0, <1>6 DEF Broadcasts, HookInv
  <2> QED
    BY <2>1, <2>2, <2>3 DEF InterviewInv
<1>7. ASSUME WorkerStep, UNCHANGED tabVars
      PROVE  InterviewInv'
  <2>1. BackendInv' /\ (writes' = writes \/ writes' = writes + 1) /\ Onward
    BY <1>0, <1>7, WorkerStepInv
  <2>2. hook' = hook /\ chan' = chan
    BY <1>7 DEF WorkerStep, streamVars
  <2>3. unsent' = unsent
    BY <1>7 DEF WorkerStep, ReadsInterview, SetsScheduled, Finishes, WorkerStops,
       GetNextMessage, LeaseExpires
  <2>4. writes' \in Nat /\ writes <= writes'
    BY <1>0, <1>b, <2>1
  <2>5. TabsInv'
    BY <1>0, <1>7, <2>4, OtherWrites
  <2>6. UnsentInv'
    BY <1>0, <2>1, <2>3, <2>4, UnsentKept
  <2> QED
    BY <1>c, <2>1, <2>2, <2>4, <2>5, <2>6 DEF InterviewInv
<1>8. CASE UNCHANGED vars
  <2>1. /\ hook' = hook /\ chan' = chan /\ rows' = rows /\ writes' = writes /\ msg' = msg
        /\ work' = work /\ page' = page /\ ui' = ui /\ cache' = cache /\ told' = told
        /\ unsent' = unsent
    BY <1>8 DEF vars, streamVars, backendVars, tabVars
  <2> QED
    BY <1>0, <2>1 DEF InterviewInv, HookInv, BackendInv, UnsentInv, ChanInv, TabsInv
<1> QED
  BY <1>1, <1>2, <1>3, <1>4, <1>5, <1>6, <1>7, <1>8 DEF Next

\* So it always holds.
LEMMA InterviewAlways ==
  Spec => []InterviewInv
  BY InterviewInit, InterviewStep, PTL DEF Spec

\* A tab never has a connection that its hook has lost hold of, however often
\* the page is mounted and left and the server refuses (useSSE.ts).
THEOREM ConnectionsHeld ==
  Spec => []NoStrayConnection
<1>1. InterviewInv => NoStrayConnection
  BY DEF InterviewInv, HookInv, Held, NoStrayConnection
<1> QED
  BY <1>1, InterviewAlways, PTL

\* For any number of tabs, interviews and filters, whatever is lost or late: what
\* the cache of a tab holds has the updates that the tab was told of, is being
\* fetched, is marked for the next visit or failed, unless the update was
\* overtaken by an older answer that the library does not cancel.
THEOREM UpdatesFetched ==
  Spec => []AnnouncedIsFetched
<1>1. ASSUME InterviewInv, NEW t \in Tabs, NEW k \in Keys
      PROVE  LET e == cache[t][k]
                 n == told[t][k] IN
               e.data # Undefined /\ e.data.val # Null /\ e.data.at < n =>
                 \/ e.flight = "asked"
                 \/ e.flight = "answered" /\ e.got.at >= n
                 \/ e.error
                 \/ k # page[t] /\ e.inval
  <2> DEFINE e == cache[t][k]
             n == told[t][k]
  <2>1. e \in GoodEntry /\ UpToDate(page[t], k, e, n) /\ n \in Nat
    BY <1>1 DEF InterviewInv, TabsInv, TabOK
  <2>2. e.flight \in {"idle", "asked", "answered"} /\ (e.data # Undefined => e.data \in Answer)
    BY <2>1 DEF GoodEntry, Entry
  <2>3. e.data # Undefined => e.data.at \in Nat
    BY <2>2, InterviewsAssumption DEF Answer
  <2> HIDE DEF e, n
  <2>4. e.data # Undefined /\ e.data.val # Null /\ e.data.at < n =>
          \/ e.flight = "asked"
          \/ e.flight = "answered" /\ e.got.at >= n
          \/ e.error
          \/ k # page[t] /\ e.inval
    BY <2>1, <2>2, <2>3 DEF UpToDate
  <2> QED
    BY <2>4 DEF e, n
<1>2. InterviewInv => AnnouncedIsFetched
  BY <1>1 DEF AnnouncedIsFetched
<1> QED
  BY <1>2, InterviewAlways, PTL

\* Types: of the hooks and channels, the table and its messages, the pages,
\* their handlers and their cache.
THEOREM PagesTyped ==
  Spec => []TypeOK
<1> SUFFICES ASSUME InterviewInv
             PROVE  TypeOK
  BY InterviewAlways, PTL
<1>0. HookInv /\ BackendInv /\ UnsentInv /\ ChanInv /\ TabsInv
  BY DEF InterviewInv
<1>1. writes \in 0 .. MaxWrites /\ writes \in Nat /\ MaxWrites \in Nat
  BY <1>0, InterviewsAssumption DEF BackendInv
<1>a. EventsTill(MaxWrites) = Event
  BY DEF EventsTill, Event
<1>2. StreamTypeOK(Event)
  <2>1. ASSUME NEW t \in Tabs, NEW s \in Sources
        PROVE  Len(chan[t][s]) <= ChannelCap /\ \A i \in DOMAIN chan[t][s] : chan[t][s][i] \in Event
    <3>1. chan[t][s] \in Channel(writes)
      BY <1>0 DEF ChanInv
    <3>2. Channel(writes) \subseteq Channel(MaxWrites)
      BY <1>1, ChannelGrows
    <3>3. chan[t][s] \in Seq(Event) /\ Len(chan[t][s]) <= ChannelCap
      BY <1>a, <3>1, <3>2 DEF Channel
    <3> QED
      BY <3>3
  <2> QED
    BY <1>0, <2>1 DEF StreamTypeOK, HookInv, Hook
<1>3. BackendTypeOK
  <2>1. unsent \subseteq Event
    BY <1>0, <1>1, <1>a, EventsGrow DEF UnsentInv
  <2> QED
    BY <1>0, <2>1 DEF BackendInv, BackendTypeOK, Message, Work
<1>4. page \in [Tabs -> Keys] /\ cache \in [Tabs -> [Keys -> Entry]]
  <2>1. GoodEntry \subseteq Entry
    BY DEF GoodEntry
  <2> QED
    BY <1>0, <2>1 DEF TabsInv
<1>5. told \in [Tabs -> [Keys -> 0 .. MaxWrites]]
  <2>1. ASSUME NEW t \in Tabs, NEW k \in Keys
        PROVE  told[t][k] \in 0 .. MaxWrites
    <3> DEFINE n == told[t][k]
    <3>1. n \in Nat /\ n <= writes /\ writes <= MaxWrites
      BY <1>0, <1>1 DEF TabsInv, TabOK
    <3> HIDE DEF n
    <3>2. n \in 0 .. MaxWrites
      BY <1>1, <3>1
    <3> QED
      BY <3>2 DEF n
  <2>2. ASSUME NEW t \in Tabs
        PROVE  told[t] \in [Keys -> 0 .. MaxWrites]
    BY <1>0, <2>1 DEF TabsInv
  <2> QED
    BY <1>0, <2>2 DEF TabsInv
<1>6. ASSUME NEW t \in Tabs
      PROVE  /\ ui[t].dialog \in Act \cup {"none"} /\ ui[t].own \in BOOLEAN
             /\ ui[t].awaits \subseteq Keys
             /\ ui[t].step \in {"none", "request", "served", "detail", "list"}
             /\ ui[t].step # "none" => ui[t].act \in Act /\ ui[t].id \in Interviews
  <2> DEFINE h == ui[t]
  <2>1. h \in Handler
    BY <1>0 DEF TabsInv
  <2> HIDE DEF h
  <2>2. CASE h \in IdleHandler
    BY <2>2 DEF IdleHandler, h
  <2>3. CASE h \in BusyHandler
    BY <2>3 DEF BusyHandler, h
  <2> QED
    BY <2>1, <2>2, <2>3 DEF Handler
<1> QED
  BY <1>2, <1>3, <1>4, <1>5, <1>6 DEF TypeOK, Entry

\* Only its own end makes a handler that is at its last step none.
LEMMA OnlyEnds ==
  ASSUME InterviewInv, Next, NEW t \in Tabs, ui[t].step = "list", ui'[t].step = "none"
  PROVE  HandlerEnds(t)
<1> DEFINE h == ui[t]
<1>0. ui \in [Tabs -> Handler] /\ h \in Handler /\ h.step = "list"
  BY DEF InterviewInv, TabsInv
<1>1. ui' # ui
  OBVIOUS
<1>2. PICK u \in Tabs : (TabStep(u) /\ UNCHANGED <<streamVars, backendVars>>) \/ Served(u)
  <2>1. /\ \A u \in Tabs, s \in Sources : ~Deliver(u, s)
        /\ ~UNCHANGED tabVars
    BY <1>1 DEF Deliver, tabVars
  <2> QED
    BY <2>1 DEF Next
<1>3. u = t
  <2> SUFFICES ASSUME u # t
               PROVE  ui'[t] = ui[t]
    BY <1>0
  <2>1. CASE Served(u)
    BY <1>0, <2>1 DEF Served
  <2>2. CASE TabStep(u)
    <3>1. ui' = ui \/ \E g : ui' = [ui EXCEPT ![u] = g]
      BY <1>0, <2>2 DEF TabStep, OnServer, Arrives, Fails, Settles, Poll, Focus, RetryList,
         ViewInterview, BackToInterviews, ChangeFilter, Visit, OpenDialog, CloseDialog,
         Confirm, RequestFails, RefreshDetail, RefreshList, Await, HandlerEnds
    <3> QED
      BY <1>0, <3>1
  <2> QED
    BY <1>2, <2>1, <2>2
<1>4. ~Served(t) /\ ~RequestFails(t) /\ ~RefreshDetail(t) /\ ~RefreshList(t) /\ ~Confirm(t)
  BY <1>0 DEF Served, RequestFails, RefreshDetail, RefreshList, Confirm
<1>5. ~Poll(t) /\ ~Focus(t) /\ ~RetryList(t) /\ \A k \in Keys : ~OnServer(t, k)
  BY <1>1 DEF Poll, Focus, RetryList, OnServer
<1>6. \A k \in Keys : ~Arrives(t, k) /\ ~Fails(t, k)
  <2> SUFFICES ASSUME NEW k \in Keys, Arrives(t, k) \/ Fails(t, k)
               PROVE  ui'[t].step = h.step
    BY <1>0
  <2>1. ui' = [ui EXCEPT ![t].awaits = @ \ {k}]
    BY DEF Arrives, Fails, Settles
  <2>2. ui'[t] = [h EXCEPT !.awaits = @ \ {k}]
    BY <1>0, <2>1
  <2> HIDE DEF h
  <2> QED
    BY <1>0, <2>2, HandlerFacts DEF SameAction
<1>7. (\A act \in Act : ~OpenDialog(t, act)) /\ ~CloseDialog(t)
  <2> SUFFICES ASSUME NEW d \in Act \cup {"none"}, ui' = [ui EXCEPT ![t].dialog = d]
               PROVE  ui'[t].step = h.step
    BY <1>0 DEF OpenDialog, CloseDialog
  <2>1. ui'[t] = [h EXCEPT !.dialog = d]
    BY <1>0
  <2> HIDE DEF h
  <2> QED
    BY <1>0, <2>1, HandlerFacts DEF SameAction
<1>8. \A k : ~Visit(t, k)
  <2> SUFFICES ASSUME NEW k, Visit(t, k)
               PROVE  ui'[t].step = h.step
    BY <1>0
  <2>1. ui'[t] = [h EXCEPT !.dialog = "none", !.own = FALSE]
    BY <1>0 DEF Visit
  <2>2. h \in BusyHandler
    BY <1>0, BusyFacts
  <2> HIDE DEF h
  <2> QED
    BY <2>1, <2>2 DEF BusyHandler
<1> QED
  BY <1>2, <1>3, <1>4, <1>5, <1>6, <1>7, <1>8, ActsAssumption
     DEF TabStep, ViewInterview, BackToInterviews, ChangeFilter

\* When the dialog of an action closes, the page that started it shows what
\* the action wrote: the handler awaits a fetch that began after its answer
\* came, and no older answer can take that fetch's place.
THEOREM ActionsShown ==
  Spec => OwnActionShown
<1> DEFINE Step == \A t \in Tabs :
                     ui[t].own /\ ui[t].step = "list" /\ ui'[t].step = "none" =>
                       LET data == cache[t][<<"interview", ui[t].id>>].data IN
                         data.val = Null \/ data.at >= ui[t].wrote
<1>1. ASSUME InterviewInv, Next
      PROVE  Step
  <2> SUFFICES ASSUME NEW t \in Tabs, ui[t].own, ui[t].step = "list", ui'[t].step = "none"
               PROVE  LET data == cache[t][<<"interview", ui[t].id>>].data IN
                        data.val = Null \/ data.at >= ui[t].wrote
    OBVIOUS
  <2>1. ui[t].awaits = {}
    BY <1>1, OnlyEnds DEF HandlerEnds
  <2>2. Follows(page[t], ui[t], cache[t][page[t]])
    BY <1>1 DEF InterviewInv, TabsInv, TabOK
  <2> QED
    BY <2>1, <2>2 DEF Follows
<1>2. InterviewInv /\ [Next]_vars => [Step]_vars
  BY <1>1
<1> QED
  BY <1>2, InterviewAlways, PTL DEF Spec, OwnActionShown

=============================================================================
