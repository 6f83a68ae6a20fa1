----------------------------- MODULE Interviews -----------------------------
(***************************************************************************)
(* The interview platform's backend, as far as interviews go: the table,   *)
(* the API handlers and the worker that schedules interviews from the      *)
(* Nzovu queue "interview-scheduler".  The worker is a process of its own  *)
(* and does not broadcast.  Calendar invites, evaluation tasks and the     *)
(* evaluation requests that handlers and worker post to other queues are   *)
(* left out: nothing here reads them.                                      *)
(*                                                                         *)
(* writes counts the writes to the table; an event carries its number.     *)
(***************************************************************************)
EXTENDS EventStream

CONSTANTS
  Interviews,    \* interview ids
  Existing,      \* statuses of interviews that exist from the start; only a
                 \* pending one has its scheduling message still
  MaxAttempts,   \* deliveries of a scheduling message (3 in the code)
  MaxWrites      \* bound: writes to the table

VARIABLES
  rows,     \* status of every interview, "absent" before its row exists
  writes,
  unsent,   \* events of writes that the handlers have yet to broadcast
  msg,      \* the scheduling message of every interview
  work      \* the worker: the message it has and how far it is with it

backendVars == <<rows, writes, unsent, msg, work>>

Status == {"pending", "scheduled", "in_progress", "completed", "cancelled"}

ASSUME InterviewsAssumption ==
  Existing \subseteq Status /\ MaxAttempts \in Nat \ {0} /\ MaxWrites \in Nat

Idle == [step |-> "idle"]

BackendInit ==
  /\ rows \in [Interviews -> {"absent"} \cup Existing]
  /\ writes = 0 /\ unsent = {}
  /\ msg = [i \in Interviews |->
       [at |-> IF rows[i] = "pending" THEN "queued" ELSE "none", left |-> MaxAttempts]]
  /\ work = Idle

-----------------------------------------------------------------------------
(* The API *)

WriteRow(i, status) ==
  /\ writes < MaxWrites
  /\ rows' = [rows EXCEPT ![i] = status]
  /\ writes' = writes + 1

\* The handler that has written the row is to broadcast it.
Announce(type, i) == unsent' = unsent \cup {[type |-> type, id |-> i, at |-> writes']}

CreateInterview(i) ==
  /\ rows[i] = "absent"
  /\ WriteRow(i, "pending") /\ Announce("interview_created", i)
  /\ UNCHANGED <<streamVars, msg, work>>

\* CancelInterview, StartInterview and CompleteInterview, up to their write: no
\* look at the old status.
SetStatus(i, status) ==
  WriteRow(i, status) /\ Announce("interview_updated", i)

\* UpdateInterview, called by a client other than the dashboard: the dashboard
\* has no form for it yet.
UpdateInterview(i) ==
  /\ rows[i] # "absent"
  /\ SetStatus(i, rows[i])
  /\ UNCHANGED <<streamVars, msg, work>>

\* The rest of these handlers, in any order among them; one that dies before
\* never gets here.  CreateInterview then posts the scheduling message; a post
\* that fails is only logged.
Broadcasts(event) ==
  /\ event \in unsent
  /\ unsent' = unsent \ {event}
  /\ chan' = Broadcast(chan, event)
  /\ IF event.type = "interview_created"
     THEN \E posted \in {"queued", "none"} : msg' = [msg EXCEPT ![event.id].at = posted]
     ELSE UNCHANGED msg
  /\ UNCHANGED <<hook, rows, writes, work>>

-----------------------------------------------------------------------------
(* InterviewSchedulerWorker.  External: Nzovu delivers a message at most      *)
(* MaxAttempts times, each time under a lease.                                *)

GetNextMessage(i) ==
  /\ work = Idle /\ msg[i].at = "queued"
  /\ msg' = [msg EXCEPT ![i].at = "leased", ![i].left = @ - 1]
  /\ work' = [step |-> "got", on |-> i]
  /\ UNCHANGED <<rows, writes, unsent>>

\* AcknowledgeMessage, refused when the lease is gone; the call may be lost.
Acknowledge(i) ==
  msg' \in {msg, [msg EXCEPT ![i].at = IF @ = "leased" THEN "done" ELSE @]}

\* processMessage reads the interview; one that is scheduled, or cannot be had,
\* ends it.
ReadsInterview ==
  /\ work.step = "got"
  /\ \/ Acknowledge(work.on) /\ work' = Idle
     \/ rows[work.on] # "scheduled" /\ work' = [work EXCEPT !.step = "read"] /\ UNCHANGED msg
  /\ UNCHANGED <<rows, writes, unsent>>

SetsScheduled ==
  /\ work.step = "read"
  /\ WriteRow(work.on, "scheduled")
  /\ work' = [work EXCEPT !.step = "updated"]
  /\ UNCHANGED <<unsent, msg>>

\* After invites and evaluation tasks.
Finishes ==
  /\ work.step = "updated"
  /\ Acknowledge(work.on)
  /\ work' = Idle
  /\ UNCHANGED <<rows, writes, unsent>>

\* The worker process restarts, or an error makes it drop the message.
WorkerStops ==
  /\ work # Idle
  /\ work' = Idle
  /\ UNCHANGED <<rows, writes, unsent, msg>>

\* External: the reclaimer makes the message visible again, or dead.
LeaseExpires(i) ==
  /\ msg[i].at = "leased"
  /\ msg' = [msg EXCEPT ![i].at = IF msg[i].left > 0 THEN "queued" ELSE "dead"]
  /\ UNCHANGED <<rows, writes, unsent, work>>

WorkerStep ==
  /\ \/ ReadsInterview \/ SetsScheduled \/ Finishes \/ WorkerStops
     \/ \E i \in Interviews : GetNextMessage(i) \/ LeaseExpires(i)
  /\ UNCHANGED streamVars

-----------------------------------------------------------------------------
Event == [type: {"interview_created", "interview_updated"}, id: Interviews, at: 1 .. MaxWrites]

BackendTypeOK ==
  /\ rows \in [Interviews -> Status \cup {"absent"}]
  /\ writes \in 0 .. MaxWrites /\ unsent \subseteq Event
  /\ msg \in [Interviews -> [at: {"none", "queued", "leased", "done", "dead"},
                             left: 0 .. MaxAttempts]]
  /\ \/ work = Idle
     \/ work \in [step: {"got", "read", "updated"}, on: Interviews]

=============================================================================
