-------------------------- MODULE MessageLifecycle --------------------------
(***************************************************************************)
(* What the service promises about messages, without queues, clocks,       *)
(* leases, retries or storage: the state diagram of                        *)
(* proto/message/v1/message.proto.  A running message has one owner, the   *)
(* attempt that took it; an attempt takes one message, once.               *)
(***************************************************************************)
EXTENDS Integers

CONSTANTS
  Message,
  Withdrawals   \* TRUE where operators delete queues

VARIABLES
  status,   \* NEW: not posted yet; GONE: no longer stored
  owner,    \* the attempt that holds a RUNNING message, else 0
  issued    \* number of attempts handed out

vars == <<status, owner, issued>>

Ended == {"COMPLETED", "CANCELED", "ERRORED"}

Init ==
  /\ status = [m \in Message |-> "NEW"]
  /\ owner = [m \in Message |-> 0]
  /\ issued = 0

\* One message, or all the messages of a bulk request.
Post(S) ==
  /\ \A m \in S : status[m] = "NEW"
  /\ \E initial \in [S -> {"INVISIBLE", "PENDING"}] :
       status' = [m \in Message |-> IF m \in S THEN initial[m] ELSE status[m]]
  /\ UNCHANGED <<owner, issued>>

Arrive(m) ==
  /\ status[m] = "INVISIBLE"
  /\ status' = [status EXCEPT ![m] = "PENDING"]
  /\ UNCHANGED <<owner, issued>>

Take(m) ==
  /\ status[m] = "PENDING"
  /\ status' = [status EXCEPT ![m] = "RUNNING"]
  /\ issued' = issued + 1
  /\ owner' = [owner EXCEPT ![m] = issued']

\* A nack or an expired lease with attempts left.
Return(m) ==
  /\ status[m] = "RUNNING"
  /\ status' = [status EXCEPT ![m] = "PENDING"]
  /\ owner' = [owner EXCEPT ![m] = 0]
  /\ UNCHANGED issued

End(m) ==
  /\ status[m] = "RUNNING"
  /\ \E s \in {"COMPLETED", "ERRORED", "GONE"} : status' = [status EXCEPT ![m] = s]
  /\ owner' = [owner EXCEPT ![m] = 0]
  /\ UNCHANGED issued

Cancel(m) ==
  /\ status[m] \in {"INVISIBLE", "PENDING"}
  /\ \E s \in {"CANCELED", "GONE"} : status' = [status EXCEPT ![m] = s]
  /\ UNCHANGED <<owner, issued>>

\* Requeue from a DLQ, the only way back from a terminal state.
Revive(m) ==
  /\ status[m] = "ERRORED"
  /\ status' = [status EXCEPT ![m] = "PENDING"]
  /\ UNCHANGED <<owner, issued>>

\* Retention and purges remove messages that have ended.
Forget(S) ==
  /\ \A m \in S : status[m] \in Ended
  /\ status' = [m \in Message |-> IF m \in S THEN "GONE" ELSE status[m]]
  /\ UNCHANGED <<owner, issued>>

\* The deletion of a queue removes all its messages.
Withdraw(S) ==
  /\ Withdrawals
  /\ \A m \in S : status[m] \notin {"NEW", "GONE"}
  /\ status' = [m \in Message |-> IF m \in S THEN "GONE" ELSE status[m]]
  /\ owner' = [m \in Message |-> IF m \in S THEN 0 ELSE owner[m]]
  /\ UNCHANGED issued

Next ==
  \/ \E S \in SUBSET Message : Post(S) \/ Forget(S) \/ Withdraw(S)
  \/ \E m \in Message : Arrive(m) \/ Take(m) \/ Return(m) \/ End(m) \/ Cancel(m) \/ Revive(m)

Spec == Init /\ [][Next]_vars

=============================================================================
