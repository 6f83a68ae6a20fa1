------------------------------- MODULE Toasts -------------------------------
(***************************************************************************)
(* The toast store of the dashboard (hooks/use-toast.ts): a module-wide    *)
(* list of toasts, changed by dispatch through a reducer, and the timers   *)
(* that take a dismissed toast out of the list a quarter of an hour later. *)
(* The Toaster component is subscribed for the whole life of a tab and     *)
(* renders the list, so the list is what is shown.  genId's counter wraps  *)
(* at 2^53 and is bounded here by MaxToasts.  update is left out: nothing  *)
(* calls it.                                                               *)
(***************************************************************************)
EXTENDS Naturals, Sequences, SequencesExt

CONSTANTS
  TOAST_LIMIT,  \* 1 in the code
  MaxToasts     \* bound: toasts raised

ASSUME ToastAssumption == TOAST_LIMIT \in Nat \ {0} /\ MaxToasts \in Nat

VARIABLES
  toasts,         \* memoryState.toasts, the newest first
  toastTimeouts,  \* ids of toasts whose timer is pending
  count           \* genId

toastVars == <<toasts, toastTimeouts, count>>

ToastsInit == toasts = <<>> /\ toastTimeouts = {} /\ count = 0

-----------------------------------------------------------------------------
(* The reducer *)

\* Mutant: no limit.
AddToastUnlimited(list, toast) == <<toast>> \o list

AddToast(list, toast) ==
  SubSeq(<<toast>> \o list, 1, IF Len(list) < TOAST_LIMIT THEN Len(list) + 1 ELSE TOAST_LIMIT)

DismissToast(list, id) ==
  [n \in DOMAIN list |-> IF list[n].id = id THEN [list[n] EXCEPT !.open = FALSE] ELSE list[n]]

\* Array.filter: what is left of list without the elements in drop.
Without(list, drop) ==
  LET kept[n \in 0 .. Len(list)] ==
        IF n = 0 THEN <<>>
        ELSE IF list[n] \in drop THEN kept[n - 1] ELSE Append(kept[n - 1], list[n])
  IN  kept[Len(list)]

\* Mutant: the id is not passed on, so that all toasts go.
RemoveToasts(list, id) == <<>>

RemoveToast(list, id) == Without(list, {toast \in ToSet(list) : toast.id = id})

-----------------------------------------------------------------------------
(* toast(): raised by the handlers of the pages *)
Toast(title) ==
  /\ count < MaxToasts
  /\ count' = count + 1
  /\ toasts' = AddToast(toasts, [id |-> count + 1, title |-> title, open |-> TRUE])
  /\ UNCHANGED toastTimeouts

\* Mutant: no timer is set.
DismissOnly(id) ==
  /\ \E n \in DOMAIN toasts : toasts[n].id = id /\ toasts[n].open
  /\ toasts' = DismissToast(toasts, id)
  /\ UNCHANGED <<toastTimeouts, count>>

\* onOpenChange(false): the toast's time is up or its user closes it.
Dismiss(id) ==
  /\ \E n \in DOMAIN toasts : toasts[n].id = id /\ toasts[n].open
  /\ toasts' = DismissToast(toasts, id)
  /\ toastTimeouts' = toastTimeouts \cup {id}
  /\ UNCHANGED count

\* The timer of addToRemoveQueue.
RemoveTimeout(id) ==
  /\ id \in toastTimeouts
  /\ toastTimeouts' = toastTimeouts \ {id}
  /\ toasts' = RemoveToast(toasts, id)
  /\ UNCHANGED count

ToastStep == \E id \in 1 .. MaxToasts : Dismiss(id) \/ RemoveTimeout(id)

-----------------------------------------------------------------------------
ToastsTypeOK(Title) ==
  /\ count \in 0 .. MaxToasts
  /\ toastTimeouts \subseteq 1 .. count
  /\ Len(toasts) <= TOAST_LIMIT
  /\ \A n \in DOMAIN toasts :
       toasts[n] \in [id: 1 .. count, title: Title, open: BOOLEAN]

Open(list) == {list[n] : n \in {m \in DOMAIN list : list[m].open}}

\* An open toast goes only when its own user or time closes it, or when newer
\* ones need its place: the late timer of another toast never takes it away,
\* and a toast that was raised is the first of the list (use-toast.ts, reducer
\* and addToRemoveQueue).
OpenToastStays ==
  [][\A toast \in Open(toasts) :
       \/ toast \in Open(toasts')
       \/ [toast EXCEPT !.open = FALSE] \in ToSet(toasts')
       \/ /\ count' > count /\ Len(toasts') = TOAST_LIMIT
          /\ toasts'[1].id = count' /\ toasts[Len(toasts)] = toast]_toastVars

\* A dismissed toast leaves the list (use-toast.ts, DISMISS_TOAST).
DismissedIsRemoved ==
  \A id \in 1 .. MaxToasts :
    (\E n \in DOMAIN toasts : toasts[n].id = id /\ ~toasts[n].open)
      ~> (\A n \in DOMAIN toasts : toasts[n].id # id)

=============================================================================
