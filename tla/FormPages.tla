----------------------------- MODULE FormPages ------------------------------
(***************************************************************************)
(* The two forms of the dashboard and the pages that submit them: "new"    *)
(* (schedule-interview-form.tsx, interviews/new/page.tsx) and "evaluate"   *)
(* (submit-evaluation-form.tsx, interviews/[id]/evaluate/page.tsx).  Both  *)
(* keep lists of words twice, as an array in React state, which is sent,   *)
(* and joined as a field of the form, which is validated.                  *)
(*                                                                         *)
(*   page     the page shown; "away" is any other                          *)
(*   entries  the arrays of the lists of the page                          *)
(*   joined   whether the field of a list, the array joined, has text      *)
(*   filled   the other required fields hold valid values                  *)
(*   date     scheduledDate as the clocks show it, in seconds; NoDate       *)
(*            before one is picked                                         *)
(*   step     the submission of the tab and what it sends                  *)
(*   own      isSubmitting: the form shown has started it                  *)
(*   pushed   where router.push is taking the user                         *)
(*   sent     the requests the server has accepted, in order               *)
(* The user's scores always pass (sliders from 0 to 10), and durations are *)
(* picked from a list.  Validation and the first lines of handleSubmit run *)
(* before the browser handles another event, so they are one step.         *)
(***************************************************************************)
EXTENDS Toasts, Integers

CONSTANTS
  Word,                       \* [list name -> what a user may type], trimmed
  Day,                        \* days a user may pick: 0 .. n
  Hours, Minutes, Seconds,    \* of a day, an hour, a minute: 24, 60, 60
  Gaps,                       \* hours that the clocks skip, counted from day 0
  HourInput,                  \* what may be typed as hour, minute or second:
  MinuteInput,                \* inputs of type number do not stop a user from
  SecondInput,                \* typing what is out of range
  Now,                        \* new Date(): today's time when no date is set
  NoDate,
  MaxDate,                    \* bound: dates reached by typing
  MaxSent                     \* bound: accepted requests

ASSUME ClockAssumption ==
  /\ Hours \in Nat \ {0} /\ Minutes \in Nat \ {0} /\ Seconds \in Nat \ {0}
  /\ Day \subseteq Nat /\ Now \in Nat
  /\ HourInput \subseteq Int /\ MinuteInput \subseteq Int /\ SecondInput \subseteq Int

\* Where summer time begins, one full hour is skipped.
ASSUME GapsAssumption ==
  Hours > 1 /\ Gaps \subseteq Nat /\ \A g \in Gaps : g + 1 \notin Gaps

ASSUME SentAssumption == MaxSent \in Nat

VARIABLES page, entries, joined, filled, date, step, own, pushed, sent

formVars == <<page, entries, joined, filled, date, step, own, pushed, sent>>
vars == <<formVars, toastVars>>

Lists == [new |-> {"interviewers", "tags"}, evaluate |-> {"strengths", "weaknesses"},
          away |-> {}]
AllLists == UNION {Lists[p] : p \in DOMAIN Lists}

Title == {"Interview Scheduled", "Evaluation Submitted", "Error"}

NoWords == [l \in AllLists |-> <<>>]
NoText == [l \in AllLists |-> FALSE]
Idle == [at |-> "none"]

BlankForm ==
  /\ entries' = NoWords /\ joined' = NoText
  /\ filled' = FALSE /\ date' = NoDate

Init ==
  /\ ToastsInit
  /\ page = "away" /\ entries = NoWords /\ joined = NoText
  /\ filled = FALSE /\ date = NoDate
  /\ step = Idle /\ own = FALSE /\ pushed = "nowhere" /\ sent = <<>>

-----------------------------------------------------------------------------
(* Navigation: router.push is not instant, and the form stays until it is     *)
(* done.                                                                      *)

OpenForm(p) ==
  /\ page = "away" /\ p # "away" /\ pushed = "nowhere"
  /\ page' = p /\ BlankForm
  /\ UNCHANGED <<step, own, pushed, sent, toastVars>>

\* The Cancel button, or the link back.
LeaveForm ==
  /\ page # "away" /\ pushed = "nowhere"
  /\ pushed' = "away"
  /\ UNCHANGED <<page, entries, joined, filled, date, step, own, sent, toastVars>>

\* The form unmounts; its submission runs on.
Navigates ==
  /\ pushed # "nowhere"
  /\ page' = pushed /\ pushed' = "nowhere" /\ own' = FALSE /\ BlankForm
  /\ UNCHANGED <<step, sent, toastVars>>

-----------------------------------------------------------------------------
(* Editing *)

FillFields ==
  /\ page # "away"
  /\ filled' \in BOOLEAN
  /\ UNCHANGED <<page, entries, joined, date, step, own, pushed, sent, toastVars>>

\* Mutant: the field keeps the text of a list that becomes empty.
SetListOnly(l, words) ==
  /\ entries' = [entries EXCEPT ![l] = words]
  /\ joined' = [joined EXCEPT ![l] = @ \/ words # <<>>]
  /\ UNCHANGED <<page, filled, date, step, own, pushed, sent, toastVars>>

SetList(l, words) ==
  /\ entries' = [entries EXCEPT ![l] = words]
  /\ joined' = [joined EXCEPT ![l] = words # <<>>]
  /\ UNCHANGED <<page, filled, date, step, own, pushed, sent, toastVars>>

\* addInterviewer, addTag, addStrength, addWeakness.
AddWord(l, w) ==
  l \in Lists[page] /\ w \notin ToSet(entries[l]) /\ SetList(l, Append(entries[l], w))

\* removeInterviewer, removeTag, removeStrength, removeWeakness.
RemoveWord(l, w) ==
  /\ l \in Lists[page] /\ w \in ToSet(entries[l])
  /\ SetList(l, Without(entries[l], {w}))

-----------------------------------------------------------------------------
(* The date and time of the interview, in local time.  JavaScript's setHours,  *)
(* setMinutes and setSeconds carry over what is out of range, and a time that  *)
(* the clocks skip becomes the one an hour later.  Which of two equal times is  *)
(* meant when the clocks go back is left out.                                  *)

HourLength == Minutes * Seconds
DayLength == Hours * HourLength

Exists(d) == d \div HourLength \notin Gaps
Local(d) == IF Exists(d) THEN d ELSE d + HourLength

getHours(d) == (d % DayLength) \div HourLength
getMinutes(d) == (d % HourLength) \div Seconds
getSeconds(d) == d % Seconds

setHours(d, h) == Local(d + (h - getHours(d)) * HourLength)
setMinutes(d, m) == Local(d + (m - getMinutes(d)) * Seconds)
setSeconds(d, s) == Local(d + (s - getSeconds(d)))

Current == IF date = NoDate THEN Now ELSE date

\* Mutant: the calendar's date is taken as it is, midnight.
SelectMidnight(day) == day * DayLength

\* onSelect of the calendar: the day picked, at the time there was.
SelectDay(day) ==
  setSeconds(setMinutes(setHours(Local(day * DayLength), getHours(Current)),
                        getMinutes(Current)), getSeconds(Current))

SetDate(d) ==
  /\ page = "new" /\ d \in (0 .. MaxDate) \cup {NoDate}
  /\ date' = d
  /\ UNCHANGED <<page, entries, joined, filled, step, own, pushed, sent, toastVars>>

PickDay(day) == SetDate(SelectDay(day))

\* Clicking the selected day again clears it.
ClearDay == date # NoDate /\ SetDate(NoDate)

TypeHour(h) == SetDate(setHours(Current, h))
TypeMinute(m) == SetDate(setMinutes(Current, m))
TypeSecond(s) == SetDate(setSeconds(Current, s))

-----------------------------------------------------------------------------
(* Submitting *)

\* The zod schemas of the two forms.
ValidInterview == filled /\ date # NoDate /\ joined["interviewers"]
ValidEvaluation == filled

Valid == IF page = "new" THEN ValidInterview ELSE ValidEvaluation

\* The payload takes the arrays, not the joined fields.
Payload(p) ==
  [form |-> p, lists |-> [l \in Lists[p] |-> entries[l]], date |-> date]

\* form.handleSubmit: the button is disabled while isSubmitting.  Bound: a tab
\* has one submission under way, also when its form was left.
Submit ==
  /\ page # "away" /\ ~own /\ Valid
  /\ step = Idle /\ count < MaxToasts
  /\ step' = [at |-> "request", body |-> Payload(page)]
  /\ own' = TRUE
  /\ UNCHANGED <<page, entries, joined, filled, date, pushed, sent, toastVars>>

ServerAccepts ==
  /\ step.at = "request" /\ Len(sent) < MaxSent
  /\ sent' = Append(sent, step.body)
  /\ step' = [step EXCEPT !.at = "served"]
  /\ UNCHANGED <<page, entries, joined, filled, date, own, pushed, toastVars>>

\* Mutant: isSubmitting is reset after success only.
SubmitFailsForGood ==
  /\ step # Idle
  /\ Toast("Error")
  /\ step' = Idle
  /\ UNCHANGED <<page, entries, joined, filled, date, own, pushed, sent>>

\* The request is refused or lost, or its answer is: the form can be used again.
SubmitFails ==
  /\ step # Idle
  /\ Toast("Error")
  /\ step' = Idle /\ own' = FALSE
  /\ UNCHANGED <<page, entries, joined, filled, date, pushed, sent>>

\* The answer is there: a toast, router.push, and finally resets isSubmitting.
\* The push also takes the user from a form opened since.
SubmitSucceeds ==
  /\ step.at = "served"
  /\ Toast(IF step.body.form = "new" THEN "Interview Scheduled" ELSE "Evaluation Submitted")
  /\ pushed' = IF page = "away" THEN "nowhere" ELSE "away"
  /\ step' = Idle /\ own' = FALSE
  /\ UNCHANGED <<page, entries, joined, filled, date, sent>>

-----------------------------------------------------------------------------
Edit ==
  \/ FillFields \/ ClearDay
  \/ \E l \in AllLists : \E w \in Word[l] : AddWord(l, w) \/ RemoveWord(l, w)
  \/ \E day \in Day : PickDay(day)
  \/ \E h \in HourInput : TypeHour(h)
  \/ \E m \in MinuteInput : TypeMinute(m)
  \/ \E s \in SecondInput : TypeSecond(s)

Next ==
  \/ \E p \in DOMAIN Lists : OpenForm(p)
  \/ LeaveForm \/ Navigates
  \/ Edit
  \/ Submit \/ ServerAccepts \/ SubmitFails \/ SubmitSucceeds
  \/ ToastStep /\ UNCHANGED formVars

\* Requests end, navigation ends, timers fire.
Fairness ==
  /\ WF_vars(ServerAccepts \/ SubmitFails \/ SubmitSucceeds)
  /\ WF_vars(Navigates)
  /\ \A id \in 1 .. MaxToasts : WF_vars(RemoveTimeout(id) /\ UNCHANGED formVars)

Spec == Init /\ [][Next]_vars
FairSpec == Spec /\ Fairness

-----------------------------------------------------------------------------
(* Properties *)

TypeOK ==
  /\ ToastsTypeOK(Title)
  /\ page \in DOMAIN Lists /\ pushed \in {"nowhere", "away"}
  /\ \A l \in AllLists : ToSet(entries[l]) \subseteq Word[l]
  /\ joined \in [AllLists -> BOOLEAN] /\ filled \in BOOLEAN /\ own \in BOOLEAN
  /\ date \in (0 .. MaxDate) \cup {NoDate}
  /\ step.at \in {"none", "request", "served"}
  /\ Len(sent) <= MaxSent

\* What the server gets passes the schema although the schema looked at other
\* fields than the ones that are sent: a scheduled interview has a date and an
\* interviewer, and no list names a word twice (schedule-interview-form.tsx,
\* submit-evaluation-form.tsx: add, remove and handleSubmit).
RequestIsValid ==
  \A n \in DOMAIN sent :
    /\ sent[n].form = "new" => sent[n].date # NoDate /\ sent[n].lists["interviewers"] # <<>>
    /\ \A l \in DOMAIN sent[n].lists : IsInjective(sent[n].lists[l])

TimeOfDay(d) == d % DayLength

\* A date is what is wanted, or an hour later if the clocks skip that.
Meets(d, wanted) == Exists(d) /\ (d = wanted \/ (~Exists(wanted) /\ d = wanted + HourLength))

\* "Preserve existing time when changing date" (schedule-interview-form.tsx,
\* onSelect), and the other way round: a time of day that is in range keeps the
\* day.  The parts are set one after the other, and each step may meet a skipped
\* hour that the date wanted does not have: what comes out is that date all the
\* same, or, only where the clocks skip it, the time an hour later.
DateAndTimeApart ==
  /\ date # NoDate => Exists(date)
  /\ \A day \in Day : Meets(SelectDay(day), (day * DayLength) + TimeOfDay(Current))
  /\ \A h \in 0 .. Hours - 1, m \in 0 .. Minutes - 1, s \in 0 .. Seconds - 1 :
       Meets(setSeconds(setMinutes(setHours(Current, h), m), s),
             (Current - TimeOfDay(Current)) + (h * HourLength) + (m * Seconds) + s)

\* A form that was submitted can be used again or is left (finally of
\* handleSubmit).
FormComesBack == own ~> ~own

=============================================================================
