------------------------------ MODULE Bookings ------------------------------
(***************************************************************************)
(* Candidates book, reschedule and cancel interviews with one organizer.   *)
(*                                                                         *)
(* A request is a transaction at READ COMMITTED: it reads its invitation,  *)
(* takes an advisory lock on a day, reads again under the lock, and writes *)
(* everything when it commits.  The request names its slot by an id, and   *)
(* sends along what it takes for the start of that slot: the hint.  The    *)
(* day is that of the hint in the time zone of the invitation.  Nothing    *)
(* compares the hint with the slot; it only has to be near enough for the  *)
(* slot to be found.  Cancelling takes no lock.  Updates carry the version *)
(* they have read; a row that another transaction has updated since makes  *)
(* the request fail.                                                       *)
(*                                                                         *)
(* Not here: consent receipts, the candidate's details and the slots an    *)
(* organizer offers (a request they do not satisfy fails), reminders,      *)
(* notices, and what an organizer does to an event in the own calendar.    *)
(***************************************************************************)
EXTENDS Integers

CONSTANTS
  Invitations,
  Slots,     \* slots the organizer offers, each known by its start
  Times,     \* starts that a request may hint at
  Near,      \* <<h, s>>: the slot s lies within 24 hours of the hint h
  Overlap,   \* pairs of slots that overlap
  Day,       \* Day[i][h]: the day of a time in the time zone of an invitation
  Requests,  \* processes that serve candidates
  NumEvents  \* bound: interviews ever put into the calendar

Events == 1 .. NumEvents
NoEvent == 0

ASSUME BookingAssumption ==
  /\ NumEvents \in Nat
  /\ Slots \subseteq Times /\ \A s \in Slots : <<s, s>> \in Near
  /\ \A s, t \in Slots : <<s, s>> \in Overlap /\ (<<s, t>> \in Overlap => <<t, s>> \in Overlap)

VARIABLES
  invitation,  \* status and booked_event_id
  event,       \* interviews in the calendar
  request,     \* what each process is doing, and what it has read
  told,        \* history: the last answer to each candidate that was not a refusal
  misled       \* history: candidates whose last answer ignored what had happened to the event

vars == <<invitation, event, request, told, misled>>

\* "closed" stands for declined, expired and revoked, which nothing leaves.
Statuses == {"sent", "opened", "booked", "closed"}
NoInterview == [status |-> "none"]
Idle == [step |-> "idle"]

Init ==
  /\ invitation = [i \in Invitations |-> [status |-> "sent", event |-> NoEvent]]
  /\ event = [e \in Events |-> NoInterview]
  /\ request = [r \in Requests |-> Idle]
  /\ told = [i \in Invitations |-> "nothing"]
  /\ misled = {}

Confirmed == {e \in Events : event[e].status = "confirmed"}

\* The versions that a commit has changed are no longer those others have read.
Stale(invitations, events) ==
  [r \in Requests |->
     IF request[r] = Idle THEN Idle
     ELSE [request[r] EXCEPT !.current = @ /\ request[r].inv \notin invitations,
                             !.unchanged = @ /\ request[r].event \notin events]]

-----------------------------------------------------------------------------
(* The invitation before it is booked *)

Transitions == [sent |-> {"opened", "closed"}, opened |-> {"closed"}]

\* The candidate opens it or declines, the organizer revokes it, it expires.
Transition(i, status) ==
  /\ invitation[i].status \in DOMAIN Transitions
  /\ status \in Transitions[invitation[i].status]
  /\ invitation' = [invitation EXCEPT ![i].status = status]
  /\ request' = Stale({i}, {})
  /\ UNCHANGED <<event, told, misled>>

-----------------------------------------------------------------------------
(* Requests *)

\* The first read of the invitation, whose booking the request is about.  Requests
\* whose hint is not near their slot find no slot, and are left out: they can only
\* fail or be answered like one that asks for the slot hinted at (AnswerBooked).  A
\* cancellation sends no hint.
Begin(r, op, i, s, h) ==
  /\ request[r] = Idle
  /\ <<h, s>> \in Near
  /\ op # "book" => invitation[i].status = "booked"
  /\ op = "cancel" => s = event[invitation[i].event].slot /\ h = s
  /\ request' = [request EXCEPT ![r] =
       [step |-> "begun", op |-> op, inv |-> i, slot |-> s, hint |-> h, event |-> invitation[i].event,
        current |-> TRUE, unchanged |-> TRUE, late |-> FALSE]]
  /\ UNCHANGED <<invitation, event, told, misled>>

\* The requests that hold the lock of a day, which is DayOf them.
Holders == {r \in Requests : request[r].step \in {"locked", "checked"} /\ request[r].op # "cancel"}
DayOf(r) == Day[request[r].inv][request[r].hint]

\* Mutant: the lock keeps nobody out.
LockIsFreeForAll(r) == request[r].step = "begun"

\* lockOrganizerDay.
LockIsFree(r) == \A q \in Holders : DayOf(q) # DayOf(r)

Lock(r) ==
  /\ request[r].step = "begun" /\ request[r].op # "cancel"
  /\ LockIsFree(r)
  /\ request' = [request EXCEPT ![r].step = "locked"]
  /\ UNCHANGED <<invitation, event, told, misled>>

\* recomputeSlots: no confirmed interview is in the way, but for the one that a
\* reschedule has released.
Available(s, released) == \A e \in Confirmed \ released : <<s, event[e].slot>> \notin Overlap

\* bookSlot under the lock, up to its writes.
CheckBook(r) ==
  LET q == request[r] IN
  /\ q.step = "locked" /\ q.op = "book"
  /\ invitation[q.inv].status = "opened"
  /\ Available(q.slot, {})
  /\ request' = [request EXCEPT ![r].step = "checked", ![r].current = TRUE, ![r].event = NoEvent]
  /\ UNCHANGED <<invitation, event, told, misled>>

\* resolveAlreadyBooked: a hint at the booked start is a retry, whatever slot it asks
\* for and whatever became of the event.
AnswerBooked(r) ==
  LET q == request[r]
      e == invitation[q.inv].event
  IN
  /\ q.step = "locked" /\ q.op = "book"
  /\ invitation[q.inv].status = "booked" /\ event[e].slot = q.hint
  /\ request' = [request EXCEPT ![r] = Idle]
  /\ told' = [told EXCEPT ![q.inv] = "booked"]
  /\ misled' = IF e \in Confirmed THEN misled \ {q.inv} ELSE misled \cup {q.inv}
  /\ UNCHANGED <<invitation, event>>

\* rescheduleBooking under the lock, with the event that the first read has named.
CheckReschedule(r) ==
  LET q == request[r] IN
  /\ q.step = "locked" /\ q.op = "reschedule"
  /\ Available(q.slot, {q.event})
  /\ request' = [request EXCEPT ![r].step = "checked", ![r].unchanged = TRUE]
  /\ UNCHANGED <<invitation, event, told, misled>>

\* cancelBooking reads that event, which by now may have been replaced.
CheckCancel(r) ==
  LET q == request[r] IN
  /\ q.step = "begun" /\ q.op = "cancel"
  /\ event[q.event].status # "cancelled"
  /\ request' = [request EXCEPT ![r].step = "checked", ![r].unchanged = TRUE,
                                ![r].late = q.event # invitation[q.inv].event]
  /\ UNCHANGED <<invitation, event, told, misled>>

AnswerCancelled(r) ==
  LET q == request[r] IN
  /\ q.step = "begun" /\ q.op = "cancel"
  /\ event[q.event].status = "cancelled"
  /\ request' = [request EXCEPT ![r] = Idle]
  /\ told' = [told EXCEPT ![q.inv] = "cancelled"]
  /\ misled' = IF q.event = invitation[q.inv].event THEN misled \ {q.inv} ELSE misled \cup {q.inv}
  /\ UNCHANGED <<invitation, event>>

-----------------------------------------------------------------------------
(* Commits *)

\* The day is history: it tells under which lock the interview was booked.
Interview(q) ==
  [status |-> "confirmed", inv |-> q.inv, slot |-> q.slot, day |-> Day[q.inv][q.hint]]
Free(e) == event[e] = NoInterview /\ \A d \in Events : d < e => event[d] # NoInterview

Answered(i, answer) ==
  /\ told' = [told EXCEPT ![i] = answer]
  /\ misled' = misled \ {i}

\* Mutant: the invitation is booked without its event.
BookWithoutEvent(r, e) ==
  LET q == request[r] IN
  /\ q.step = "checked" /\ q.op = "book" /\ q.current /\ Free(e)
  /\ event' = [event EXCEPT ![e] = Interview(q)]
  /\ invitation' = [invitation EXCEPT ![q.inv].status = "booked"]
  /\ request' = [Stale({q.inv}, {}) EXCEPT ![r] = Idle]
  /\ Answered(q.inv, "booked")

Book(r, e) ==
  LET q == request[r] IN
  /\ q.step = "checked" /\ q.op = "book" /\ q.current /\ Free(e)
  /\ event' = [event EXCEPT ![e] = Interview(q)]
  /\ invitation' = [invitation EXCEPT ![q.inv] = [status |-> "booked", event |-> e]]
  /\ request' = [Stale({q.inv}, {}) EXCEPT ![r] = Idle]
  /\ Answered(q.inv, "booked")

Reschedule(r, e) ==
  LET q == request[r] IN
  /\ q.step = "checked" /\ q.op = "reschedule" /\ q.current /\ q.unchanged /\ Free(e)
  /\ event' = [event EXCEPT ![q.event].status = "rescheduled", ![e] = Interview(q)]
  /\ invitation' = [invitation EXCEPT ![q.inv].event = e]
  /\ request' = [Stale({q.inv}, {q.event}) EXCEPT ![r] = Idle]
  /\ Answered(q.inv, "booked")

\* Mutant: the event is updated whatever its version.
CancelWhatever(r) ==
  LET q == request[r] IN
  /\ q.step = "checked" /\ q.op = "cancel"
  /\ event' = [event EXCEPT ![q.event].status = "cancelled"]
  /\ request' = [Stale({}, {q.event}) EXCEPT ![r] = Idle]
  /\ told' = [told EXCEPT ![q.inv] = "cancelled"]
  /\ misled' = IF q.late THEN misled \cup {q.inv} ELSE misled \ {q.inv}
  /\ UNCHANGED invitation

\* The invitation stays booked.
Cancel(r) ==
  LET q == request[r] IN
  /\ q.step = "checked" /\ q.op = "cancel" /\ q.unchanged
  /\ event' = [event EXCEPT ![q.event].status = "cancelled"]
  /\ request' = [Stale({}, {q.event}) EXCEPT ![r] = Idle]
  /\ told' = [told EXCEPT ![q.inv] = "cancelled"]
  /\ misled' = IF q.late THEN misled \cup {q.inv} ELSE misled \ {q.inv}
  /\ UNCHANGED invitation

\* A refusal, a version that has changed, a failing statement: rolled back.  One
\* refusal returns after a write: a reschedule that finds no default calendar has
\* released the old event.  It is not reached: who books has found that calendar,
\* and nothing in the code deletes a calendar or makes it less than the default.
Fail(r) ==
  /\ request[r] # Idle
  /\ request' = [request EXCEPT ![r] = Idle]
  /\ UNCHANGED <<invitation, event, told, misled>>

Next ==
  \/ \E i \in Invitations, status \in Statuses : Transition(i, status)
  \/ \E r \in Requests, op \in {"book", "reschedule", "cancel"}, i \in Invitations, s \in Slots, h \in Times :
       Begin(r, op, i, s, h)
  \/ \E r \in Requests :
       \/ Lock(r)
       \/ CheckBook(r) \/ AnswerBooked(r) \/ CheckReschedule(r)
       \/ CheckCancel(r) \/ AnswerCancelled(r)
       \/ \E e \in Events : Book(r, e) \/ Reschedule(r, e)
       \/ Cancel(r) \/ Fail(r)

Spec == Init /\ [][Next]_vars

-----------------------------------------------------------------------------
(* Properties *)

Interviews ==
  {x \in [status : {"confirmed", "cancelled", "rescheduled"}, inv : Invitations, slot : Slots,
          day : {Day[i][h] : i \in Invitations, h \in Times}] :
     \E h \in Times : <<h, x.slot>> \in Near /\ x.day = Day[x.inv][h]}
Calls ==
  {q \in [step : {"begun", "locked", "checked"}, op : {"book", "reschedule", "cancel"},
          inv : Invitations, slot : Slots, hint : Times, event : {NoEvent} \cup Events,
          current : BOOLEAN, unchanged : BOOLEAN, late : BOOLEAN] : <<q.hint, q.slot>> \in Near}

TypeOK ==
  /\ invitation \in [Invitations -> [status : Statuses, event : {NoEvent} \cup Events]]
  /\ \A i \in Invitations : invitation[i].status = "booked" <=> invitation[i].event # NoEvent
  /\ event \in [Events -> {NoInterview} \cup Interviews]
  /\ request \in [Requests -> {Idle} \cup Calls]
  /\ told \in [Invitations -> {"nothing", "booked", "cancelled"}]
  /\ misled \subseteq Invitations

\* No two confirmed interviews overlap, whichever requests race, if they were booked
\* under the same lock: the day of the hint in the time zone of the invitation.
DaysAreNotDoubleBooked ==
  \A d, e \in Confirmed :
    /\ d # e
    /\ <<event[d].slot, event[e].slot>> \in Overlap
    => event[d].day # event[e].day

\* What a candidate was told last is how things are: an appointment that was
\* booked or moved is in the calendar once, a cancelled one is not, and nothing is
\* confirmed that the invitation does not point to.  Two answers can mislead: a
\* cancellation that reads an event just after a reschedule has replaced it, and
\* a booking that hints at the start of an appointment cancelled before.
AppointmentsAreAsTold ==
  \A i \in Invitations :
    LET confirmed == {e \in Confirmed : event[e].inv = i} IN
    /\ confirmed \subseteq {invitation[i].event}
    /\ i \notin misled => (told[i] = "booked" <=> confirmed # {})

\* What the module's comment promises: no double booking at all.
NoDoubleBooking ==
  \A d, e \in Confirmed : d # e => <<event[d].slot, event[e].slot>> \notin Overlap
=============================================================================
