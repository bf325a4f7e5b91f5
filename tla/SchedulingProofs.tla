--------------------------- MODULE SchedulingProofs ---------------------------
(***************************************************************************)
(* For any number of invitations, slots, requests and interviews, and of   *)
(* clients of an interview session.                                        *)
(*                                                                         *)
(* Bookings.  Basics: a request knows an event of its own invitation, and  *)
(* a version that is still current vouches for what was read with it.      *)
(* DayInv: the holder of the lock of a day has seen everything confirmed   *)
(* under that lock, because what is confirmed meanwhile is confirmed under *)
(* others.  ToldInv: the version guards tie each answer to the event it is *)
(* about.                                                                  *)
(*                                                                         *)
(* InterviewSessions.  SessionInv: the transition a fresh request asks for *)
(* is still a legal one, so a session that has billed is over and nothing  *)
(* reserves for it again; and the latest row speaks for the candidate.     *)
(***************************************************************************)
EXTENDS Bookings, InterviewSessions, TLAPS

\* A request knows an interview of its own invitation, and so does the invitation.
Known(r) ==
  /\ request[r].event # NoEvent =>
       /\ event[request[r].event] # NoInterview
       /\ event[request[r].event].inv = request[r].inv
  /\ request[r].op # "book" => request[r].event # NoEvent
  /\ request[r].op = "book" /\ request[r].step = "checked" => request[r].event = NoEvent

Booked(i) ==
  invitation[i].event # NoEvent =>
    /\ event[invitation[i].event] # NoInterview
    /\ event[invitation[i].event].inv = i

\* A version that is still current vouches for what was read with it.
Vouched(r) ==
  request[r].current =>
    IF request[r].op = "book"
    THEN request[r].step = "checked" => invitation[request[r].inv].status = "opened"
    ELSE invitation[request[r].inv].event = request[r].event

Basics ==
  /\ TypeOK
  /\ \A i \in Invitations : Booked(i)
  /\ \A r \in Requests : request[r] # Idle => Known(r) /\ Vouched(r)

LEMMA NoEventIsNone == NoEvent \notin Events /\ Events \subseteq Int
BY BookingAssumption DEF NoEvent, Events

LEMMA CallIsNotIdle == Idle \notin Calls /\ NoInterview \notin Interviews
<1>1. Idle \notin Calls
  <2>. SUFFICES ASSUME Idle \in Calls PROVE FALSE
    OBVIOUS
  <2>1. Idle.step \in {"begun", "locked", "checked"}
    BY DEF Calls
  <2>. QED BY <2>1 DEF Idle
<1>2. NoInterview \notin Interviews
  <2>. SUFFICES ASSUME NoInterview \in Interviews PROVE FALSE
    OBVIOUS
  <2>1. NoInterview.status \in {"confirmed", "cancelled", "rescheduled"}
    BY DEF Interviews
  <2>. QED BY <2>1 DEF NoInterview
<1>. QED BY <1>1, <1>2

LEMMA StatusOnly ==
  ASSUME NEW x \in Interviews, NEW s \in {"confirmed", "cancelled", "rescheduled"}
  PROVE  /\ [x EXCEPT !.status = s] \in Interviews
         /\ [x EXCEPT !.status = s] # NoInterview
         /\ [x EXCEPT !.status = s].status = s
         /\ [x EXCEPT !.status = s].inv = x.inv
         /\ [x EXCEPT !.status = s].slot = x.slot
         /\ [x EXCEPT !.status = s].day = x.day
<1>. DEFINE Records == [status : {"confirmed", "cancelled", "rescheduled"}, inv : Invitations,
                        slot : Slots, day : {Day[i][h] : i \in Invitations, h \in Times}]
            y == [x EXCEPT !.status = s]
<1>1. x \in Records /\ \E h \in Times : <<h, x.slot>> \in Near /\ x.day = Day[x.inv][h]
  BY DEF Interviews
<1>2. y \in Records /\ y.status = s /\ y.inv = x.inv /\ y.slot = x.slot /\ y.day = x.day
  BY <1>1
<1>. HIDE DEF y
<1>3. y \in Interviews
  BY <1>1, <1>2 DEF Interviews
<1>. QED BY <1>2, <1>3, CallIsNotIdle DEF y

LEMMA InitBasics == Init => Basics
<1>. SUFFICES ASSUME Init PROVE Basics
  OBVIOUS
<1>1. TypeOK
  BY DEF Init, TypeOK, Statuses
<1>2. \A i \in Invitations : Booked(i)
  BY DEF Init, Booked
<1>. QED BY <1>1, <1>2 DEF Init, Basics

\* What a commit leaves of the requests.
LEMMA StaleCall ==
  ASSUME TypeOK, NEW I, NEW E, NEW r \in Requests, request[r] # Idle
  PROVE  /\ request[r] \in Calls
         /\ Stale(I, E)[r] \in Calls
         /\ Stale(I, E)[r].step = request[r].step
         /\ Stale(I, E)[r].op = request[r].op
         /\ Stale(I, E)[r].inv = request[r].inv
         /\ Stale(I, E)[r].slot = request[r].slot
         /\ Stale(I, E)[r].hint = request[r].hint
         /\ Stale(I, E)[r].event = request[r].event
         /\ Stale(I, E)[r].late = request[r].late
         /\ Stale(I, E)[r].current = (request[r].current /\ request[r].inv \notin I)
         /\ Stale(I, E)[r].unchanged = (request[r].unchanged /\ request[r].event \notin E)
<1>1. request[r] \in Calls
  BY DEF TypeOK
<1>. DEFINE c == request[r].current /\ request[r].inv \notin I
            u == request[r].unchanged /\ request[r].event \notin E
<1>2. c \in BOOLEAN /\ u \in BOOLEAN
  OBVIOUS
<1>3. Stale(I, E)[r] = [request[r] EXCEPT !.current = c, !.unchanged = u]
  BY DEF Stale
<1>. HIDE DEF c, u
<1>4. /\ Stale(I, E)[r] \in Calls
      /\ Stale(I, E)[r].step = request[r].step
      /\ Stale(I, E)[r].op = request[r].op
      /\ Stale(I, E)[r].inv = request[r].inv
      /\ Stale(I, E)[r].slot = request[r].slot
      /\ Stale(I, E)[r].hint = request[r].hint
      /\ Stale(I, E)[r].event = request[r].event
      /\ Stale(I, E)[r].late = request[r].late
      /\ Stale(I, E)[r].current = c
      /\ Stale(I, E)[r].unchanged = u
  BY <1>1, <1>2, <1>3 DEF Calls
<1>. QED BY <1>1, <1>4 DEF c, u

LEMMA StaleIdle ==
  ASSUME NEW I, NEW E, NEW r \in Requests, request[r] = Idle
  PROVE  Stale(I, E)[r] = Idle
BY DEF Stale

LEMMA StaleTypes ==
  ASSUME TypeOK, NEW I, NEW E
  PROVE  Stale(I, E) \in [Requests -> {Idle} \cup Calls]
<1>1. ASSUME NEW r \in Requests PROVE Stale(I, E)[r] \in {Idle} \cup Calls
  BY StaleCall, StaleIdle
<1>. QED BY <1>1 DEF Stale

-----------------------------------------------------------------------------
(* Basics: one lemma for the steps of one request, one for commits *)

LEMMA ReadKeepsBasics ==
  ASSUME Basics, NEW r \in Requests, NEW x \in {Idle} \cup Calls,
         request' = [request EXCEPT ![r] = x],
         UNCHANGED <<invitation, event>>,
         told' \in [Invitations -> {"nothing", "booked", "cancelled"}], misled' \subseteq Invitations,
         x # Idle => Known(r)' /\ Vouched(r)'
  PROVE  Basics'
<1>1. TypeOK'
  BY DEF Basics, TypeOK
<1>2. ASSUME NEW i \in Invitations PROVE Booked(i)'
  BY DEF Basics, Booked
<1>3. ASSUME NEW q \in Requests, request'[q] # Idle PROVE Known(q)' /\ Vouched(q)'
  <2>1. CASE q = r
    BY <1>3, <2>1 DEF Basics, TypeOK
  <2>2. CASE q # r
    <3>1. request'[q] = request[q]
      BY <2>2 DEF Basics, TypeOK
    <3>. QED BY <1>3, <3>1 DEF Basics, Known, Vouched
  <2>. QED BY <2>1, <2>2
<1>. QED BY <1>1, <1>2, <1>3 DEF Basics

LEMMA CommitKeepsBasics ==
  ASSUME Basics, NEW I, NEW E, TypeOK',
         \A i \in Invitations \ I : invitation'[i] = invitation[i],
         \A e \in Events : event[e] # NoInterview =>
           event'[e] # NoInterview /\ event'[e].inv = event[e].inv,
         \A q \in Requests : request'[q] \in {Idle, Stale(I, E)[q]},
         \A i \in Invitations : Booked(i)'
  PROVE  Basics'
<1>1. ASSUME NEW q \in Requests, request'[q] # Idle PROVE Known(q)' /\ Vouched(q)'
  <2>1. request'[q] = Stale(I, E)[q]
    BY <1>1
  <2>2. request[q] # Idle
    BY <1>1, <2>1, StaleIdle
  <2>3. /\ request[q] \in Calls
        /\ request'[q].step = request[q].step
        /\ request'[q].op = request[q].op
        /\ request'[q].inv = request[q].inv
        /\ request'[q].event = request[q].event
        /\ request'[q].current = (request[q].current /\ request[q].inv \notin I)
    BY <2>1, <2>2, StaleCall DEF Basics
  <2>4. request[q].event \in {NoEvent} \cup Events /\ request[q].inv \in Invitations
    BY <2>3 DEF Calls
  <2>5. Known(q) /\ Vouched(q)
    BY <2>2 DEF Basics
  <2>6. Known(q)'
    BY <2>3, <2>4, <2>5 DEF Known
  <2>7. ASSUME request'[q].current PROVE invitation'[request[q].inv] = invitation[request[q].inv] /\ request[q].current
    BY <2>3, <2>4, <2>7
  <2>8. Vouched(q)'
    BY <2>3, <2>5, <2>7 DEF Vouched
  <2>. QED BY <2>6, <2>8
<1>. QED BY <1>1 DEF Basics

LEMMA TransitionBasics ==
  ASSUME Basics, NEW i \in Invitations, NEW status \in Statuses, Transition(i, status)
  PROVE  Basics'
<1>1. TypeOK'
  <2>1. request' \in [Requests -> {Idle} \cup Calls]
    BY StaleTypes DEF Transition, Basics
  <2>2. /\ invitation' \in [Invitations -> [status : Statuses, event : {NoEvent} \cup Events]]
        /\ \A j \in Invitations : invitation'[j].event = invitation[j].event
        /\ \A j \in Invitations : invitation'[j].status = "booked" <=> invitation[j].status = "booked"
    BY DEF Transition, Transitions, Basics, TypeOK
  <2>. QED BY <2>1, <2>2 DEF Transition, Basics, TypeOK
<1>2. \A j \in Invitations \ {i} : invitation'[j] = invitation[j]
  BY DEF Transition, Basics, TypeOK
<1>3. ASSUME NEW j \in Invitations PROVE Booked(j)'
  <2>1. invitation'[j].event = invitation[j].event
    BY DEF Transition, Basics, TypeOK
  <2>. QED BY <2>1 DEF Transition, Basics, Booked
<1>4. \A q \in Requests : request'[q] = Stale({i}, {})[q]
  BY DEF Transition
<1>. QED BY <1>1, <1>2, <1>3, <1>4, CommitKeepsBasics DEF Transition

LEMMA BookBasics ==
  ASSUME Basics, NEW r \in Requests, NEW e \in Events, Book(r, e)
  PROVE  Basics'
<1>. DEFINE i == request[r].inv
<1>1. request[r] \in Calls /\ request[r] # Idle
  BY DEF Book, Basics, TypeOK, Idle
<1>2. i \in Invitations /\ Interview(request[r]) \in Interviews
  BY <1>1 DEF Calls, Interview, Interviews
<1>3. /\ event' = [event EXCEPT ![e] = Interview(request[r])]
      /\ invitation' = [invitation EXCEPT ![i] = [status |-> "booked", event |-> e]]
      /\ request' = [Stale({i}, {}) EXCEPT ![r] = Idle]
      /\ told' = [told EXCEPT ![i] = "booked"]
      /\ misled' = misled \ {i}
      /\ event[e] = NoInterview
  BY DEF Book, Answered, Free
<1>. HIDE DEF i
<1>4. request' \in [Requests -> {Idle} \cup Calls]
  BY <1>3, StaleTypes DEF Basics
<1>5. TypeOK'
  BY <1>2, <1>3, <1>4, NoEventIsNone DEF Basics, TypeOK, Statuses
<1>6. \A j \in Invitations \ {i} : invitation'[j] = invitation[j]
  BY <1>3 DEF Basics, TypeOK
<1>7. \A d \in Events : event[d] # NoInterview => event'[d] # NoInterview /\ event'[d].inv = event[d].inv
  BY <1>3 DEF Basics, TypeOK
<1>8. ASSUME NEW j \in Invitations PROVE Booked(j)'
  <2>1. CASE j = i
    <3>1. invitation'[j].event = e /\ event'[e] = Interview(request[r])
      BY <1>3, <2>1 DEF Basics, TypeOK
    <3>. QED BY <1>2, <2>1, <3>1, CallIsNotIdle DEF Booked, Interview, i
  <2>2. CASE j # i
    <3>1. invitation[j].event \in {NoEvent} \cup Events
      BY DEF Basics, TypeOK
    <3>. QED BY <1>6, <1>7, <2>2, <3>1 DEF Basics, Booked
  <2>. QED BY <2>1, <2>2
<1>9. \A q \in Requests : request'[q] \in {Idle, Stale({i}, {})[q]}
  BY <1>3, StaleTypes DEF Basics
<1>. QED BY <1>5, <1>6, <1>7, <1>8, <1>9, CommitKeepsBasics

\* What a request that names an event knows of it.
LEMMA KnownEvent ==
  ASSUME Basics, NEW r \in Requests, request[r] # Idle, request[r].op # "book"
  PROVE  /\ request[r] \in Calls
         /\ request[r].inv \in Invitations
         /\ request[r].event \in Events
         /\ event[request[r].event] \in Interviews
         /\ event[request[r].event].inv = request[r].inv
<1>1. request[r] \in Calls /\ Known(r)
  BY DEF Basics, TypeOK
<1>2. request[r].event \in Events /\ request[r].inv \in Invitations
  BY <1>1 DEF Calls, Known
<1>. QED BY <1>1, <1>2 DEF Known, Basics, TypeOK

LEMMA RescheduleBasics ==
  ASSUME Basics, NEW r \in Requests, NEW e \in Events, Reschedule(r, e)
  PROVE  Basics'
<1>. DEFINE i == request[r].inv
            d == request[r].event
            moved == [event[d] EXCEPT !.status = "rescheduled"]
<1>1. /\ request[r] \in Calls
      /\ i \in Invitations /\ d \in Events
      /\ event[d] \in Interviews /\ event[d].inv = i
      /\ event[e] = NoInterview
      /\ invitation[i].event = d
  <2>1. request[r] # Idle /\ request[r].op # "book" /\ event[e] = NoInterview /\ request[r].current
    BY DEF Reschedule, Idle, Free
  <2>. QED BY <2>1, KnownEvent DEF Basics, Vouched
<1>2. d # e
  BY <1>1, CallIsNotIdle
<1>3. /\ moved \in Interviews /\ moved.inv = i /\ moved # NoInterview
      /\ Interview(request[r]) \in Interviews /\ Interview(request[r]).inv = i
  <2>1. Interview(request[r]) \in Interviews /\ Interview(request[r]).inv = i
    BY <1>1 DEF Calls, Interview, Interviews
  <2>. QED BY <1>1, <2>1, StatusOnly
<1>4. /\ event' = [event EXCEPT ![d] = moved, ![e] = Interview(request[r])]
      /\ invitation' = [invitation EXCEPT ![i].event = e]
      /\ request' = [Stale({i}, {d}) EXCEPT ![r] = Idle]
      /\ told' = [told EXCEPT ![i] = "booked"]
      /\ misled' = misled \ {i}
  BY DEF Reschedule, Answered
<1>. HIDE DEF i, d, moved
<1>5. request' \in [Requests -> {Idle} \cup Calls]
  BY <1>4, StaleTypes DEF Basics
<1>6. /\ invitation' \in [Invitations -> [status : Statuses, event : {NoEvent} \cup Events]]
      /\ invitation'[i].event = e /\ invitation'[i].status = "booked"
      /\ \A j \in Invitations \ {i} : invitation'[j] = invitation[j]
  <2>1. invitation[i].status = "booked"
    BY <1>1, NoEventIsNone DEF Basics, TypeOK
  <2>. QED BY <1>1, <1>4, <2>1 DEF Basics, TypeOK
<1>7. /\ event' \in [Events -> {NoInterview} \cup Interviews]
      /\ event'[e] = Interview(request[r])
      /\ \A f \in Events : event[f] # NoInterview => event'[f] # NoInterview /\ event'[f].inv = event[f].inv
  BY <1>1, <1>2, <1>3, <1>4 DEF Basics, TypeOK
<1>8. \A j \in Invitations : invitation'[j].status = "booked" <=> invitation'[j].event # NoEvent
  BY <1>6, NoEventIsNone DEF Basics, TypeOK
<1>9. TypeOK'
  BY <1>4, <1>5, <1>6, <1>7, <1>8 DEF Basics, TypeOK
<1>10. ASSUME NEW j \in Invitations PROVE Booked(j)'
  <2>1. CASE j = i
    BY <1>3, <1>6, <1>7, <2>1, CallIsNotIdle DEF Booked
  <2>2. CASE j # i
    <3>1. invitation[j].event \in {NoEvent} \cup Events
      BY DEF Basics, TypeOK
    <3>. QED BY <1>6, <1>7, <2>2, <3>1 DEF Basics, Booked
  <2>. QED BY <2>1, <2>2
<1>11. \A q \in Requests : request'[q] \in {Idle, Stale({i}, {d})[q]}
  BY <1>4, StaleTypes DEF Basics
<1>12. \A j \in Invitations \ {i} : invitation'[j] = invitation[j]
  BY <1>6
<1>. QED BY <1>7, <1>9, <1>10, <1>11, <1>12, CommitKeepsBasics

LEMMA CancelBasics ==
  ASSUME Basics, NEW r \in Requests, Cancel(r)
  PROVE  Basics'
<1>. DEFINE i == request[r].inv
            d == request[r].event
            gone == [event[d] EXCEPT !.status = "cancelled"]
<1>1. /\ i \in Invitations /\ d \in Events
      /\ event[d] \in Interviews /\ event[d].inv = i
  <2>1. request[r] # Idle /\ request[r].op # "book"
    BY DEF Cancel, Idle
  <2>. QED BY <2>1, KnownEvent
<1>2. gone \in Interviews /\ gone.inv = i /\ gone # NoInterview
  BY <1>1, StatusOnly
<1>3. /\ event' = [event EXCEPT ![d] = gone]
      /\ invitation' = invitation
      /\ request' = [Stale({}, {d}) EXCEPT ![r] = Idle]
      /\ told' = [told EXCEPT ![i] = "cancelled"]
      /\ misled' \in {misled \cup {i}, misled \ {i}}
  BY DEF Cancel
<1>. HIDE DEF i, d, gone
<1>4. request' \in [Requests -> {Idle} \cup Calls]
  BY <1>3, StaleTypes DEF Basics
<1>5. /\ event' \in [Events -> {NoInterview} \cup Interviews]
      /\ \A f \in Events : event[f] # NoInterview => event'[f] # NoInterview /\ event'[f].inv = event[f].inv
  BY <1>1, <1>2, <1>3 DEF Basics, TypeOK
<1>6. TypeOK'
  BY <1>1, <1>3, <1>4, <1>5 DEF Basics, TypeOK
<1>7. ASSUME NEW j \in Invitations PROVE Booked(j)'
  <2>1. invitation[j].event \in {NoEvent} \cup Events
    BY DEF Basics, TypeOK
  <2>. QED BY <1>3, <1>5, <2>1 DEF Basics, Booked
<1>8. \A q \in Requests : request'[q] \in {Idle, Stale({}, {d})[q]}
  BY <1>3, StaleTypes DEF Basics
<1>. QED BY <1>3, <1>5, <1>6, <1>7, <1>8, CommitKeepsBasics

\* Steps that write nothing but what the request itself has read.
Reads(r) ==
  \/ \E op \in {"book", "reschedule", "cancel"}, i \in Invitations, s \in Slots, h \in Times :
       Begin(r, op, i, s, h)
  \/ Lock(r) \/ CheckBook(r) \/ AnswerBooked(r) \/ CheckReschedule(r)
  \/ CheckCancel(r) \/ AnswerCancelled(r) \/ Fail(r)

LEMMA BeginBasics ==
  ASSUME Basics, NEW r \in Requests, NEW op \in {"book", "reschedule", "cancel"},
         NEW i \in Invitations, NEW s \in Slots, NEW h \in Times, Begin(r, op, i, s, h)
  PROVE  Basics'
<1>. DEFINE x == [step |-> "begun", op |-> op, inv |-> i, slot |-> s, hint |-> h, event |-> invitation[i].event,
                  current |-> TRUE, unchanged |-> TRUE, late |-> FALSE]
<1>1. x \in Calls
  <2>1. invitation[i].event \in {NoEvent} \cup Events /\ <<h, s>> \in Near
    BY DEF Basics, TypeOK, Begin
  <2>. QED BY <2>1 DEF Calls
<1>2. request' = [request EXCEPT ![r] = x] /\ UNCHANGED <<invitation, event, told, misled>>
  BY DEF Begin
<1>3. request'[r] = x
  BY <1>2 DEF Basics, TypeOK
<1>4. op # "book" => invitation[i].event # NoEvent
  BY DEF Begin, Basics, TypeOK
<1>5. Known(r)' /\ Vouched(r)'
  BY <1>2, <1>3, <1>4 DEF Known, Vouched, Basics, Booked
<1>. HIDE DEF x
<1>. QED BY <1>1, <1>2, <1>5, ReadKeepsBasics DEF Basics, TypeOK

LEMMA IdleBasics ==
  ASSUME Basics, NEW r \in Requests, AnswerBooked(r) \/ AnswerCancelled(r) \/ Fail(r)
  PROVE  Basics'
<1>1. request[r] \in Calls
  BY DEF AnswerBooked, AnswerCancelled, Fail, Basics, TypeOK, Idle
<1>2. /\ request' = [request EXCEPT ![r] = Idle]
      /\ UNCHANGED <<invitation, event>>
      /\ told' \in [Invitations -> {"nothing", "booked", "cancelled"}]
      /\ misled' \subseteq Invitations
  BY <1>1 DEF AnswerBooked, AnswerCancelled, Fail, Basics, TypeOK, Calls
<1>. QED BY <1>2, ReadKeepsBasics

LEMMA CheckBasics ==
  ASSUME Basics, NEW r \in Requests,
         Lock(r) \/ CheckBook(r) \/ CheckReschedule(r) \/ CheckCancel(r)
  PROVE  Basics'
<1>. DEFINE x == request'[r]
<1>1. request[r] \in Calls /\ request[r] # Idle
  BY DEF Lock, CheckBook, CheckReschedule, CheckCancel, Basics, TypeOK, Idle
<1>2. /\ request' = [request EXCEPT ![r] = x]
      /\ x \in Calls
      /\ x.inv = request[r].inv /\ x.op = request[r].op
      /\ UNCHANGED <<invitation, event, told, misled>>
  BY <1>1 DEF Lock, CheckBook, CheckReschedule, CheckCancel, Basics, TypeOK, Calls
<1>3. \/ /\ x.op = "book" /\ x.step = "checked" /\ x.event = NoEvent
         /\ invitation[x.inv].status = "opened"
      \/ /\ x.event = request[r].event /\ x.current = request[r].current
         /\ x.op = "book" => x.step = "locked"
  BY <1>1 DEF Lock, CheckBook, CheckReschedule, CheckCancel, Basics, TypeOK, Calls
<1>4. Known(r) /\ Vouched(r)
  BY <1>1 DEF Basics
<1>5. Known(r)' /\ Vouched(r)'
  BY <1>2, <1>3, <1>4 DEF Known, Vouched
<1>. QED BY <1>2, <1>5, ReadKeepsBasics DEF Basics, TypeOK

LEMMA NextBasics == Basics /\ [Next]_vars => Basics'
<1>. SUFFICES ASSUME Basics, [Next]_vars PROVE Basics'
  OBVIOUS
<1>1. CASE UNCHANGED vars
  BY <1>1 DEF vars, Basics, TypeOK, Booked, Known, Vouched
<1>2. ASSUME NEW r \in Requests, Reads(r) PROVE Basics'
  BY <1>2, BeginBasics, IdleBasics, CheckBasics DEF Reads
<1>. QED BY <1>1, <1>2, TransitionBasics, BookBasics, RescheduleBasics, CancelBasics DEF Next, Reads

\* Types, and every booked invitation has an event.
THEOREM TypeCorrect == Spec => []TypeOK
<1>1. Basics => TypeOK
  BY DEF Basics
<1>. QED BY <1>1, InitBasics, NextBasics, PTL DEF Spec

-----------------------------------------------------------------------------
(* Days: who holds the lock of a day has seen all that was confirmed under it *)

LocksExclude == \A q, r \in Holders : q # r => DayOf(q) # DayOf(r)

\* Only interviews of other locks can be in the way of a slot that was available.
StillAvailable(r) ==
  request[r].step = "checked" =>
    \A e \in Confirmed \ {request[r].event} :
      <<request[r].slot, event[e].slot>> \in Overlap => event[e].day # DayOf(r)

DayInv ==
  /\ Basics
  /\ LocksExclude
  /\ \A r \in Holders : StillAvailable(r)
  /\ DaysAreNotDoubleBooked

LEMMA HoldersHaveCalls ==
  ASSUME Basics, NEW r \in Holders
  PROVE  /\ r \in Requests /\ request[r] # Idle /\ request[r] \in Calls
         /\ request[r].slot \in Slots
<1>1. r \in Requests /\ request[r] \in Calls /\ request[r] # Idle
  BY DEF Holders, Basics, TypeOK, Idle
<1>. QED BY <1>1 DEF Calls

LEMMA InitDays == Init => DayInv
<1>. SUFFICES ASSUME Init PROVE DayInv
  OBVIOUS
<1>1. Holders = {}
  BY DEF Init, Holders, Idle
<1>2. Confirmed = {}
  BY DEF Init, Confirmed, NoInterview
<1>. QED BY <1>1, <1>2, InitBasics DEF DayInv, LocksExclude, DaysAreNotDoubleBooked

\* A step after which everybody who holds a lock held it before, and nothing more is
\* confirmed.
LEMMA FewerKeepDays ==
  ASSUME DayInv, Basics',
         \A e \in Confirmed' :
           e \in Confirmed /\ event'[e].day = event[e].day /\ event'[e].slot = event[e].slot,
         \A r \in Holders' :
           /\ r \in Holders
           /\ request'[r].step = request[r].step
           /\ request'[r].inv = request[r].inv /\ request'[r].slot = request[r].slot
           /\ request'[r].hint = request[r].hint
           /\ request'[r].event = request[r].event
  PROVE  DayInv'
<1>1. LocksExclude'
  BY DEF DayInv, LocksExclude, DayOf
<1>2. ASSUME NEW r \in Holders' PROVE StillAvailable(r)'
  BY <1>2 DEF DayInv, StillAvailable, DayOf
<1>3. DaysAreNotDoubleBooked'
  BY DEF DayInv, DaysAreNotDoubleBooked
<1>. QED BY <1>1, <1>2, <1>3 DEF DayInv

\* A request that has the lock alone confirms an interview that was available, and
\* gives the lock up; the event it has released is confirmed no more.
LEMMA ConfirmKeepsDays ==
  ASSUME DayInv, Basics', NEW r \in Holders, NEW e \in Events,
         request[r].step = "checked",
         e \notin Confirmed,
         Confirmed' \subseteq (Confirmed \ {request[r].event}) \cup {e},
         \A d \in Confirmed : event'[d].day = event[d].day /\ event'[d].slot = event[d].slot,
         event'[e].day = DayOf(r) /\ event'[e].slot = request[r].slot,
         \A q \in Holders' :
           /\ q \in Holders \ {r}
           /\ request'[q].step = request[q].step
           /\ request'[q].inv = request[q].inv /\ request'[q].slot = request[q].slot
           /\ request'[q].hint = request[q].hint
           /\ request'[q].event = request[q].event
  PROVE  DayInv'
<1>1. LocksExclude'
  BY DEF DayInv, LocksExclude, DayOf
<1>2. ASSUME NEW q \in Holders' PROVE StillAvailable(q)'
  <2>1. SUFFICES ASSUME request'[q].step = "checked", NEW d \in Confirmed', d # request[q].event,
                        <<request[q].slot, event'[d].slot>> \in Overlap
                 PROVE  event'[d].day # DayOf(q)
    BY <1>2 DEF StillAvailable, DayOf
  <2>2. CASE d = e
    <3>1. DayOf(q) # DayOf(r)
      BY <1>2 DEF DayInv, LocksExclude
    <3>. QED BY <2>2, <3>1 DEF DayOf
  <2>3. CASE d # e
    <3>1. StillAvailable(q) /\ request[q].step = "checked" /\ d \in Confirmed
      BY <1>2, <2>1, <2>3 DEF DayInv
    <3>. QED BY <2>1, <3>1 DEF StillAvailable
  <2>. QED BY <2>2, <2>3
<1>3. ASSUME NEW d \in Confirmed', d # e,
             <<event'[d].slot, event'[e].slot>> \in Overlap \/ <<event'[e].slot, event'[d].slot>> \in Overlap
      PROVE  event'[d].day # event'[e].day
  <2>1. d \in Confirmed \ {request[r].event}
    BY <1>3
  <2>2. request[r].slot \in Slots /\ event[d].slot \in Slots
    <3>1. event[d] \in Interviews
      BY <2>1 DEF DayInv, Basics, TypeOK, Confirmed, NoInterview
    <3>. QED BY <3>1, HoldersHaveCalls DEF Interviews, DayInv
  <2>3. <<request[r].slot, event[d].slot>> \in Overlap
    BY <1>3, <2>1, <2>2, BookingAssumption
  <2>. QED BY <2>1, <2>3 DEF DayInv, StillAvailable, DayOf
<1>4. DaysAreNotDoubleBooked'
  <2>1. SUFFICES ASSUME NEW c \in Confirmed', NEW d \in Confirmed', c # d,
                        <<event'[c].slot, event'[d].slot>> \in Overlap
                 PROVE  event'[c].day # event'[d].day
    BY DEF DaysAreNotDoubleBooked
  <2>2. CASE c = e \/ d = e
    BY <1>3, <2>1, <2>2
  <2>3. CASE c # e /\ d # e
    BY <2>1, <2>3 DEF DayInv, DaysAreNotDoubleBooked
  <2>. QED BY <2>2, <2>3
<1>. QED BY <1>1, <1>2, <1>4 DEF DayInv

\* After a commit those that hold a lock held it before.
LEMMA CommitHolders ==
  ASSUME Basics, NEW I, NEW E, \A q \in Requests : request'[q] \in {Idle, Stale(I, E)[q]}
  PROVE  \A q \in Holders' :
           /\ q \in Holders /\ request'[q] # Idle
           /\ request'[q].step = request[q].step
           /\ request'[q].inv = request[q].inv /\ request'[q].slot = request[q].slot
           /\ request'[q].hint = request[q].hint
           /\ request'[q].event = request[q].event
<1>. SUFFICES ASSUME NEW q \in Holders'
              PROVE  /\ q \in Holders /\ request'[q] # Idle
                     /\ request'[q].step = request[q].step
                     /\ request'[q].inv = request[q].inv /\ request'[q].slot = request[q].slot
                     /\ request'[q].hint = request[q].hint
                     /\ request'[q].event = request[q].event
  OBVIOUS
<1>1. q \in Requests /\ request'[q].step \in {"locked", "checked"} /\ request'[q].op # "cancel"
  BY DEF Holders
<1>2. request'[q] # Idle /\ request'[q] = Stale(I, E)[q]
  BY <1>1 DEF Idle
<1>3. request[q] # Idle
  BY <1>1, <1>2, StaleIdle DEF Idle
<1>. QED BY <1>1, <1>2, <1>3, StaleCall DEF Holders, Basics

LEMMA TransitionDays ==
  ASSUME DayInv, NEW i \in Invitations, NEW status \in Statuses, Transition(i, status)
  PROVE  DayInv'
<1>1. Basics'
  BY TransitionBasics DEF DayInv
<1>2. \A q \in Requests : request'[q] \in {Idle, Stale({i}, {})[q]}
  BY DEF Transition
<1>3. Confirmed' = Confirmed /\ event' = event
  BY DEF Transition, Confirmed
<1>. QED BY <1>1, <1>2, <1>3, CommitHolders, FewerKeepDays DEF DayInv

LEMMA BookDays ==
  ASSUME DayInv, NEW r \in Requests, NEW e \in Events, Book(r, e)
  PROVE  DayInv'
<1>1. Basics' /\ Basics
  BY BookBasics DEF DayInv
<1>2. r \in Holders /\ request[r].step = "checked"
  BY DEF Book, Holders
<1>3. /\ request'[r] = Idle
      /\ \A q \in Requests : request'[q] \in {Idle, Stale({request[r].inv}, {})[q]}
  BY <1>1, StaleTypes DEF Book, Basics
<1>4. request[r] \in Calls /\ request[r].event = NoEvent
  BY <1>1, <1>2, HoldersHaveCalls DEF Book, Basics, Known
<1>5. /\ event' = [event EXCEPT ![e] = Interview(request[r])]
      /\ event[e] = NoInterview
      /\ DOMAIN event = Events
  BY <1>1 DEF Book, Free, Basics, TypeOK
<1>6. /\ e \notin Confirmed
      /\ Confirmed' \subseteq (Confirmed \ {request[r].event}) \cup {e}
      /\ \A d \in Confirmed : event'[d] = event[d]
      /\ event'[e].day = DayOf(r) /\ event'[e].slot = request[r].slot
  BY <1>4, <1>5, NoEventIsNone DEF Confirmed, NoInterview, Interview, DayOf
<1>7. \A q \in Holders' :
        /\ q \in Holders \ {r}
        /\ request'[q].step = request[q].step
        /\ request'[q].inv = request[q].inv /\ request'[q].slot = request[q].slot
        /\ request'[q].hint = request[q].hint
        /\ request'[q].event = request[q].event
  BY <1>1, <1>3, CommitHolders
<1>. QED BY <1>1, <1>2, <1>6, <1>7, ConfirmKeepsDays

LEMMA RescheduleDays ==
  ASSUME DayInv, NEW r \in Requests, NEW e \in Events, Reschedule(r, e)
  PROVE  DayInv'
<1>. DEFINE d == request[r].event
            moved == [event[d] EXCEPT !.status = "rescheduled"]
<1>1. Basics' /\ Basics
  BY RescheduleBasics DEF DayInv
<1>2. r \in Holders /\ request[r].step = "checked" /\ request[r] # Idle /\ request[r].op # "book"
  BY DEF Reschedule, Holders, Idle
<1>3. /\ request'[r] = Idle
      /\ \A q \in Requests : request'[q] \in {Idle, Stale({request[r].inv}, {d})[q]}
  BY <1>1, StaleTypes DEF Reschedule, Basics
<1>4. d \in Events /\ event[d] \in Interviews
  BY <1>1, <1>2, KnownEvent
<1>5. moved \in Interviews /\ moved.status = "rescheduled"
  BY <1>4, StatusOnly
<1>6. /\ event' = [event EXCEPT ![d] = moved, ![e] = Interview(request[r])]
      /\ event[e] = NoInterview
      /\ DOMAIN event = Events
  BY <1>1 DEF Reschedule, Free, Basics, TypeOK
<1>7. moved.day = event[d].day /\ moved.slot = event[d].slot
  BY <1>4, StatusOnly
<1>8. d # e
  BY <1>4, <1>6, CallIsNotIdle
<1>9. event'[d] = moved /\ event'[e] = Interview(request[r])
  BY <1>4, <1>6, <1>8
<1>10. \A f \in Events \ {d, e} : event'[f] = event[f]
  BY <1>6
<1>. HIDE DEF moved
<1>11. /\ e \notin Confirmed
       /\ Confirmed' \subseteq (Confirmed \ {d}) \cup {e}
       /\ \A f \in Confirmed : event'[f].day = event[f].day /\ event'[f].slot = event[f].slot
       /\ event'[e].day = DayOf(r) /\ event'[e].slot = request[r].slot
  BY <1>5, <1>6, <1>7, <1>9, <1>10 DEF Confirmed, NoInterview, Interview, DayOf
<1>12. \A q \in Holders' :
        /\ q \in Holders \ {r}
        /\ request'[q].step = request[q].step
        /\ request'[q].inv = request[q].inv /\ request'[q].slot = request[q].slot
        /\ request'[q].hint = request[q].hint
        /\ request'[q].event = request[q].event
  BY <1>1, <1>3, CommitHolders
<1>. QED BY <1>1, <1>2, <1>11, <1>12, ConfirmKeepsDays

LEMMA CancelDays ==
  ASSUME DayInv, NEW r \in Requests, Cancel(r)
  PROVE  DayInv'
<1>. DEFINE d == request[r].event
            gone == [event[d] EXCEPT !.status = "cancelled"]
<1>1. Basics' /\ Basics
  BY CancelBasics DEF DayInv
<1>2. d \in Events /\ event[d] \in Interviews
  <2>1. request[r] # Idle /\ request[r].op # "book"
    BY DEF Cancel, Idle
  <2>. QED BY <1>1, <2>1, KnownEvent
<1>3. event' = [event EXCEPT ![d] = gone] /\ gone.status = "cancelled" /\ DOMAIN event = Events
  BY <1>1, <1>2 DEF Cancel, Basics, TypeOK, Interviews
<1>. HIDE DEF gone
<1>4. \A f \in Confirmed' : f \in Confirmed /\ event'[f] = event[f]
  BY <1>3 DEF Confirmed
<1>5. \A q \in Requests : request'[q] \in {Idle, Stale({}, {d})[q]}
  BY <1>1, StaleTypes DEF Cancel, Basics
<1>. QED BY <1>1, <1>4, <1>5, CommitHolders, FewerKeepDays

\* A request that gets the lock of a day is alone with it.
LEMMA LockDays ==
  ASSUME DayInv, NEW r \in Requests, Lock(r)
  PROVE  DayInv'
<1>1. Basics' /\ Basics
  BY CheckBasics DEF DayInv
<1>2. request[r] \in Calls /\ request[r].op # "cancel" /\ request[r].step = "begun"
  BY <1>1 DEF Lock, Basics, TypeOK, Idle
<1>3. /\ request' = [request EXCEPT ![r].step = "locked"] /\ LockIsFree(r)
      /\ Confirmed' = Confirmed /\ event' = event
  BY DEF Lock, Confirmed
<1>4. /\ request'[r].step = "locked" /\ request'[r].inv = request[r].inv
      /\ request'[r].slot = request[r].slot
      /\ request'[r].hint = request[r].hint
      /\ \A q \in Requests \ {r} : request'[q] = request[q]
  BY <1>1, <1>2, <1>3 DEF Basics, TypeOK, Calls
<1>5. Holders' \subseteq Holders \cup {r} /\ r \notin Holders
  BY <1>2, <1>4 DEF Holders
<1>6. LocksExclude'
  <2>1. SUFFICES ASSUME NEW p \in Holders', NEW q \in Holders', p # q
                 PROVE  DayOf(p)' # DayOf(q)'
    BY DEF LocksExclude
  <2>2. p \in Requests /\ q \in Requests
    BY DEF Holders
  <2>3. CASE p # r /\ q # r
    BY <1>4, <1>5, <2>1, <2>2, <2>3 DEF DayInv, LocksExclude, DayOf
  <2>4. CASE p = r \/ q = r
    BY <1>3, <1>4, <1>5, <2>1, <2>2, <2>4 DEF LockIsFree, DayOf
  <2>. QED BY <2>3, <2>4
<1>7. ASSUME NEW q \in Holders' PROVE StillAvailable(q)'
  <2>1. CASE q = r
    BY <1>4, <2>1 DEF StillAvailable
  <2>2. CASE q # r
    <3>1. q \in Holders /\ q \in Requests
      BY <1>5, <1>7, <2>2 DEF Holders
    <3>. QED BY <1>3, <1>4, <2>2, <3>1 DEF DayInv, StillAvailable, DayOf
  <2>. QED BY <2>1, <2>2
<1>8. DaysAreNotDoubleBooked'
  BY <1>3 DEF DayInv, DaysAreNotDoubleBooked
<1>. QED BY <1>1, <1>6, <1>7, <1>8 DEF DayInv

\* Under the lock the slot is available, but for the event that is to be released.
LEMMA CheckDays ==
  ASSUME DayInv, NEW r \in Requests, CheckBook(r) \/ CheckReschedule(r)
  PROVE  DayInv'
<1>1. Basics' /\ Basics
  BY CheckBasics DEF DayInv
<1>2. request[r] \in Calls /\ request[r].op # "cancel" /\ r \in Holders
  BY <1>1 DEF CheckBook, CheckReschedule, Basics, TypeOK, Idle, Holders
<1>3. /\ request'[r].inv = request[r].inv /\ request'[r].slot = request[r].slot
      /\ request'[r].hint = request[r].hint
      /\ \A q \in Requests \ {r} : request'[q] = request[q]
      /\ Confirmed' = Confirmed /\ event' = event
  BY <1>1, <1>2 DEF CheckBook, CheckReschedule, Basics, TypeOK, Calls, Confirmed
<1>4. /\ request'[r].event \in {NoEvent, request[r].event}
      /\ Available(request[r].slot, {request'[r].event})
  <2>1. CASE CheckBook(r)
    <3>1. request'[r].event = NoEvent /\ Available(request[r].slot, {})
      BY <1>1, <1>2, <2>1 DEF CheckBook, Basics, TypeOK, Calls
    <3>. QED BY <3>1 DEF Available
  <2>2. CASE CheckReschedule(r)
    BY <1>1, <1>2, <2>2 DEF CheckReschedule, Basics, TypeOK, Calls
  <2>. QED BY <2>1, <2>2
<1>5. Holders' \subseteq Holders
  BY <1>2, <1>3 DEF Holders
<1>6. LocksExclude'
  <2>1. \A q \in Holders' : q \in Requests /\ DayOf(q)' = DayOf(q)
    BY <1>3 DEF Holders, DayOf
  <2>. QED BY <1>5, <2>1 DEF DayInv, LocksExclude
<1>7. ASSUME NEW q \in Holders' PROVE StillAvailable(q)'
  <2>1. CASE q = r
    BY <1>3, <1>4, <2>1 DEF StillAvailable, Available
  <2>2. CASE q # r
    <3>1. q \in Holders /\ q \in Requests
      BY <1>5, <1>7 DEF Holders
    <3>. QED BY <1>3, <2>2, <3>1 DEF DayInv, StillAvailable, DayOf
  <2>. QED BY <2>1, <2>2
<1>8. DaysAreNotDoubleBooked'
  BY <1>3 DEF DayInv, DaysAreNotDoubleBooked
<1>. QED BY <1>1, <1>6, <1>7, <1>8 DEF DayInv

\* The other steps of a request take no lock.
LEMMA UnlockedDays ==
  ASSUME DayInv, Basics', NEW r \in Requests,
         request' = [request EXCEPT ![r] = request'[r]],
         request'[r].step \in {"idle", "begun"} \/ request'[r].op = "cancel",
         event' = event
  PROVE  DayInv'
<1>1. \A q \in Requests \ {r} : request'[q] = request[q]
  BY DEF DayInv, Basics, TypeOK
<1>2. \A q \in Holders' : q \in Holders /\ request'[q] = request[q]
  BY <1>1 DEF Holders
<1>3. Confirmed' = Confirmed
  BY DEF Confirmed
<1>. QED BY <1>2, <1>3, FewerKeepDays

LEMMA ReadDays ==
  ASSUME DayInv, NEW r \in Requests, Reads(r)
  PROVE  DayInv'
<1>1. Basics' /\ Basics
  BY BeginBasics, IdleBasics, CheckBasics DEF DayInv, Reads
<1>2. CASE Lock(r) \/ CheckBook(r) \/ CheckReschedule(r)
  BY <1>2, LockDays, CheckDays
<1>3. CASE \E op \in {"book", "reschedule", "cancel"}, i \in Invitations, s \in Slots, h \in Times :
       Begin(r, op, i, s, h)
  <2>1. PICK op \in {"book", "reschedule", "cancel"}, i \in Invitations, s \in Slots, h \in Times :
       Begin(r, op, i, s, h)
    BY <1>3
  <2>. DEFINE x == [step |-> "begun", op |-> op, inv |-> i, slot |-> s, hint |-> h, event |-> invitation[i].event,
                    current |-> TRUE, unchanged |-> TRUE, late |-> FALSE]
  <2>2. request' = [request EXCEPT ![r] = x] /\ x.step = "begun" /\ event' = event
    BY <2>1 DEF Begin
  <2>. HIDE DEF x
  <2>3. request'[r] = x
    BY <1>1, <2>2 DEF Basics, TypeOK
  <2>. QED BY <1>1, <2>2, <2>3, UnlockedDays
<1>4. CASE AnswerBooked(r) \/ AnswerCancelled(r) \/ Fail(r)
  <2>1. request' = [request EXCEPT ![r] = Idle] /\ event' = event
    BY <1>4 DEF AnswerBooked, AnswerCancelled, Fail
  <2>2. request'[r] = Idle
    BY <1>1, <2>1 DEF Basics, TypeOK
  <2>3. Idle.step = "idle"
    BY DEF Idle
  <2>. QED BY <1>1, <2>1, <2>2, <2>3, UnlockedDays
<1>5. CASE CheckCancel(r)
  <2>1. request[r] \in Calls
    BY <1>1, <1>5 DEF CheckCancel, Basics, TypeOK, Idle
  <2>. DEFINE x == [request[r] EXCEPT !.step = "checked", !.unchanged = TRUE,
                                      !.late = request[r].event # invitation[request[r].inv].event]
  <2>2. request' = [request EXCEPT ![r] = x] /\ event' = event
    BY <1>5 DEF CheckCancel
  <2>3. x.op = "cancel"
    BY <1>5, <2>1 DEF CheckCancel, Calls
  <2>. HIDE DEF x
  <2>4. request'[r] = x
    BY <1>1, <2>2 DEF Basics, TypeOK
  <2>. QED BY <1>1, <2>2, <2>3, <2>4, UnlockedDays
<1>. QED BY <1>2, <1>3, <1>4, <1>5 DEF Reads

LEMMA NextDays == DayInv /\ [Next]_vars => DayInv'
<1>. SUFFICES ASSUME DayInv, [Next]_vars PROVE DayInv'
  OBVIOUS
<1>1. CASE UNCHANGED vars
  <2>1. Basics'
    BY <1>1, NextBasics DEF DayInv
  <2>. QED BY <1>1, <2>1, FewerKeepDays DEF vars, Confirmed, Holders
<1>. QED BY <1>1, TransitionDays, BookDays, RescheduleDays, CancelDays, ReadDays DEF Next, Reads

\* Whatever requests race and whatever they hint at, interviews that overlap were
\* booked under different locks.
THEOREM DaysAreSafe == Spec => []DaysAreNotDoubleBooked
<1>1. DayInv => DaysAreNotDoubleBooked
  BY DEF DayInv
<1>. QED BY <1>1, InitDays, NextDays, PTL DEF Spec

\* What the promise of no double booking would take: that the hints near enough to
\* overlapping slots name one day in all invitations.  The zone of the invitation
\* breaks this for honest hints, a hint that nobody compares with its slot breaks it
\* in one zone.
THEOREM SameDaysSuffice ==
  ASSUME \A i, j \in Invitations : \A s, t \in Slots : \A g, h \in Times :
           <<g, s>> \in Near /\ <<h, t>> \in Near /\ <<s, t>> \in Overlap => Day[i][g] = Day[j][h]
  PROVE  Spec => []NoDoubleBooking
<1>1. TypeOK /\ DaysAreNotDoubleBooked => NoDoubleBooking
  <2>. SUFFICES ASSUME TypeOK, DaysAreNotDoubleBooked, NEW d \in Confirmed, NEW e \in Confirmed, d # e
                PROVE  <<event[d].slot, event[e].slot>> \notin Overlap
    BY DEF NoDoubleBooking
  <2>1. \A f \in Confirmed :
          /\ event[f].inv \in Invitations /\ event[f].slot \in Slots
          /\ \E h \in Times : <<h, event[f].slot>> \in Near /\ event[f].day = Day[event[f].inv][h]
    <3>1. \A f \in Confirmed : event[f] \in Interviews
      BY DEF TypeOK, Confirmed, NoInterview
    <3>. QED BY <3>1 DEF Interviews
  <2>2. SUFFICES ASSUME <<event[d].slot, event[e].slot>> \in Overlap
                 PROVE  FALSE
    OBVIOUS
  <2>3. event[d].day # event[e].day
    BY <2>2 DEF DaysAreNotDoubleBooked
  <2>4. PICK g \in Times : <<g, event[d].slot>> \in Near /\ event[d].day = Day[event[d].inv][g]
    BY <2>1
  <2>5. PICK h \in Times : <<h, event[e].slot>> \in Near /\ event[e].day = Day[event[e].inv][h]
    BY <2>1
  <2>6. Day[event[d].inv][g] = Day[event[e].inv][h]
    BY <2>1, <2>2, <2>4, <2>5
  <2>. QED BY <2>3, <2>4, <2>5, <2>6
<1>. QED BY <1>1, TypeCorrect, DaysAreSafe, PTL

-----------------------------------------------------------------------------
(* Appointments: what candidates are told *)

\* A cancellation that is still to commit cancels the appointment itself, unless it
\* knows already that it does not.
CancelsIt(r) ==
  request[r].step = "checked" /\ request[r].op = "cancel" /\ request[r].unchanged /\ ~request[r].late
    => invitation[request[r].inv].event = request[r].event

AsTold(i) ==
  /\ \A e \in Confirmed : event[e].inv = i => e = invitation[i].event
  /\ i \notin misled => (told[i] = "booked" <=> invitation[i].event \in Confirmed)

ToldInv ==
  /\ Basics
  /\ \A r \in Requests : request[r] # Idle => CancelsIt(r)
  /\ \A i \in Invitations : AsTold(i)

LEMMA ToldIsAsTold == ToldInv => AppointmentsAreAsTold
<1>. SUFFICES ASSUME ToldInv, NEW i \in Invitations
              PROVE  LET confirmed == {e \in Confirmed : event[e].inv = i} IN
                     /\ confirmed \subseteq {invitation[i].event}
                     /\ i \notin misled => (told[i] = "booked" <=> confirmed # {})
  BY DEF AppointmentsAreAsTold
<1>1. AsTold(i) /\ Booked(i)
  BY DEF ToldInv, Basics
<1>2. invitation[i].event \in Confirmed => event[invitation[i].event].inv = i
  BY <1>1, NoEventIsNone DEF Booked, Confirmed
<1>. QED BY <1>1, <1>2 DEF AsTold

LEMMA InitTold == Init => ToldInv
<1>. SUFFICES ASSUME Init PROVE ToldInv
  OBVIOUS
<1>1. Confirmed = {}
  BY DEF Init, Confirmed, NoInterview
<1>2. \A i \in Invitations : told[i] = "nothing"
  BY DEF Init
<1>3. \A i \in Invitations : AsTold(i)
  BY <1>1, <1>2 DEF AsTold
<1>. QED BY <1>3, InitBasics DEF Init, ToldInv

\* Steps of r that tell nobody anything but the candidate of r.
LEMMA ReadKeepsTold ==
  ASSUME ToldInv, Basics', NEW r \in Requests,
         \A q \in Requests \ {r} : request'[q] = request[q],
         UNCHANGED <<invitation, event>>,
         request'[r] # Idle => CancelsIt(r)',
         \A i \in Invitations : AsTold(i)'
  PROVE  ToldInv'
<1>1. ASSUME NEW q \in Requests, request'[q] # Idle PROVE CancelsIt(q)'
  <2>1. CASE q = r
    BY <1>1, <2>1
  <2>2. CASE q # r
    BY <1>1, <2>2 DEF ToldInv, CancelsIt
  <2>. QED BY <2>1, <2>2
<1>. QED BY <1>1 DEF ToldInv

LEMMA SilentKeepsAsTold ==
  ASSUME ToldInv, UNCHANGED <<invitation, event, told, misled>>
  PROVE  \A i \in Invitations : AsTold(i)'
BY DEF ToldInv, AsTold, Confirmed

LEMMA CommitKeepsTold ==
  ASSUME ToldInv, Basics', NEW I, NEW E,
         \A q \in Requests : request'[q] \in {Idle, Stale(I, E)[q]},
         \A i \in Invitations : invitation'[i].event = invitation[i].event \/ invitation[i].event \in E \cup {NoEvent},
         \A i \in Invitations : AsTold(i)'
  PROVE  ToldInv'
<1>1. ASSUME NEW q \in Requests, request'[q] # Idle PROVE CancelsIt(q)'
  <2>1. request'[q] = Stale(I, E)[q] /\ request[q] # Idle
    BY <1>1, StaleIdle
  <2>2. /\ request[q] \in Calls
        /\ request'[q].step = request[q].step
        /\ request'[q].op = request[q].op
        /\ request'[q].inv = request[q].inv
        /\ request'[q].event = request[q].event
        /\ request'[q].late = request[q].late
        /\ request'[q].unchanged = (request[q].unchanged /\ request[q].event \notin E)
    BY <2>1, StaleCall DEF ToldInv, Basics
  <2>3. SUFFICES ASSUME request[q].step = "checked", request[q].op = "cancel", request'[q].unchanged,
                        ~request[q].late
                 PROVE  invitation'[request[q].inv].event = request[q].event
    BY <2>2 DEF CancelsIt
  <2>4. request[q].unchanged /\ request[q].event \notin E
    BY <2>2, <2>3
  <2>5. invitation[request[q].inv].event = request[q].event
    BY <2>1, <2>3, <2>4 DEF ToldInv, CancelsIt
  <2>6. request[q].inv \in Invitations /\ request[q].event # NoEvent
    BY <2>1, <2>3, KnownEvent, NoEventIsNone DEF ToldInv
  <2>. QED BY <2>4, <2>5, <2>6
<1>. QED BY <1>1 DEF ToldInv

LEMMA TransitionTold ==
  ASSUME ToldInv, NEW i \in Invitations, NEW status \in Statuses, Transition(i, status)
  PROVE  ToldInv'
<1>1. Basics'
  BY TransitionBasics DEF ToldInv
<1>2. /\ \A j \in Invitations : invitation'[j].event = invitation[j].event
      /\ UNCHANGED <<event, told, misled>>
      /\ \A q \in Requests : request'[q] \in {Idle, Stale({i}, {})[q]}
  BY DEF Transition, ToldInv, Basics, TypeOK
<1>3. \A j \in Invitations : AsTold(j)'
  BY <1>2 DEF ToldInv, AsTold, Confirmed
<1>. QED BY <1>1, <1>2, <1>3, CommitKeepsTold

LEMMA BookTold ==
  ASSUME ToldInv, NEW r \in Requests, NEW e \in Events, Book(r, e)
  PROVE  ToldInv'
<1>. DEFINE i == request[r].inv
<1>1. Basics /\ Basics'
  BY BookBasics DEF ToldInv
<1>2. request[r] \in Calls /\ request[r] # Idle
  BY <1>1 DEF Book, Basics, TypeOK, Idle
<1>3. i \in Invitations /\ invitation[i].event = NoEvent
  <2>1. i \in Invitations
    BY <1>2 DEF Calls
  <2>2. invitation[i].status = "opened"
    BY <1>1, <1>2 DEF Book, Basics, Vouched
  <2>. QED BY <1>1, <2>1, <2>2 DEF Basics, TypeOK
<1>4. /\ event' = [event EXCEPT ![e] = Interview(request[r])]
      /\ invitation' = [invitation EXCEPT ![i] = [status |-> "booked", event |-> e]]
      /\ request' = [Stale({i}, {}) EXCEPT ![r] = Idle]
      /\ told' = [told EXCEPT ![i] = "booked"]
      /\ misled' = misled \ {i}
      /\ event[e] = NoInterview
  BY DEF Book, Answered, Free
<1>5. Interview(request[r]).status = "confirmed" /\ Interview(request[r]).inv = i
  BY DEF Interview
<1>. HIDE DEF i
<1>6. /\ Confirmed' = Confirmed \cup {e} /\ e \notin Confirmed
      /\ \A d \in Confirmed : event'[d] = event[d]
      /\ event'[e].inv = i
      /\ invitation'[i].event = e /\ told'[i] = "booked"
      /\ \A j \in Invitations \ {i} : invitation'[j] = invitation[j] /\ told'[j] = told[j]
  BY <1>1, <1>3, <1>4, <1>5 DEF Basics, TypeOK, Confirmed, NoInterview
<1>7. NoEvent \notin Confirmed
  BY NoEventIsNone DEF Confirmed
<1>8. ASSUME NEW j \in Invitations PROVE AsTold(j)'
  <2>1. AsTold(j) /\ Booked(j)
    BY <1>1 DEF ToldInv, Basics
  <2>2. CASE j = i
    BY <1>3, <1>6, <1>7, <2>1, <2>2 DEF AsTold
  <2>3. CASE j # i
    <3>1. invitation[j].event # e
      BY <1>4, <2>1, NoEventIsNone DEF Booked
    <3>. QED BY <1>4, <1>6, <2>1, <2>3, <3>1 DEF AsTold
  <2>. QED BY <2>2, <2>3
<1>9. \A q \in Requests : request'[q] \in {Idle, Stale({i}, {})[q]}
  BY <1>1, <1>4, StaleTypes DEF Basics
<1>10. \A j \in Invitations : invitation'[j].event = invitation[j].event \/ invitation[j].event \in {} \cup {NoEvent}
  BY <1>3, <1>6
<1>. QED BY <1>1, <1>8, <1>9, <1>10, CommitKeepsTold

LEMMA RescheduleTold ==
  ASSUME ToldInv, NEW r \in Requests, NEW e \in Events, Reschedule(r, e)
  PROVE  ToldInv'
<1>. DEFINE i == request[r].inv
            d == request[r].event
            moved == [event[d] EXCEPT !.status = "rescheduled"]
<1>1. Basics /\ Basics'
  BY RescheduleBasics DEF ToldInv
<1>2. /\ i \in Invitations /\ d \in Events /\ event[d] \in Interviews
      /\ invitation[i].event = d
  <2>1. request[r] # Idle /\ request[r].op # "book" /\ request[r].current
    BY DEF Reschedule, Idle
  <2>. QED BY <1>1, <2>1, KnownEvent DEF Basics, Vouched
<1>3. /\ event' = [event EXCEPT ![d] = moved, ![e] = Interview(request[r])]
      /\ invitation' = [invitation EXCEPT ![i].event = e]
      /\ request' = [Stale({i}, {d}) EXCEPT ![r] = Idle]
      /\ told' = [told EXCEPT ![i] = "booked"]
      /\ misled' = misled \ {i}
      /\ event[e] = NoInterview
  BY DEF Reschedule, Answered, Free
<1>4. /\ Interview(request[r]).status = "confirmed" /\ Interview(request[r]).inv = i
      /\ moved.status = "rescheduled"
  BY <1>2 DEF Interview, Interviews
<1>5. d # e
  BY <1>2, <1>3, CallIsNotIdle
<1>. HIDE DEF i, d, moved
<1>6. /\ event'[d] = moved /\ event'[e] = Interview(request[r])
      /\ \A f \in Events \ {d, e} : event'[f] = event[f]
      /\ invitation'[i].event = e /\ told'[i] = "booked"
      /\ \A j \in Invitations \ {i} : invitation'[j] = invitation[j] /\ told'[j] = told[j]
  BY <1>1, <1>2, <1>3, <1>5 DEF Basics, TypeOK
<1>7. /\ Confirmed' = (Confirmed \ {d}) \cup {e} /\ e \notin Confirmed
      /\ \A f \in Confirmed' \ {e} : event'[f] = event[f]
  <2>1. event[e].status # "confirmed"
    BY <1>3 DEF NoInterview
  <2>2. event'[e].status = "confirmed" /\ event'[d].status # "confirmed"
    BY <1>4, <1>6
  <2>. QED BY <1>6, <2>1, <2>2 DEF Confirmed
<1>8. ASSUME NEW j \in Invitations PROVE AsTold(j)'
  <2>1. AsTold(j) /\ Booked(j)
    BY <1>1 DEF ToldInv, Basics
  <2>2. CASE j = i
    BY <1>2, <1>4, <1>6, <1>7, <2>1, <2>2 DEF AsTold
  <2>3. CASE j # i
    <3>1. invitation[j].event # e /\ invitation[j].event # d
      BY <1>1, <1>2, <1>3, <2>1, <2>3, NoEventIsNone DEF Booked, Basics
    <3>2. \A f \in Confirmed' : event'[f].inv = j => f \in Confirmed /\ event[f].inv = j
      BY <1>4, <1>6, <1>7, <2>3
    <3>3. /\ invitation'[j].event = invitation[j].event /\ told'[j] = told[j]
          /\ j \notin misled' => j \notin misled
          /\ invitation[j].event \in Confirmed' <=> invitation[j].event \in Confirmed
      BY <1>3, <1>6, <1>7, <2>3, <3>1
    <3>. QED BY <2>1, <3>2, <3>3 DEF AsTold
  <2>. QED BY <2>2, <2>3
<1>9. \A q \in Requests : request'[q] \in {Idle, Stale({i}, {d})[q]}
  BY <1>1, <1>3, StaleTypes DEF Basics
<1>10. \A j \in Invitations : invitation'[j].event = invitation[j].event \/ invitation[j].event \in {d} \cup {NoEvent}
  BY <1>2, <1>6
<1>. QED BY <1>1, <1>8, <1>9, <1>10, CommitKeepsTold

LEMMA CancelTold ==
  ASSUME ToldInv, NEW r \in Requests, Cancel(r)
  PROVE  ToldInv'
<1>. DEFINE i == request[r].inv
            d == request[r].event
            gone == [event[d] EXCEPT !.status = "cancelled"]
<1>1. Basics /\ Basics'
  BY CancelBasics DEF ToldInv
<1>2. request[r] # Idle /\ request[r].op # "book"
  BY DEF Cancel, Idle
<1>3. /\ i \in Invitations /\ d \in Events
      /\ event[d] \in Interviews /\ event[d].inv = i
  BY <1>1, <1>2, KnownEvent
<1>4. ~request[r].late => invitation[i].event = d
  BY <1>2 DEF Cancel, ToldInv, CancelsIt
<1>5. /\ event' = [event EXCEPT ![d] = gone] /\ gone.status = "cancelled"
      /\ invitation' = invitation
      /\ request' = [Stale({}, {d}) EXCEPT ![r] = Idle]
      /\ told' = [told EXCEPT ![i] = "cancelled"]
      /\ \/ misled' = misled \cup {i}
         \/ misled' = misled \ {i} /\ invitation[i].event = d
  BY <1>3, <1>4 DEF Cancel, Interviews
<1>. HIDE DEF i, d, gone
<1>6. /\ Confirmed' = Confirmed \ {d}
      /\ \A f \in Confirmed' : event'[f] = event[f]
      /\ told'[i] = "cancelled"
      /\ \A j \in Invitations \ {i} : told'[j] = told[j]
  BY <1>1, <1>3, <1>5 DEF Basics, TypeOK, Confirmed
<1>7. ASSUME NEW j \in Invitations PROVE AsTold(j)'
  <2>1. AsTold(j) /\ Booked(j)
    BY <1>1 DEF ToldInv, Basics
  <2>2. CASE j = i
    BY <1>5, <1>6, <2>1, <2>2 DEF AsTold
  <2>3. CASE j # i
    <3>1. invitation[j].event # d
      BY <1>3, <2>1, <2>3, NoEventIsNone DEF Booked
    <3>. QED BY <1>5, <1>6, <2>1, <2>3, <3>1 DEF AsTold
  <2>. QED BY <2>2, <2>3
<1>8. \A q \in Requests : request'[q] \in {Idle, Stale({}, {d})[q]}
  BY <1>1, <1>5, StaleTypes DEF Basics
<1>. QED BY <1>1, <1>5, <1>7, <1>8, CommitKeepsTold

LEMMA ReadTold ==
  ASSUME ToldInv, NEW r \in Requests, Reads(r)
  PROVE  ToldInv'
<1>1. Basics' /\ Basics
  BY BeginBasics, IdleBasics, CheckBasics DEF ToldInv, Reads
<1>2. UNCHANGED <<invitation, event>> /\ \A q \in Requests \ {r} : request'[q] = request[q]
  BY <1>1 DEF Reads, Begin, Lock, CheckBook, AnswerBooked, CheckReschedule, CheckCancel, AnswerCancelled,
              Fail, Basics, TypeOK
<1>3. CASE \E op \in {"book", "reschedule", "cancel"}, i \in Invitations, s \in Slots, h \in Times :
       Begin(r, op, i, s, h)
  <2>1. UNCHANGED <<told, misled>>
    BY <1>3 DEF Begin
  <2>2. request'[r].step = "begun"
    BY <1>1, <1>3 DEF Begin, Basics, TypeOK
  <2>. QED BY <1>1, <1>2, <2>1, <2>2, ReadKeepsTold, SilentKeepsAsTold DEF CancelsIt
<1>4. CASE Lock(r) \/ CheckBook(r) \/ CheckReschedule(r)
  <2>1. UNCHANGED <<told, misled>>
    BY <1>4 DEF Lock, CheckBook, CheckReschedule
  <2>2. request[r] \in Calls
    BY <1>1, <1>4 DEF Lock, CheckBook, CheckReschedule, Basics, TypeOK, Idle
  <2>3. request[r].op # "cancel"
    BY <1>4 DEF Lock, CheckBook, CheckReschedule
  <2>4. DOMAIN request = Requests
    BY <1>1 DEF Basics, TypeOK
  <2>5. request'[r].op = request[r].op
    <3>1. CASE Lock(r)
      BY <2>2, <2>4, <3>1 DEF Lock, Calls
    <3>2. CASE CheckBook(r)
      BY <2>2, <2>4, <3>2 DEF CheckBook, Calls
    <3>3. CASE CheckReschedule(r)
      BY <2>2, <2>4, <3>3 DEF CheckReschedule, Calls
    <3>. QED BY <1>4, <3>1, <3>2, <3>3
  <2>. QED BY <1>1, <1>2, <2>1, <2>3, <2>5, ReadKeepsTold, SilentKeepsAsTold DEF CancelsIt
<1>5. CASE CheckCancel(r)
  <2>1. UNCHANGED <<told, misled>>
    BY <1>5 DEF CheckCancel
  <2>2. request[r] \in Calls
    BY <1>1, <1>5 DEF CheckCancel, Basics, TypeOK, Idle
  <2>3. /\ request'[r].inv = request[r].inv /\ request'[r].event = request[r].event
        /\ request'[r].late = (request[r].event # invitation[request[r].inv].event)
    BY <1>1, <1>5, <2>2 DEF CheckCancel, Basics, TypeOK, Calls
  <2>. QED BY <1>1, <1>2, <2>1, <2>3, ReadKeepsTold, SilentKeepsAsTold DEF CancelsIt
<1>6. CASE Fail(r)
  <2>1. UNCHANGED <<told, misled>> /\ request'[r] = Idle
    BY <1>1, <1>6 DEF Fail, Basics, TypeOK
  <2>. QED BY <1>1, <1>2, <2>1, ReadKeepsTold, SilentKeepsAsTold
<1>7. CASE AnswerBooked(r)
  <2>. DEFINE i == request[r].inv
  <2>1. request[r] \in Calls /\ request'[r] = Idle
    BY <1>1, <1>7 DEF AnswerBooked, Basics, TypeOK, Idle
  <2>2. i \in Invitations
    BY <2>1 DEF Calls
  <2>3. /\ told' = [told EXCEPT ![i] = "booked"]
        /\ IF invitation[i].event \in Confirmed THEN misled' = misled \ {i} ELSE misled' = misled \cup {i}
    BY <1>7 DEF AnswerBooked
  <2>. HIDE DEF i
  <2>4. ASSUME NEW j \in Invitations PROVE AsTold(j)'
    <3>1. Confirmed' = Confirmed
      BY <1>2 DEF Confirmed
    <3>2. AsTold(j)
      BY DEF ToldInv
    <3>. QED BY <1>1, <1>2, <2>2, <2>3, <3>1, <3>2 DEF AsTold, Basics, TypeOK
  <2>. QED BY <1>1, <1>2, <2>1, <2>4, ReadKeepsTold
<1>8. CASE AnswerCancelled(r)
  <2>. DEFINE i == request[r].inv
  <2>1. request[r] \in Calls /\ request'[r] = Idle
    BY <1>1, <1>8 DEF AnswerCancelled, Basics, TypeOK, Idle
  <2>2. i \in Invitations
    BY <2>1 DEF Calls
  <2>3. /\ told' = [told EXCEPT ![i] = "cancelled"]
        /\ request[r].event \notin Confirmed
        /\ IF request[r].event = invitation[i].event THEN misled' = misled \ {i} ELSE misled' = misled \cup {i}
    BY <1>8 DEF AnswerCancelled, Confirmed
  <2>. HIDE DEF i
  <2>4. ASSUME NEW j \in Invitations PROVE AsTold(j)'
    <3>1. Confirmed' = Confirmed
      BY <1>2 DEF Confirmed
    <3>2. AsTold(j)
      BY DEF ToldInv
    <3>. QED BY <1>1, <1>2, <2>2, <2>3, <3>1, <3>2 DEF AsTold, Basics, TypeOK
  <2>. QED BY <1>1, <1>2, <2>1, <2>4, ReadKeepsTold
<1>. QED BY <1>3, <1>4, <1>5, <1>6, <1>7, <1>8 DEF Reads

LEMMA NextTold == ToldInv /\ [Next]_vars => ToldInv'
<1>. SUFFICES ASSUME ToldInv, [Next]_vars PROVE ToldInv'
  OBVIOUS
<1>1. CASE UNCHANGED vars
  <2>1. Basics'
    BY <1>1, NextBasics DEF ToldInv
  <2>. QED BY <1>1, <2>1, SilentKeepsAsTold DEF vars, ToldInv, CancelsIt
<1>. QED BY <1>1, TransitionTold, BookTold, RescheduleTold, CancelTold, ReadTold DEF Next, Reads

\* The version guards are enough: whatever requests race for an appointment, the
\* calendar holds what its candidate was told last, but for the two answers that look
\* at something else.
THEOREM AppointmentsAreKept == Spec => []AppointmentsAreAsTold
BY InitTold, NextTold, ToldIsAsTold, PTL DEF Spec

-----------------------------------------------------------------------------
(* Interview sessions *)

\* No decision has two rows.
RowsDiffer == \A i, j \in DOMAIN rows : i # j => rows[i].decision # rows[j].decision

\* Nothing has moved the session since a request that is still fresh began.
FreshIsLegal(c) ==
  open[c].fresh =>
    /\ open[c].op \in Operations
    /\ session.state # "not_started"
    /\ Target[open[c].op] \in SessionTransitions[session.state]

\* A session that billed is over.
ReportEnds == report # Unreported => session.state \in {"processing", "failed", "abandoned"}

\* Until then its hold, if any, is open, but for the sweep.
OpenUntilReport ==
  /\ hold.state = "none" => hold = NoHold
  /\ report = Unreported /\ ~swept => hold.state \in {"none", "reserved"}

\* What the rows grant the candidate has said, or said otherwise off the record.
GrantWasSaid == Granted => word \in {"accepted", "unheard"}

SessionInv ==
  /\ SessionTypeOK
  /\ RowsDiffer
  /\ \A c \in Clients : FreshIsLegal(c)
  /\ HeldOnlyWhileOpen
  /\ ReportEnds
  /\ OpenUntilReport
  /\ FirstReportIsCharged
  /\ GrantWasSaid
  /\ ConsentIsTheLastWord

\* Rows and their places.
LEMMA PlacesOf ==
  ASSUME NEW S, NEW s \in Seq(S)
  PROVE  /\ Len(s) \in Nat
         /\ DOMAIN s = 1 .. Len(s)
         /\ \A i \in 1 .. Len(s) : s[i] \in S
OBVIOUS

LEMMA SessionStarts == SessionInit => SessionInv
<1>. SUFFICES ASSUME SessionInit PROVE SessionInv
  OBVIOUS
<1>1. SessionTypeOK
  <2>1. session \in [state : States, billed : Minutes] /\ hold \in [state : {"none", "reserved", "settled", "released"}, settled : 0 .. Maximum]
    BY SessionAssumption DEF SessionInit, States, Minutes, NoHold
  <2>2. open \in [Clients -> [op : {"none"} \cup Operations, billed : Minutes, fresh : BOOLEAN,
                             said : {"none", "accepted", "declined", "withdrawn", "unheard"}]]
    BY SessionAssumption DEF SessionInit, NoRequest, Minutes
  <2>3. rows \in Seq([decision : {"accepted", "declined"}, withdrawn : BOOLEAN]) /\ Len(rows) <= 2
    BY DEF SessionInit
  <2>. QED BY <2>1, <2>2, <2>3 DEF SessionInit, SessionTypeOK
<1>2. RowsDiffer /\ ~Granted
  BY DEF SessionInit, RowsDiffer, Granted
<1>3. \A c \in Clients : FreshIsLegal(c) /\ ~Asks(open[c].op)
  BY DEF SessionInit, FreshIsLegal, NoRequest, Asks
<1>4. HeldOnlyWhileOpen /\ ReportEnds /\ OpenUntilReport /\ FirstReportIsCharged
  BY DEF SessionInit, HeldOnlyWhileOpen, ReportEnds, OpenUntilReport, FirstReportIsCharged, NoHold, Unreported
<1>. QED BY <1>1, <1>2, <1>3, <1>4 DEF SessionInv, GrantWasSaid, ConsentIsTheLastWord

\* The rows and what they grant, under a step of the candidate.
LEMMA DecideKeeps ==
  ASSUME SessionInv, NEW d \in {"accepted", "declined"}, Decide(d)
  PROVE  SessionInv'
<1>. DEFINE Decisions == [decision : {"accepted", "declined"}, withdrawn : BOOLEAN]
            row == [decision |-> d, withdrawn |-> FALSE]
<1>1. rows \in Seq(Decisions) /\ Len(rows) <= 2 /\ row \in Decisions
  BY DEF SessionInv, SessionTypeOK
<1>2. /\ Len(rows) \in Nat /\ DOMAIN rows = 1 .. Len(rows)
      /\ \A i \in 1 .. Len(rows) : rows[i] \in Decisions
  BY <1>1, PlacesOf
<1>3. /\ rows' \in Seq(Decisions) /\ Len(rows') <= 2
      /\ RowsDiffer'
      /\ GrantWasSaid'
  <2>1. CASE Decided(d)
    <3>1. rows' = rows /\ word' = (IF rows[Len(rows)].decision # d THEN "unheard" ELSE d)
      BY <2>1 DEF Decide
    <3>2. GrantWasSaid'
      BY <3>1 DEF GrantWasSaid, Granted
    <3>. QED BY <1>1, <3>1, <3>2 DEF SessionInv, RowsDiffer
  <2>2. CASE ~Decided(d)
    <3>1. rows' = Append(rows, row) /\ word' = d
      BY <2>2 DEF Decide
    <3>2. Len(rows) <= 1
      <4>. SUFFICES ASSUME Len(rows) = 2 PROVE FALSE
        BY <1>1, <1>2
      <4>1. rows[1].decision # rows[2].decision /\ rows[1].decision # d /\ rows[2].decision # d
        BY <1>2, <2>2 DEF SessionInv, RowsDiffer, Decided
      <4>. QED BY <1>2, <4>1
    <3>3. /\ Len(rows') = Len(rows) + 1
          /\ DOMAIN rows' = 1 .. Len(rows) + 1
          /\ rows'[Len(rows) + 1] = row
          /\ \A i \in 1 .. Len(rows) : rows'[i] = rows[i]
      BY <1>1, <3>1
    <3>4. RowsDiffer'
      BY <1>1, <1>2, <2>2, <3>3 DEF SessionInv, RowsDiffer, Decided
    <3>5. GrantWasSaid'
      BY <1>1, <3>1, <3>3 DEF GrantWasSaid, Granted
    <3>. QED BY <1>1, <3>1, <3>2, <3>3, <3>4, <3>5
  <2>. QED BY <2>1, <2>2
<1>4. UNCHANGED <<session, hold, open, report, swept>> /\ word' \in {"unheard", "accepted", "declined"}
  BY DEF Decide
<1>5. SessionTypeOK'
  BY <1>3, <1>4 DEF SessionInv, SessionTypeOK
<1>. QED BY <1>3, <1>4, <1>5 DEF SessionInv, FreshIsLegal, HeldOnlyWhileOpen, ReportEnds, OpenUntilReport,
            FirstReportIsCharged, ConsentIsTheLastWord

LEMMA WithdrawKeeps ==
  ASSUME SessionInv, Withdraw
  PROVE  SessionInv'
<1>. DEFINE Decisions == [decision : {"accepted", "declined"}, withdrawn : BOOLEAN]
            After(i) == [rows[i] EXCEPT !.withdrawn = @ \/ rows[i].decision = "accepted"]
<1>1. rows \in Seq(Decisions) /\ Len(rows) <= 2
  BY DEF SessionInv, SessionTypeOK
<1>2. /\ Len(rows) \in Nat /\ DOMAIN rows = 1 .. Len(rows)
      /\ \A i \in 1 .. Len(rows) : rows[i] \in Decisions
  BY <1>1, PlacesOf
<1>3. rows' = [i \in 1 .. Len(rows) |-> After(i)]
  BY <1>2 DEF Withdraw
<1>4. \A i \in 1 .. Len(rows) : /\ After(i) \in Decisions
                                /\ After(i).decision = rows[i].decision
                                /\ After(i).decision = "accepted" => After(i).withdrawn
  BY <1>2
<1>. HIDE DEF After
<1>5. rows' \in Seq(Decisions) /\ Len(rows') = Len(rows)
  BY <1>1, <1>3, <1>4
<1>6. \A i \in 1 .. Len(rows) : rows'[i] = After(i)
  BY <1>3
<1>7. RowsDiffer'
  BY <1>2, <1>3, <1>4, <1>6 DEF SessionInv, RowsDiffer
<1>8. ~Granted'
  <2>. SUFFICES ASSUME rows' # <<>> PROVE rows'[Len(rows')].decision = "accepted" => rows'[Len(rows')].withdrawn
    BY DEF Granted
  <2>1. Len(rows') \in 1 .. Len(rows)
    BY <1>2, <1>5
  <2>. QED BY <1>4, <1>6, <2>1
<1>9. UNCHANGED <<session, hold, open, report, swept>> /\ word' = "withdrawn"
  BY DEF Withdraw
<1>10. SessionTypeOK'
  BY <1>1, <1>5, <1>9 DEF SessionInv, SessionTypeOK
<1>. QED BY <1>7, <1>8, <1>9, <1>10 DEF SessionInv, FreshIsLegal, HeldOnlyWhileOpen, ReportEnds, OpenUntilReport,
            FirstReportIsCharged, ConsentIsTheLastWord, GrantWasSaid

\* What a step that leaves the candidate alone need not show.
LEMMA CandidateKeeps ==
  ASSUME SessionInv, UNCHANGED <<rows, word>>
  PROVE  RowsDiffer' /\ GrantWasSaid'
BY DEF SessionInv, RowsDiffer, GrantWasSaid, Granted

LEMMA StartKeeps ==
  ASSUME SessionInv, Start
  PROVE  SessionInv'
<1>1. SessionTypeOK'
  BY DEF Start, SessionInv, SessionTypeOK, States
<1>2. /\ session.state = "not_started" /\ session'.state = "consent_pending"
      /\ UNCHANGED <<hold, rows, open, word, report, swept>>
  BY DEF Start, SessionInv, SessionTypeOK
<1>3. \A c \in Clients : ~open[c].fresh
  BY <1>2 DEF SessionInv, FreshIsLegal
<1>. QED BY <1>1, <1>2, <1>3, CandidateKeeps DEF SessionInv, FreshIsLegal, HeldOnlyWhileOpen, ReportEnds,
            OpenUntilReport, FirstReportIsCharged, ConsentIsTheLastWord

LEMMA ReceiveKeeps ==
  ASSUME SessionInv, NEW c \in Clients, NEW op \in Operations, NEW billed \in Minutes, Receive(c, op, billed)
  PROVE  SessionInv'
<1>1. /\ open' = [open EXCEPT ![c] = [op |-> op, billed |-> billed, fresh |-> TRUE, said |-> word]]
      /\ UNCHANGED <<session, hold, rows, word, report, swept>>
      /\ session.state # "not_started" /\ Target[op] \in SessionTransitions[session.state]
      /\ Asks(op) => Granted
  BY DEF Receive
<1>2. /\ open'[c] = [op |-> op, billed |-> billed, fresh |-> TRUE, said |-> word]
      /\ \A d \in Clients \ {c} : open'[d] = open[d]
  BY <1>1 DEF SessionInv, SessionTypeOK
<1>3. SessionTypeOK'
  BY <1>1 DEF SessionInv, SessionTypeOK
<1>4. \A d \in Clients : FreshIsLegal(d)'
  BY <1>1, <1>2 DEF SessionInv, FreshIsLegal
<1>5. ConsentIsTheLastWord'
  BY <1>1, <1>2 DEF SessionInv, ConsentIsTheLastWord, GrantWasSaid
<1>. QED BY <1>1, <1>3, <1>4, <1>5, CandidateKeeps DEF SessionInv, HeldOnlyWhileOpen, ReportEnds, OpenUntilReport,
            FirstReportIsCharged

\* The transition of one client leaves no other request fresh.
LEMMA MovedKeeps ==
  ASSUME SessionInv, NEW c \in Clients, open' = Moved(c)
  PROVE  /\ open' \in [Clients -> [op : {"none"} \cup Operations, billed : Minutes, fresh : BOOLEAN,
                                   said : {"none", "accepted", "declined", "withdrawn", "unheard"}]]
         /\ \A d \in Clients : FreshIsLegal(d)'
         /\ ConsentIsTheLastWord'
<1>1. \A d \in Clients : open'[d] = IF d = c THEN NoRequest ELSE [open[d] EXCEPT !.fresh = FALSE]
  BY DEF Moved
<1>2. ASSUME NEW d \in Clients
      PROVE  /\ open'[d] \in [op : {"none"} \cup Operations, billed : Minutes, fresh : BOOLEAN,
                              said : {"none", "accepted", "declined", "withdrawn", "unheard"}]
             /\ ~open'[d].fresh
             /\ \/ open'[d].op = "none"
                \/ open'[d].op = open[d].op /\ open'[d].said = open[d].said
  <2>1. NoRequest \in [op : {"none"} \cup Operations, billed : Minutes, fresh : BOOLEAN,
                       said : {"none", "accepted", "declined", "withdrawn", "unheard"}]
    BY SessionAssumption DEF NoRequest, Minutes
  <2>2. open[d] \in [op : {"none"} \cup Operations, billed : Minutes, fresh : BOOLEAN,
                     said : {"none", "accepted", "declined", "withdrawn", "unheard"}]
    BY DEF SessionInv, SessionTypeOK
  <2>3. CASE d = c
    <3>1. open'[d] = NoRequest
      BY <1>1, <2>3
    <3>2. NoRequest.op = "none" /\ NoRequest.fresh = FALSE
      BY DEF NoRequest
    <3>. QED BY <2>1, <3>1, <3>2
  <2>4. CASE d # c
    <3>1. open'[d] = [open[d] EXCEPT !.fresh = FALSE]
      BY <1>1, <2>4
    <3>2. /\ open'[d] \in [op : {"none"} \cup Operations, billed : Minutes, fresh : BOOLEAN,
                           said : {"none", "accepted", "declined", "withdrawn", "unheard"}]
          /\ open'[d].op = open[d].op /\ open'[d].said = open[d].said
      BY <2>2, <3>1
    <3>3. open'[d].fresh = FALSE
      BY <2>2, <3>1
    <3>. QED BY <3>2, <3>3
  <2>. QED BY <2>3, <2>4
<1>3. \A d \in Clients : FreshIsLegal(d)'
  BY <1>2 DEF FreshIsLegal
<1>4. ConsentIsTheLastWord'
  BY <1>2 DEF SessionInv, ConsentIsTheLastWord, Asks
<1>5. DOMAIN open' = Clients
  BY DEF Moved
<1>6. open' = [d \in Clients |-> open'[d]]
  BY DEF Moved
<1>. QED BY <1>2, <1>3, <1>4, <1>6

\* What a request that is still fresh finds.
LEMMA FreshRequest ==
  ASSUME SessionInv, NEW c \in Clients, Current(c)
  PROVE  /\ open[c].op \in Operations /\ open[c].billed \in Minutes
         /\ session.state \in States \ {"not_started"}
         /\ Target[open[c].op] \in SessionTransitions[session.state]
<1>1. open[c].fresh /\ open[c].billed \in Minutes /\ session.state \in States
  BY DEF Current, SessionInv, SessionTypeOK
<1>. QED BY <1>1 DEF SessionInv, FreshIsLegal

LEMMA ProceedKeeps ==
  ASSUME SessionInv, NEW c \in Clients, Proceed(c)
  PROVE  SessionInv'
<1>. DEFINE op == open[c].op
<1>1. /\ op \in {"ready", "live", "pause", "resume"}
      /\ session.state \in States \ {"not_started"}
      /\ Target[op] \in SessionTransitions[session.state]
  BY FreshRequest DEF Proceed, Operations, Closes
<1>2. /\ hold' = IF op = "live" THEN Reserved ELSE hold
      /\ session' = [session EXCEPT !.state = Target[op]]
      /\ open' = Moved(c)
      /\ UNCHANGED <<rows, word, report, swept>>
  BY DEF Proceed
<1>. HIDE DEF op
<1>3. session'.state = Target[op] /\ Target[op] \in {"ready", "live", "paused"}
      /\ session'.state \in States
      /\ session' \in [state : States, billed : Minutes]
  BY <1>1, <1>2 DEF SessionInv, SessionTypeOK, Target, States
<1>4. session.state \notin {"processing", "failed", "abandoned"}
  BY <1>1, <1>3 DEF SessionTransitions
<1>5. hold' \in [state : {"none", "reserved", "settled", "released"}, settled : 0 .. Maximum]
  BY <1>2, SessionAssumption DEF SessionInv, SessionTypeOK, Reserved
<1>6. SessionTypeOK'
  BY <1>2, <1>3, <1>5, MovedKeeps DEF SessionInv, SessionTypeOK
<1>7. report = Unreported
  BY <1>4 DEF SessionInv, ReportEnds
<1>8. HeldOnlyWhileOpen'
  <2>1. CASE op = "live"
    BY <1>3, <2>1 DEF HeldOnlyWhileOpen, Target
  <2>2. CASE op # "live"
    <3>1. session.state \in {"live", "paused"} => Target[op] \in {"live", "paused"}
      BY <1>1, <1>3 DEF SessionTransitions
    <3>. QED BY <1>2, <1>3, <2>2, <3>1 DEF SessionInv, HeldOnlyWhileOpen
  <2>. QED BY <2>1, <2>2
<1>9. OpenUntilReport'
  BY <1>2 DEF SessionInv, OpenUntilReport, Reserved, NoHold
<1>. QED BY <1>2, <1>6, <1>7, <1>8, <1>9, CandidateKeeps, MovedKeeps DEF SessionInv, ReportEnds, FirstReportIsCharged

LEMMA CloseKeeps ==
  ASSUME SessionInv, NEW c \in Clients, Close(c)
  PROVE  SessionInv'
<1>. DEFINE op == open[c].op
            billed == open[c].billed
<1>1. /\ op \in {"finish", "fail", "abandon"}
      /\ billed \in Minutes /\ billed \in Nat
      /\ Target[op] \in {"processing", "failed", "abandoned"}
  BY FreshRequest, SessionAssumption DEF Close, Operations, Closes, Target, Minutes
<1>2. /\ hold' = Settled(billed)
      /\ hold.state = "reserved" => billed <= Maximum
      /\ session' = [state |-> Target[op], billed |-> billed]
      /\ open' = Moved(c)
      /\ report' = IF report = Unreported THEN billed ELSE report
      /\ UNCHANGED <<rows, word, swept>>
  BY DEF Close, Coverable
<1>. HIDE DEF op, billed
<1>3. hold \in [state : {"none", "reserved", "settled", "released"}, settled : 0 .. Maximum]
  BY DEF SessionInv, SessionTypeOK
<1>4. /\ hold.state # "reserved" => hold' = hold
      /\ hold.state = "reserved" => hold'.state \in {"settled", "released"} /\ hold'.settled = billed
      /\ hold' \in [state : {"none", "reserved", "settled", "released"}, settled : 0 .. Maximum]
  <2>1. CASE hold.state # "reserved"
    BY <1>2, <1>3, <2>1 DEF Settled
  <2>2. CASE hold.state = "reserved" /\ billed = 0
    <3>1. hold' = [state |-> "released", settled |-> 0]
      BY <1>2, <2>2 DEF Settled
    <3>. QED BY <2>2, <3>1, SessionAssumption
  <2>3. CASE hold.state = "reserved" /\ billed > 0
    <3>1. hold' = [state |-> "settled", settled |-> billed]
      BY <1>2, <2>3 DEF Settled
    <3>. QED BY <1>1, <1>2, <2>3, <3>1, SessionAssumption
  <2>. QED BY <1>1, <2>1, <2>2, <2>3
<1>5. SessionTypeOK'
  BY <1>1, <1>2, <1>4, MovedKeeps DEF SessionInv, SessionTypeOK, States
<1>6. HeldOnlyWhileOpen' /\ ReportEnds'
  BY <1>1, <1>2, <1>4 DEF HeldOnlyWhileOpen, ReportEnds
<1>7. report' # Unreported
  BY <1>1, <1>2 DEF Unreported
<1>8. OpenUntilReport'
  BY <1>4, <1>7 DEF SessionInv, OpenUntilReport
<1>9. FirstReportIsCharged'
  BY <1>2, <1>4 DEF SessionInv, OpenUntilReport, FirstReportIsCharged, HeldOnlyWhileOpen, ReportEnds
<1>. QED BY <1>2, <1>5, <1>6, <1>8, <1>9, CandidateKeeps, MovedKeeps DEF SessionInv

LEMMA RollBackKeeps ==
  ASSUME SessionInv, NEW c \in Clients, RollBack(c)
  PROVE  SessionInv'
<1>1. /\ open' = [open EXCEPT ![c] = NoRequest]
      /\ UNCHANGED <<session, hold, rows, word, report, swept>>
  BY DEF RollBack
<1>2. open'[c] = NoRequest /\ \A d \in Clients \ {c} : open'[d] = open[d]
  BY <1>1 DEF SessionInv, SessionTypeOK
<1>3. SessionTypeOK'
  BY <1>1, SessionAssumption DEF SessionInv, SessionTypeOK, NoRequest, Minutes
<1>4. \A d \in Clients : FreshIsLegal(d)'
  BY <1>1, <1>2 DEF SessionInv, FreshIsLegal, NoRequest
<1>5. ConsentIsTheLastWord'
  BY <1>2 DEF SessionInv, ConsentIsTheLastWord, NoRequest, Asks
<1>. QED BY <1>1, <1>3, <1>4, <1>5, CandidateKeeps DEF SessionInv, HeldOnlyWhileOpen, ReportEnds, OpenUntilReport,
            FirstReportIsCharged

LEMMA SweepKeeps ==
  ASSUME SessionInv, Sweep
  PROVE  SessionInv'
<1>1. hold' = [state |-> "released", settled |-> 0] /\ swept' = TRUE
      /\ UNCHANGED <<session, rows, open, word, report>>
  BY DEF Sweep
<1>2. SessionTypeOK'
  BY <1>1, SessionAssumption DEF SessionInv, SessionTypeOK
<1>. QED BY <1>1, <1>2, CandidateKeeps DEF SessionInv, FreshIsLegal, HeldOnlyWhileOpen, ReportEnds, OpenUntilReport,
            FirstReportIsCharged, ConsentIsTheLastWord

LEMMA SessionSteps == SessionInv /\ [SessionNext]_sessionVars => SessionInv'
<1>. SUFFICES ASSUME SessionInv, [SessionNext]_sessionVars PROVE SessionInv'
  OBVIOUS
<1>1. CASE UNCHANGED sessionVars
  BY <1>1 DEF sessionVars, SessionInv, SessionTypeOK, RowsDiffer, FreshIsLegal, HeldOnlyWhileOpen, ReportEnds,
     OpenUntilReport, FirstReportIsCharged, GrantWasSaid, Granted, ConsentIsTheLastWord
<1>2. CASE SessionNext
  BY <1>2, DecideKeeps, WithdrawKeeps, StartKeeps, ReceiveKeeps, ProceedKeeps, CloseKeeps, RollBackKeeps, SweepKeeps
     DEF SessionNext
<1>. QED BY <1>1, <1>2

\* What is billed and held stays within the maximum, for any number of clients.
THEOREM SessionTypeCorrect == SessionSpec => []SessionTypeOK
BY SessionStarts, SessionSteps, PTL DEF SessionSpec, SessionInv

\* However many clients race, no hold outlives its session.
THEOREM HoldsEndWithTheSession == SessionSpec => []HeldOnlyWhileOpen
BY SessionStarts, SessionSteps, PTL DEF SessionSpec, SessionInv

\* A second report never changes what was charged, nor does a report go uncharged,
\* but for the sweep and for sessions that went live without a hold.
THEOREM FirstReportsAreCharged == SessionSpec => []FirstReportIsCharged
BY SessionStarts, SessionSteps, PTL DEF SessionSpec, SessionInv

\* The latest row is enough to know the candidate's last word, as long as it was
\* put on record.
THEOREM ConsentGatesRecording == SessionSpec => []ConsentIsTheLastWord
BY SessionStarts, SessionSteps, PTL DEF SessionSpec, SessionInv
================================================================================
