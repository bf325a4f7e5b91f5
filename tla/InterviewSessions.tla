------------------------- MODULE InterviewSessions -------------------------
(***************************************************************************)
(* One interview session: its states, the candidate's consent to live      *)
(* transcription, and the credits held while it is live.                   *)
(*                                                                         *)
(* A request of one of the organizer's clients is a transaction that reads *)
(* the session and the consent, then settles or reserves and moves the     *)
(* session, if no other request has moved it meanwhile.  Candidates and    *)
(* the retention sweep act in between.                                     *)
(*                                                                         *)
(* Minutes are credits.  Not here: where the held credits come from        *)
(* (CreditLedger; a refused reservation is a request that fails), a second *)
(* notice version, heartbeats and transcript segments, which nothing here  *)
(* depends on, and extendLiveReservation, which no route calls.  Nothing   *)
(* moves a session on to review.                                           *)
(***************************************************************************)
EXTENDS Integers, Sequences

CONSTANTS
  Clients,  \* tabs of the organizer that send requests
  Maximum,  \* minutes that a reservation holds
  Report    \* bound: the most minutes a client may report as billed

Minutes == 0 .. Report

ASSUME SessionAssumption == Maximum \in Nat \ {0} /\ Report \in Nat

VARIABLES
  session,  \* state and provider_billed_seconds; "not_started" without a row
  hold,     \* the reservation with the id derived from the session
  rows,     \* the candidate's decisions on record, oldest first
  open,     \* the request each client has under way, with what it has read
  word,     \* history: the candidate's last word; "unheard" if no row has it
  report,   \* history: the minutes of the first report, Unreported before it
  swept     \* history: the retention sweep has released the reservation

sessionVars == <<session, hold, rows, open, word, report, swept>>

States == {"not_started", "consent_pending", "ready", "live", "paused",
           "processing", "failed", "abandoned"}
Operations == {"ready", "live", "pause", "resume", "finish", "fail", "abandon"}
Unreported == -1
NoHold == [state |-> "none", settled |-> 0]
NoRequest == [op |-> "none", billed |-> 0, fresh |-> FALSE, said |-> "none"]

SessionInit ==
  /\ session = [state |-> "not_started", billed |-> 0]
  /\ hold = NoHold
  /\ rows = <<>>
  /\ open = [c \in Clients |-> NoRequest]
  /\ word = "none" /\ report = Unreported /\ swept = FALSE

-----------------------------------------------------------------------------
(* The candidate's consent *)

Decided(d) == \E i \in DOMAIN rows : rows[i].decision = d

\* appendConsentDecision keeps one row for each decision: a repeated one is
\* answered with the row it already has, however old.
Decide(d) ==
  /\ rows' = IF Decided(d) THEN rows ELSE Append(rows, [decision |-> d, withdrawn |-> FALSE])
  /\ word' = IF Decided(d) /\ rows[Len(rows)].decision # d THEN "unheard" ELSE d
  /\ UNCHANGED <<session, hold, open, report, swept>>

Withdraw ==
  /\ \E i \in DOMAIN rows : rows[i].decision = "accepted" /\ ~rows[i].withdrawn
  /\ rows' = [i \in DOMAIN rows |->
                [rows[i] EXCEPT !.withdrawn = @ \/ rows[i].decision = "accepted"]]
  /\ word' = "withdrawn"
  /\ UNCHANGED <<session, hold, open, report, swept>>

\* Mutant: some acceptance that has not been withdrawn is enough.
GrantedByAny == \E i \in DOMAIN rows : rows[i].decision = "accepted" /\ ~rows[i].withdrawn

\* readTranscriptionConsent: the latest row counts.
Granted ==
  /\ rows # <<>>
  /\ rows[Len(rows)].decision = "accepted"
  /\ ~rows[Len(rows)].withdrawn

-----------------------------------------------------------------------------
(* The organizer's requests *)

Target == [ready |-> "ready", live |-> "live", pause |-> "paused", resume |-> "live",
           finish |-> "processing", fail |-> "failed", abandon |-> "abandoned"]

SessionTransitions ==
  [not_started |-> {"consent_pending", "abandoned"},
   consent_pending |-> {"ready", "abandoned"},
   ready |-> {"live", "abandoned"},
   live |-> {"processing", "paused", "failed", "abandoned"},
   processing |-> {"review", "failed", "abandoned"},
   paused |-> {"live", "abandoned", "failed"},
   failed |-> {}, abandoned |-> {}]

Asks(op) == op \in {"ready", "live", "resume"}
Closes(op) == op \in {"finish", "fail", "abandon"}

\* startSession: of two at once the second waits for the row and returns it.
Start ==
  /\ session.state = "not_started"
  /\ session' = [session EXCEPT !.state = "consent_pending"]
  /\ UNCHANGED <<hold, rows, open, word, report, swept>>

\* requireSession, requireVersion, assertTranscriptionAllowed, requireTransition.
\* Without a report of the client, fail and abandon take the minutes on record.
Receive(c, op, billed) ==
  /\ open[c] = NoRequest
  /\ session.state # "not_started"
  /\ Target[op] \in SessionTransitions[session.state]
  /\ Asks(op) => Granted
  /\ ~Closes(op) => billed = 0
  /\ open' = [open EXCEPT ![c] = [op |-> op, billed |-> billed, fresh |-> TRUE, said |-> word]]
  /\ UNCHANGED <<session, hold, rows, word, report, swept>>

\* reserveCredits with the key of the session: a second one is a replay, even
\* of a reservation that is closed.
Reserved == IF hold = NoHold THEN [state |-> "reserved", settled |-> 0] ELSE hold

\* Mutant: a session that failed keeps its hold.
SettledUnlessNothing(billed) ==
  IF hold.state = "reserved" /\ billed > 0 THEN [state |-> "settled", settled |-> billed] ELSE hold

\* settleTranscription; a missing or closed reservation is ignored.
Settled(billed) ==
  CASE hold.state # "reserved" -> hold
    [] hold.state = "reserved" /\ billed = 0 -> [state |-> "released", settled |-> 0]
    [] hold.state = "reserved" /\ billed > 0 -> [state |-> "settled", settled |-> billed]

\* Mutant: a report above the maximum is settled.
CoverableAny(billed) == hold.state = "reserved" => billed <= Report

\* settleReservation throws over_settlement, and the request fails.
Coverable(billed) == hold.state = "reserved" => billed <= Maximum

\* Mutant: the version is not part of the update.
CurrentWhatever(c) == open[c] # NoRequest

Current(c) == open[c] # NoRequest /\ open[c].fresh

\* The transition makes every other open request stale.
Moved(c) ==
  [d \in Clients |-> IF d = c THEN NoRequest ELSE [open[d] EXCEPT !.fresh = FALSE]]

\* goLive, markSessionReady, pauseSession, resumeSession from their writes on.
\* Only "live" reserves.
Proceed(c) ==
  /\ Current(c) /\ ~Closes(open[c].op)
  /\ hold' = IF open[c].op = "live" THEN Reserved ELSE hold
  /\ session' = [session EXCEPT !.state = Target[open[c].op]]
  /\ open' = Moved(c)
  /\ UNCHANGED <<rows, word, report, swept>>

\* finishSession, endSessionUnsuccessfully.
Close(c) ==
  /\ Current(c) /\ Closes(open[c].op)
  /\ Coverable(open[c].billed)
  /\ hold' = Settled(open[c].billed)
  /\ session' = [state |-> Target[open[c].op], billed |-> open[c].billed]
  /\ open' = Moved(c)
  /\ report' = IF report = Unreported THEN open[c].billed ELSE report
  /\ UNCHANGED <<rows, word, swept>>

\* The transaction rolls back: stale, refused by the ledger, or cut off.
RollBack(c) ==
  /\ open[c] # NoRequest
  /\ open' = [open EXCEPT ![c] = NoRequest]
  /\ UNCHANGED <<session, hold, rows, word, report, swept>>

-----------------------------------------------------------------------------
(* The retention sweep *)

\* releaseStaleReservations, once the deadline of the reservation has passed,
\* whatever the session does.
Sweep ==
  /\ hold.state = "reserved"
  /\ hold' = [state |-> "released", settled |-> 0]
  /\ swept' = TRUE
  /\ UNCHANGED <<session, rows, open, word, report>>

SessionNext ==
  \/ \E d \in {"accepted", "declined"} : Decide(d)
  \/ Withdraw
  \/ Start
  \/ \E c \in Clients, op \in Operations, billed \in Minutes : Receive(c, op, billed)
  \/ \E c \in Clients : Proceed(c) \/ Close(c) \/ RollBack(c)
  \/ Sweep

SessionSpec == SessionInit /\ [][SessionNext]_sessionVars

-----------------------------------------------------------------------------
(* Properties *)

SessionTypeOK ==
  /\ session \in [state : States, billed : Minutes]
  /\ hold \in [state : {"none", "reserved", "settled", "released"}, settled : 0 .. Maximum]
  /\ rows \in Seq([decision : {"accepted", "declined"}, withdrawn : BOOLEAN]) /\ Len(rows) <= 2
  /\ open \in [Clients -> [op : {"none"} \cup Operations, billed : Minutes, fresh : BOOLEAN,
                           said : {"none", "accepted", "declined", "withdrawn", "unheard"}]]
  /\ word \in {"none", "accepted", "declined", "withdrawn", "unheard"}
  /\ report \in {Unreported} \cup Minutes
  /\ swept \in BOOLEAN

\* A session that is over, or has not begun, holds no credits, in whatever order
\* two clients go live, pause, fail and finish.
HeldOnlyWhileOpen == hold.state = "reserved" => session.state \in {"live", "paused"}

\* The first report of billed minutes is the one that is charged: later ones
\* change the session's row only.  An exception are sessions that went live
\* without a reservation, and those whose hold the sweep has released.
FirstReportIsCharged ==
  report # Unreported /\ hold # NoHold /\ ~swept =>
    hold.state \in {"settled", "released"} /\ hold.settled = report

\* No request that leads to recording begins against the candidate's last word.
\* The exception is one that was never put on record: a decline after a decline
\* and an acceptance.
ConsentIsTheLastWord ==
  \A c \in Clients : Asks(open[c].op) => open[c].said \in {"accepted", "unheard"}

\* What goLive's comment says: credits are held before the session is live, as
\* long as the sweep leaves them.
LiveIsPaidFor == session.state = "live" => hold.state = "reserved" \/ swept
=============================================================================
