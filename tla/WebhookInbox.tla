---------------------------- MODULE WebhookInbox ----------------------------
(***************************************************************************)
(* The durable inbox of Stripe events and the billing workers that drain   *)
(* it: claims with a lease, retrieval, the handler's transaction, and the  *)
(* write of the outcome, which looks only at the row's id.  An operator's  *)
(* replay runs the same steps without a claim.                             *)
(*                                                                         *)
(* Time is relative: due counts down to next_attempt_at and age counts up  *)
(* from the start of a run, whose single "now" every write of the run      *)
(* uses.  Both stop where the code no longer tells values apart, so no     *)
(* horizon bounds a run.                                                   *)
(*                                                                         *)
(* Not here: what handlers do (an event is ready, or deferred), the sweeps *)
(* that follow the events in a run.                                        *)
(***************************************************************************)
EXTENDS Integers, FiniteSets

CONSTANTS
  NumEvents,    \* events, numbered in the order of received_at
  Orphans,      \* events whose handler defers for ever
  Workers,
  Operators,    \* processes that replay one event
  Batch,        \* batchSize
  MaxAttempts,
  Lease,        \* leaseSeconds
  Backoff,      \* backoffSeconds by attempt, 1 .. MaxAttempts; constant from there on
  MaxCrashes,   \* bound: deaths of runs
  MaxReplays    \* bound: replays

Events == 1 .. NumEvents
Processes == Workers \cup Operators

ASSUME InboxAssumption ==
  /\ NumEvents \in Nat
  /\ Orphans \subseteq Events
  /\ Workers \cap Operators = {}
  /\ Batch \in Nat /\ MaxAttempts \in Nat \ {0} /\ Lease \in Nat \ {0}
  /\ Backoff \in [1 .. MaxAttempts -> Nat]
  /\ MaxCrashes \in Nat /\ MaxReplays \in Nat

VARIABLES
  row,        \* billing_webhook_events: status, attempts, time until next_attempt_at
  ready,      \* events whose handler no longer defers
  run,        \* what each process is doing
  crashes, replays,
  applied,    \* history: events whose handler has committed
  unseen,     \* history: events whose retrieval returned null
  disturbed   \* history: events written by a replay or by a run older than its lease

counters == <<crashes, replays>>
history == <<applied, unseen, disturbed>>
vars == <<row, ready, run, counters, history>>

None == 0
Steps == {"idle", "pick", "applied", "deferred", "caught", "gone"}
Idle == [step |-> "idle", event |-> None, todo |-> {}, tries |-> [e \in Events |-> 0], age |-> 0]

\* Beyond every lease and backoff an age makes no difference.
Smaller(m, n) == IF m < n THEN m ELSE n
Larger(m, n) == IF m > n THEN m ELSE n
Oldest == Larger(Lease, Backoff[MaxAttempts])

Init ==
  /\ row = [e \in Events |-> [status |-> "none", attempts |-> 0, due |-> 0]]
  /\ ready \in SUBSET (Events \ Orphans)  \* many events wait for nothing
  /\ run = [p \in Processes |-> Idle]
  /\ crashes = 0 /\ replays = 0
  /\ applied = {} /\ unseen = {} /\ disturbed = {}

-----------------------------------------------------------------------------
(* Stripe delivers; the world moves on *)

\* receiveStripeWebhook; a second delivery conflicts with the row and changes
\* nothing.
Receive(e) ==
  /\ row[e].status = "none"
  /\ \A f \in 1 .. e - 1 : row[f].status # "none"
  /\ row' = [row EXCEPT ![e].status = "pending"]
  /\ UNCHANGED <<ready, run, counters, history>>

\* What the handler waits for has come into being.
BecomeReady(e) ==
  /\ e \notin ready \cup Orphans
  /\ ready' = ready \cup {e}
  /\ UNCHANGED <<row, run, counters, history>>

Tick ==
  /\ row' = [e \in Events |-> [row[e] EXCEPT !.due = Larger(0, @ - 1)]]
  /\ run' = [p \in Processes |->
       IF run[p].step = "idle" THEN run[p] ELSE [run[p] EXCEPT !.age = Smaller(Oldest, @ + 1)]]
  /\ UNCHANGED <<ready, counters, history>>

-----------------------------------------------------------------------------
(* A run of the worker *)

\* Mutant: a row that is being processed need not wait for its lease.
EligibleWithoutLease ==
  {e \in Events : \/ row[e].status = "pending" /\ row[e].due = 0
                  \/ row[e].status = "processing"}

\* Mutant: a claim whose run died is nobody's.
EligiblePending == {e \in Events : row[e].status = "pending" /\ row[e].due = 0}

Eligible == {e \in Events : row[e].status \in {"pending", "processing"} /\ row[e].due = 0}

\* The oldest Batch of them; attempts count from the claim on, up to where they
\* decide anything.
Claim(w) ==
  LET batch == {e \in Eligible : Cardinality({f \in Eligible : f < e}) < Batch}
      counted == [e \in Events |-> IF e \in batch THEN Smaller(MaxAttempts, row[e].attempts + 1) ELSE 0]
  IN  /\ run[w].step = "idle"
      /\ batch # {}
      /\ row' = [e \in Events |->
           IF e \in batch THEN [status |-> "processing", attempts |-> counted[e], due |-> Lease] ELSE row[e]]
      /\ run' = [run EXCEPT ![w] = [Idle EXCEPT !.step = "pick", !.todo = batch, !.tries = counted]]
      /\ UNCHANGED <<ready, counters, history>>

\* replayBillingWebhookEvent: any row, whatever its status; nothing is claimed.
Replay(o, e) ==
  /\ run[o].step = "idle"
  /\ replays < MaxReplays
  /\ row[e].status # "none"
  /\ run' = [run EXCEPT ![o] = [Idle EXCEPT !.step = "pick", !.todo = {e}, !.tries = [Idle.tries EXCEPT ![e] = row[e].attempts]]]
  /\ replays' = replays + 1
  /\ UNCHANGED <<row, ready, crashes, history>>

\* Retrieval from Stripe: null stands for an event past its retention and for
\* every error of the call.
NotRetrieved(p, e) ==
  /\ unseen' = unseen \cup {e}
  /\ run' = [run EXCEPT ![p] = [run[p] EXCEPT !.step = "gone", !.event = e, !.todo = @ \ {e}]]
  /\ UNCHANGED applied

\* processStripeWebhookEvent, one transaction: it commits, defers, or throws and
\* rolls back.
Handled(p, e, outcome) ==
  /\ outcome \in {IF e \in ready THEN "applied" ELSE "deferred", "caught"}
  /\ applied' = IF outcome = "applied" THEN applied \cup {e} ELSE applied
  /\ run' = [run EXCEPT ![p] = [run[p] EXCEPT !.step = outcome, !.event = e, !.todo = @ \ {e}]]
  /\ UNCHANGED unseen

\* The first half of processOneEvent.
Process(p, e) ==
  /\ run[p].step = "pick"
  /\ e \in run[p].todo
  /\ NotRetrieved(p, e) \/ \E outcome \in Steps : Handled(p, e, outcome)
  /\ UNCHANGED <<row, ready, counters, disturbed>>

\* The write of an outcome fails: the catch branch takes over.
WriteThrows(p) ==
  /\ run[p].step \in {"applied", "deferred", "gone"}
  /\ run' = [run EXCEPT ![p].step = "caught"]
  /\ UNCHANGED <<row, ready, counters, history>>

Late(p) == p \in Operators \/ run[p].age >= Lease

\* After its last event a run goes on to the sweeps, and is over here.
Write(p, status, due) ==
  LET e == run[p].event IN
  /\ row' = [row EXCEPT ![e].status = status, ![e].due = due]
  /\ run' = [run EXCEPT ![p] =
       IF run[p].todo = {} THEN Idle
       ELSE [run[p] EXCEPT !.step = "pick", !.event = None, !.tries = [run[p].tries EXCEPT ![e] = 0]]]
  /\ disturbed' = IF Late(p) THEN disturbed \cup {e} ELSE disturbed
  /\ UNCHANGED <<ready, counters, applied, unseen>>

\* Mutant: the name of the outcome is written as the status.
MarkOutcome(p) == run[p].step = "applied" /\ Write(p, "applied", row[run[p].event].due)

MarkProcessed(p) == run[p].step = "applied" /\ Write(p, "processed", row[run[p].event].due)

\* Counted from the start of the run.
RetryIn(p) == Larger(0, Backoff[Larger(1, run[p].tries[run[p].event])] - run[p].age)

\* Mutant: an event that only waits is closed.
CloseDeferred(p) == run[p].step = "deferred" /\ Write(p, "processed", 0)

Defer(p) == run[p].step = "deferred" /\ Write(p, "pending", RetryIn(p))

\* Mutant: one attempt too early.
ExhaustedEarly(p) == p \in Workers /\ run[p].tries[run[p].event] >= MaxAttempts - 1

\* A replay passes MAX_SAFE_INTEGER for the maximum.
Exhausted(p) == p \in Workers /\ run[p].tries[run[p].event] >= MaxAttempts

Retry(p) == run[p].step = "caught" /\ ~Exhausted(p) /\ Write(p, "pending", RetryIn(p))

MarkDeadLettered(p) ==
  /\ \/ run[p].step = "gone"
     \/ run[p].step = "caught" /\ Exhausted(p)
  /\ Write(p, "failed", row[run[p].event].due)

\* The process dies, or the write in the catch branch throws out of the run.
Crash(p) ==
  /\ run[p].step # "idle"
  /\ crashes < MaxCrashes
  /\ run' = [run EXCEPT ![p] = Idle]
  /\ crashes' = crashes + 1
  /\ UNCHANGED <<row, ready, replays, history>>

-----------------------------------------------------------------------------
Proceed(p) ==
  \/ \E e \in Events : Process(p, e)
  \/ WriteThrows(p)
  \/ MarkProcessed(p) \/ Defer(p) \/ Retry(p) \/ MarkDeadLettered(p)

Next ==
  \/ \E e \in Events : Receive(e) \/ BecomeReady(e)
  \/ \E w \in Workers : Claim(w)
  \/ \E o \in Operators, e \in Events : Replay(o, e)
  \/ \E p \in Processes : Proceed(p) \/ Crash(p)
  \/ Tick

Spec == Init /\ [][Next]_vars

\* Cron starts runs for ever, a run goes on, time passes, and whatever an event
\* that is no orphan waits for comes.
Fairness ==
  /\ WF_vars(Tick)
  /\ WF_vars(\E w \in Workers : Claim(w))
  /\ \A p \in Processes : WF_vars(Proceed(p))
  /\ \A e \in Events : WF_vars(BecomeReady(e))

FairSpec == Spec /\ Fairness

-----------------------------------------------------------------------------
(* Properties *)

Rows == [status : {"none", "pending", "processing", "processed", "failed"},
         attempts : 0 .. MaxAttempts, due : Nat]
Runs == [step : Steps, event : {None} \cup Events, todo : SUBSET Events,
         tries : [Events -> 0 .. MaxAttempts], age : Nat]

TypeOK ==
  /\ row \in [Events -> Rows]
  /\ ready \subseteq Events \ Orphans
  /\ run \in [Processes -> Runs]
  /\ \A p \in Processes : run[p].step \in {"idle", "pick"} <=> run[p].event = None
  /\ crashes \in Nat /\ replays \in Nat
  /\ applied \subseteq ready
  /\ unseen \subseteq Events
  /\ disturbed \subseteq Events

Holds(p, e) == e \in run[p].todo \/ run[p].event = e
Settled(e) == row[e].status \in {"processed", "failed"}

\* A lease is a lock with an expiry: two workers have one event in hand only when
\* one of them has outrun its lease, or a replay or such a run has rewritten the
\* row before.
ClaimsAreExclusive ==
  \A e \in Events \ disturbed, v, w \in Workers :
    v # w /\ Holds(v, e) /\ Holds(w, e) => Late(v) \/ Late(w)

\* What is settled stays settled, as long as runs keep within their lease and
\* nobody replays: marks are not fenced, so a run that outlived its lease may
\* reopen what another has processed or dead-lettered.
SettledStays ==
  [][\A e \in Events \ disturbed' : Settled(e) => row'[e].status = row[e].status]_vars

\* An event is dead-lettered after MaxAttempts claims and not before, except when
\* its retrieval returned null.
DeadLettersAreEarned ==
  \A e \in Events : row[e].status = "failed" => row[e].attempts = MaxAttempts \/ e \in unseen

\* A claim takes the oldest first: the orphans before an event leave room for it.
HasRoom(e) == Cardinality({o \in Orphans : o < e}) < Batch

\* Crashes, outages, slow runs and replays notwithstanding, every event that can be
\* handled is settled for good, though the limit of a claim leaves it out at times.
\* As many older orphans as a batch holds, due whenever a run claims, would starve
\* it: nothing but the batch size bounds how many there may be.
EveryEventSettles ==
  \A e \in Events \ Orphans : HasRoom(e) => ((row[e].status # "none") ~> []Settled(e))

\* The inbox keeps the promise of EventDelivery.
Delivery == INSTANCE EventDelivery WITH
  received <- {e \in Events : row[e].status # "none"},
  closed <- [e \in Events |-> IF Settled(e) THEN row[e].status ELSE "no"]

KeepsDelivery == Delivery!Spec
=============================================================================
