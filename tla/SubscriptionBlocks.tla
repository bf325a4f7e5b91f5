------------------------- MODULE SubscriptionBlocks -------------------------
(***************************************************************************)
(* Who may use which credit grant of a subscription that stops paying, or  *)
(* whose pack is disputed.  Stripe sends events, in any order and as often *)
(* as it likes; webhook handlers apply them; the billing worker blocks a   *)
(* subscription whose grace period is over and expires grants.             *)
(*                                                                         *)
(* A handler reads the subscription when it starts and writes when it      *)
(* ends; so does the worker's sweep.  Overlap says whether one may start   *)
(* while another runs, as two worker requests or an operator's replay do.  *)
(*                                                                         *)
(* Not here: the units of the grants (CreditLedger), grants that come with *)
(* a paid invoice, several subscriptions of one organization.              *)
(***************************************************************************)
EXTENDS Integers

CONSTANTS
  Included,  \* grants that came with the subscription
  Packs,     \* grants that were bought; each may be disputed once
  Expiry,    \* expires_at of each grant
  Handlers,  \* processes that apply webhook events
  Grace,     \* GRACE_PERIOD_MS
  Horizon,   \* bound: the clock stops here
  Overlap    \* whether transactions overlap

Grants == Included \cup Packs
Never == -1  \* a timestamp column that is null

ASSUME BlocksAssumption ==
  /\ Included \cap Packs = {}
  /\ Expiry \in [Grants -> Nat]
  /\ Grace \in Nat /\ Horizon \in Nat
  /\ Overlap \in BOOLEAN

VARIABLES
  \* Stripe
  truth,       \* status of the subscription at Stripe
  sent,        \* events Stripe has sent, and may send again
  now,
  \* database
  sub,         \* the row of billing_subscriptions
  grantState,
  keys,        \* idempotency keys of dunning's ledger entries
  dispute,     \* outcome of the dispute over a pack, "none" without a row
  \* processes
  busy,        \* event a handler works on, with the row it has read
  sweeping,    \* the sweep has found the subscription overdue
  handled      \* history: events whose handler has finished, not deferred, at least once

provider == <<truth, sent, now>>
tables == <<sub, grantState, keys, dispute>>
vars == <<provider, tables, busy, sweeping, handled>>

Event(type, at, what, grant) == [type |-> type, at |-> at, what |-> what, grant |-> grant]
NoGrant == "none"
NoEvent == Event("none", 0, "none", NoGrant)
Idle == [event |-> NoEvent, seen |-> [status |-> "none", synced |-> 0, graceEnds |-> Never, blocked |-> FALSE]]

Init ==
  /\ truth = "active"
  /\ sent = {}
  /\ now = 1
  /\ sub = [status |-> "active", synced |-> 0, graceEnds |-> Never, blocked |-> FALSE]
  /\ grantState = [g \in Grants |-> "active"]
  /\ keys = {}
  /\ dispute = [g \in Packs |-> "none"]
  /\ busy = [h \in Handlers |-> Idle]
  /\ sweeping = FALSE
  /\ handled = {}

-----------------------------------------------------------------------------
(* Stripe *)

Send(events, status) ==
  /\ sent' = sent \cup events
  /\ truth' = status
  /\ UNCHANGED <<now, tables, busy, sweeping, handled>>

\* Stripe stamps events with seconds; one change of the subscription per tick.
Quiet == \A e \in sent : e.type \in {"failed", "status"} => e.at < now

RenewalFails ==
  /\ Quiet
  /\ truth = "active"
  /\ Send({Event("failed", now, "none", NoGrant), Event("status", now, "past_due", NoGrant)}, "past_due")

PaymentRecovers ==
  /\ Quiet
  /\ truth = "past_due"
  /\ Send({Event("status", now, "active", NoGrant)}, "active")

SubscriptionEnds ==
  /\ Quiet
  /\ truth # "canceled"
  /\ Send({Event("status", now, "canceled", NoGrant)}, "canceled")

DisputeStarts(g) ==
  /\ \A e \in sent : e.grant # g
  /\ Send({Event("opened", now, "none", g)}, truth)

DisputeEnds(g, outcome) ==
  /\ \E e \in sent : e.type = "opened" /\ e.grant = g
  /\ \A e \in sent : ~(e.type = "closed" /\ e.grant = g)
  /\ Send({Event("closed", now, outcome, g)}, truth)

Tick ==
  /\ now < Horizon
  /\ now' = now + 1
  /\ UNCHANGED <<truth, sent, tables, busy, sweeping, handled>>

-----------------------------------------------------------------------------
(* Webhook handlers *)

NothingRuns == ~sweeping /\ \A h \in Handlers : busy[h] = Idle

Receive(h, e) ==
  /\ busy[h] = Idle
  /\ Overlap \/ NothingRuns
  /\ busy' = [busy EXCEPT ![h] = [event |-> e, seen |-> sub]]
  /\ UNCHANGED <<provider, tables, sweeping, handled>>

\* invoice.payment_failed: the first failure starts the grace period.
PaymentFailed(e) ==
  /\ sub' = [sub EXCEPT !.graceEnds = IF @ = Never THEN e.at + Grace ELSE @]
  /\ UNCHANGED <<grantState, keys, dispute>>

\* Mutant: an older event may overwrite a newer status.
AppliesUnlessTerminal(e, seen) == seen.status # "canceled"

\* resolveSubscriptionTransition: nothing follows a terminal status, and an
\* event older than the row is stale.
Applies(e, seen) == seen.status # "canceled" /\ e.at >= seen.synced

Frozen == {g \in Grants : grantState[g] = "frozen"}

\* Mutant: the name of the entry is written as the state.
RecoverByKind(at) ==
  LET kind(g) == IF Expiry[g] <= at THEN "expire" ELSE "unfreeze"
      moved == {g \in Frozen : <<kind(g), g>> \notin keys}
  IN  /\ grantState' = [g \in Grants |->
           IF g \notin moved THEN grantState[g]
           ELSE IF kind(g) = "expire" THEN "expire" ELSE "active"]
      /\ keys' = keys \cup {<<kind(g), g>> : g \in Frozen}

\* unfreezeStillValidGrantsOnRecovery: every frozen grant, whoever froze it,
\* unless the key of its transition is spent.
Recover(at) ==
  LET kind(g) == IF Expiry[g] <= at THEN "expire" ELSE "unfreeze"
      moved == {g \in Frozen : <<kind(g), g>> \notin keys}
  IN  /\ grantState' = [g \in Grants |->
           IF g \notin moved THEN grantState[g]
           ELSE IF kind(g) = "expire" THEN "expired" ELSE "active"]
      /\ keys' = keys \cup {<<kind(g), g>> : g \in Frozen}

\* Mutant: the block is cleared before the recovery looks at it.
StatusAfterClearing(e, seen) ==
  /\ IF Applies(e, seen)
     THEN sub' = IF e.what = "active"
                 THEN [status |-> e.what, synced |-> e.at, graceEnds |-> Never, blocked |-> FALSE]
                 ELSE [sub EXCEPT !.status = e.what, !.synced = e.at]
     ELSE UNCHANGED sub
  /\ UNCHANGED <<grantState, keys, dispute>>

\* customer.subscription.updated and .deleted; active ends grace and block, and
\* thaws the grants if the row the handler read was blocked.
StatusChanged(e, seen) ==
  /\ IF Applies(e, seen)
     THEN sub' = IF e.what = "active"
                 THEN [status |-> e.what, synced |-> e.at, graceEnds |-> Never, blocked |-> FALSE]
                 ELSE [sub EXCEPT !.status = e.what, !.synced = e.at]
     ELSE UNCHANGED sub
  /\ IF Applies(e, seen) /\ e.what = "active" /\ seen.blocked
     THEN Recover(e.at)
     ELSE UNCHANGED <<grantState, keys>>
  /\ UNCHANGED dispute

\* charge.dispute.created; a second delivery finds the row and, on an active
\* grant, the spent key.
DisputeOpened(e) ==
  /\ IF dispute[e.grant] = "none" /\ grantState[e.grant] = "active"
     THEN grantState' = [grantState EXCEPT ![e.grant] = "frozen"]
     ELSE UNCHANGED grantState
  /\ dispute' = [dispute EXCEPT ![e.grant] = IF @ = "none" THEN "open" ELSE @]
  /\ UNCHANGED <<sub, keys>>

\* Mutant: a lost dispute leaves the grant frozen.
DisputeClosedKeepingLost(e) ==
  /\ IF dispute[e.grant] = "open"
     THEN /\ dispute' = [dispute EXCEPT ![e.grant] = e.what]
          /\ grantState' = [grantState EXCEPT ![e.grant] =
               IF @ = "frozen" /\ e.what = "won" THEN "active" ELSE @]
     ELSE UNCHANGED <<dispute, grantState>>
  /\ UNCHANGED <<sub, keys>>

\* charge.dispute.closed: deferred without a row, a no-op on a resolved one; a
\* grant that is not frozen any more keeps its state.
DisputeClosed(e) ==
  /\ IF dispute[e.grant] = "open"
     THEN /\ dispute' = [dispute EXCEPT ![e.grant] = e.what]
          /\ grantState' = [grantState EXCEPT ![e.grant] =
               IF @ # "frozen" THEN @ ELSE IF e.what = "won" THEN "active" ELSE "revoked"]
     ELSE UNCHANGED <<dispute, grantState>>
  /\ UNCHANGED <<sub, keys>>

Finish(h) ==
  LET e == busy[h].event IN
  /\ \/ e.type = "failed" /\ PaymentFailed(e)
     \/ e.type = "status" /\ StatusChanged(e, busy[h].seen)
     \/ e.type = "opened" /\ DisputeOpened(e)
     \/ e.type = "closed" /\ DisputeClosed(e)
  /\ busy' = [busy EXCEPT ![h] = Idle]
  /\ handled' = IF e.type = "closed" /\ dispute[e.grant] = "none" THEN handled ELSE handled \cup {e}
  /\ UNCHANGED <<provider, sweeping>>

-----------------------------------------------------------------------------
(* The billing worker *)

\* Mutant: waits for the status event, which may never come.
OverdueIfPastDue == sub.graceEnds # Never /\ ~sub.blocked /\ now >= sub.graceEnds /\ sub.status = "past_due"

\* listGracePeriodBillingSubscriptions and shouldBlockForNonPayment.
Overdue == sub.graceEnds # Never /\ ~sub.blocked /\ now >= sub.graceEnds

SweepReads ==
  /\ ~sweeping
  /\ Overlap \/ NothingRuns
  /\ Overdue
  /\ sweeping' = TRUE
  /\ UNCHANGED <<provider, tables, busy, handled>>

\* freezeIncludedGrantsForNonPayment; a spent key makes freezeCreditGrant a replay.
FreezeIncluded ==
  LET targets == {g \in Included : grantState[g] = "active"} IN
  /\ grantState' = [g \in Grants |->
       IF g \in targets /\ <<"freeze", g>> \notin keys THEN "frozen" ELSE grantState[g]]
  /\ keys' = keys \cup {<<"freeze", g>> : g \in targets}

\* The candidate is not looked at again: markBillingSubscriptionPaymentBlocked
\* asks only that the row is not blocked.
SweepWrites ==
  /\ sweeping
  /\ FreezeIncluded
  /\ sub' = [sub EXCEPT !.blocked = TRUE]
  /\ sweeping' = FALSE
  /\ UNCHANGED <<provider, dispute, busy, handled>>

ExpireGrant(g) ==
  /\ grantState[g] = "active"
  /\ Expiry[g] <= now
  /\ grantState' = [grantState EXCEPT ![g] = "expired"]
  /\ UNCHANGED <<provider, sub, keys, dispute, busy, sweeping, handled>>

-----------------------------------------------------------------------------
Next ==
  \/ RenewalFails \/ PaymentRecovers \/ SubscriptionEnds
  \/ \E g \in Packs : DisputeStarts(g) \/ \E outcome \in {"won", "lost"} : DisputeEnds(g, outcome)
  \/ \E h \in Handlers : Finish(h) \/ \E e \in sent : Receive(h, e)
  \/ SweepReads \/ SweepWrites
  \/ \E g \in Grants : ExpireGrant(g)
  \/ Tick

\* A transaction that started ends, the worker keeps sweeping, time passes.
\* SF: a sweep gets its turn between the handlers' transactions.
Fairness ==
  /\ WF_vars(Tick)
  /\ WF_vars(SweepWrites)
  /\ SF_vars(SweepReads)
  /\ \A h \in Handlers : WF_vars(Finish(h))

Spec == Init /\ [][Next]_vars /\ Fairness

-----------------------------------------------------------------------------
(* Properties *)

Statuses == {"active", "past_due", "canceled"}

TypeOK ==
  /\ truth \in Statuses
  /\ \A e \in sent : e.at \in 0 .. now
  /\ sub \in [status : Statuses, synced : 0 .. now, graceEnds : Int, blocked : BOOLEAN]
  /\ grantState \in [Grants -> {"active", "frozen", "expired", "revoked"}]
  /\ dispute \in [Packs -> {"none", "open", "won", "lost"}]
  /\ handled \subseteq sent
  /\ sweeping \in BOOLEAN

\* An included grant is frozen only while the subscription is blocked: a customer
\* who pays again has all of it back, whatever the order and number of deliveries.
FrozenIncludedIsBlocked == \A g \in Included : grantState[g] = "frozen" => sub.blocked

\* Dunning never freezes what was bought, and a dispute that is over leaves
\* nothing frozen: a pack is frozen only while its dispute is open.
FrozenPackIsDisputed == \A g \in Packs : grantState[g] = "frozen" => dispute[g] = "open"

\* Delivery order is not trusted: the row has the status of the newest event that
\* was applied, in whatever order they came.
NewestStatusWins ==
  LET statuses == {e \in handled : e.type = "status"} IN
  statuses # {} => \E e \in statuses : /\ sub.status = e.what
                                       /\ \A f \in statuses : f.at <= e.at

\* Non-payment has consequences: once grace is over the subscription is blocked,
\* unless an event ended the grace.
OverdueIsDecided ==
  (sub.graceEnds # Never /\ sub.graceEnds <= Horizon) ~> (sub.graceEnds = Never \/ sub.blocked)

-----------------------------------------------------------------------------
(* What the documentation says and the code does not do *)

\* "replaying an already-applied event is a no-op, never a double effect".
ReplayIsNoOp ==
  [][\A h \in Handlers : busy[h] # Idle /\ busy'[h] = Idle /\ busy[h].event \in handled =>
       UNCHANGED <<sub, grantState, dispute>>]_vars

\* "losing ... revokes unused linked credits".
LostDisputeEndsPack == \A g \in Packs : dispute[g] = "lost" => grantState[g] \in {"revoked", "expired"}

\* "sets payment_blocked, blocks new premium work, freezes included grants".
BlockFreezesIncluded ==
  [][~sub.blocked /\ sub'.blocked => \A g \in Included : grantState'[g] # "active"]_vars
=============================================================================
