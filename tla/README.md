# Verification of BuilderHunt

BuilderHunt is a TanStack Start application on Postgres: it finds software builders, schedules and
runs interviews with them, and sells subscriptions and credits through Stripe. This directory holds
TLA+ models of its core, model-checked with TLC and, where marked, proved with TLAPS. Paths below are
relative to `src/` of the repository; `billing/` is `src/shared/lib/billing/`, `repositories/` is
`src/shared/lib/repositories/`.

What is modelled is the money, and the two other places where a race costs a person something:
credits and who may use them, the inbox through which Stripe speaks to the system, automatic charges
and refunds, the life of an interview session with the candidate's consent, and the booking of
interviews. There the code makes its strongest promises ("can never overspend", "in lockstep with
the ledger", "never a double effect", "zero confirmed double bookings"), and there are the
interleavings, retries and late events that tests hardly reach.

## 1. Inventory

`PROJECT.json` lists all components with their sources. Those with behaviour worth a model:

| component | state | operations | what is hard | correct when |
|---|---|---|---|---|
| Credit ledger (`billing/credits.ts`, `billing/reservations.ts`, `refundUsage` of `billing/feature-authorization.ts`) | grants, reservations, allocations, append-only ledger entries | grant, expire, revoke, freeze, unfreeze, adjust; reserve, extend, settle, release; refund of settled usage | concurrent transactions; grants that end while units are held; retries by idempotency key | units are conserved, balances equal their entries, a hold is closed once, ended grants stay ended |
| Interview retention worker (`src/lib/interviews/retention-worker.ts`) | none of its own | releases stale interview reservations, deletes expired data | races with settlement | nothing holds units for ever |
| Webhook inbox and billing worker (`billing/webhook-inbox.ts`, `billing/worker.ts`) | inbox rows with status, attempts, lease | receive, claim, process, retry, dead-letter, replay; sweeps | leases without fencing, deferral, crash while processing | every event is applied at least once, repeated application is harmless |
| Webhook handlers, subscription state, dunning, disputes (`billing/webhook-handlers.ts`, `subscription-state.ts`, `dunning.ts`, `disputes.ts`) | subscription row, grant states, dispute rows | status change, payment failure, dispute opened and closed; blocking sweep, recovery | unordered and repeated events; handlers and sweeps that read, then write | who pays has the grants, who does not is blocked, a lost dispute revokes |
| Pack refunds (`billing/refunds.ts`) | refund rows | request, decide, process, provider status | pack spent between request and refund; provider call inside the transaction | money and units go back together |
| Auto-recharge (`billing/auto-recharge.ts`) | rule with its pending PaymentIntent | configure, trigger, provider event | crash between charge and claim; reconfiguration while a charge is in flight | one charge per trigger, credits for each charge |
| Annual grants, beta mode, checkout, subscription changes | grants per window, mode switch, scheduled changes | sweeps and owner actions | concurrent workers, provider lag | one grant per window |
| Interview sessions, reports, suggestions (`src/lib/interviews/`) | session, usage, report versions | start, extend, finish, settle, approve | reservation swept under a live session | charged for what was used |
| Scheduling (`src/lib/scheduling/`) | slots, invitations, bookings, consents, capabilities | invite, open, book, reschedule, cancel | double booking under locks by the day of a start that the client sends, a move racing a cancellation | one booking per slot, the calendar is what candidates were told |
| Claiming workers (documents, web imports, enrichment, sprints) | job rows | claim, finish, retry | late workers | effects once |
| Reminders and alerts | delivery rows | sweep without a claim; insert a delivery, send | a send that outlives a rollback, two sweeps at once | one notice each |
| Organizations (`src/shared/lib/auth/`, `organizations/deletion.ts`) | memberships, deletion grace | join, leave, delete, cancel deletion | last owner, deletion racing use | an organization has an owner |

How they interact. Every billing operation runs in one Postgres transaction, READ COMMITTED; the only
coordination is row locks (those that foreign keys take on the rows they name among them), unique
idempotency keys in the ledger, and checks in code. Feature routes
call the facade `feature-authorization.ts`, which calls `reservations.ts`, which calls the
repositories. Stripe reaches the system through the inbox table only: the route stores an event, the
billing worker claims it, fetches it from Stripe and calls the handler, which may move grants through
`credits.ts`. After its events the same worker run sweeps: expired grants, overdue subscriptions,
pending refunds, annual windows, auto-recharge rules.

Left out for good: rendering, routes, search and scoring, storage, e-mail, metrics (no state beyond
the database, or pure I/O), and read-only reports.

## 2. Plan

Done, in this order:

1. `CreditLedger`, one action per committed transaction, and `CreditAccount`, what it promises;
   `CreditLedgerProofs` over `SumLemmas`, the refinement included.
2. `CreditTransactions`, the same calls one SQL statement at a time; `CreditTransactionsProofs`.
3. `SubscriptionBlocks`, events and sweeps over grant states; `SubscriptionBlocksProofs`.
4. `WebhookInbox` and `EventDelivery`, what it promises; `WebhookInboxProofs`. It justifies the
   deliveries that the other modules take for granted: repeated, in any order, in the end once.
5. `AutoRecharge` and `PackRefunds`, money at Stripe against units here; `AutoRechargeProofs`,
   `PackRefundsProofs`.
6. `InterviewSessions`, over the reservation of a session.
7. `Bookings`, requests against their advisory lock; `SchedulingProofs` is about both.

Left, in the order of what it would tell:

1. Reminders: the sweep inserts a delivery under a unique key, sends, and commits an organization
   at a time. At most one notice per reminder is what its comment says, and a rollback after a send
   or two sweeps over a failed delivery are the steps to look at.
2. Organizations: the grace period of a deletion against use of the organization, and the last owner.
3. Scheduled changes of a subscription's price, paid invoices and annual grant windows, composed
   with `SubscriptionBlocks`.
4. The claiming workers, whose claims resemble those of `WebhookInbox` but which write elsewhere.
5. Which of the refuted formulas below hold under which condition, as `OnlyStaleWritesLoseUnits` says it
   for the balances; `BlockFreezesIncluded` and `LostDisputeEndsPack` first.

## 3. Modules and the code

**`CreditLedger`**, with `Sums`. A grant and a reservation are numbers because the code orders rows by
id. Variables are columns (`remaining` is `remaining_units`); "none" is a row that does not exist;
`posted` is the sum of a grant's ledger entries; `marker[k]` is the entry that carries idempotency key
`k`; `writtenOff` is history. An action is a whole transaction: `SettleReservation` includes the
walk over the allocations and what `releaseOrExpireLeftover` does with each. An allocation walk
is the set of functions `Walks`, the distributions the loop can produce; there is none when the
balance is short, and the code then throws and rolls back. Keys of `settle` and `release` belong to the
reservation, so their replay is a reservation that is closed already; extensions and refunds have keys
of their own. `batch` remembers where the id of an allocation sorts, since settlement goes through
them by id.

**`CreditAccount`** is the promise: a unit issued from a grant is spendable, held, spent or gone,
and a step moves units between these places without making or losing one. It leaves open which grants
a reservation draws on and why units go.

**`CreditTransactions`** runs the calls one statement at a time: look for the key, lock the
reservation, lock the grants one by one in (expiresAt, id) order, read, update, commit. Its point
is what READ COMMITTED does: a plain `SELECT` reads the last commit, `UPDATE` waits for the row and then
writes a value that was computed before. A grant is locked in three ways. The walk's
`SELECT ... FOR UPDATE` excludes all others; an `UPDATE` of state or balance takes `FOR NO KEY UPDATE`
and excludes walks and other updates (`grantLock` holds both); an entry that names the grant takes
`FOR KEY SHARE` through its foreign key (`db/schema.ts:1836-1840`), which any number may hold beside an
update but not beside a walk (`sharers`). `Visit` (settlement and release) and `Inspect` (freeze, revoke,
adjust) read grants with `findCreditGrant`, which locks nothing; but where a settlement consumes of a
grant its entry comes first, so `Visit` waits for a walk there and keeps later ones out. `Forfeit` is the
entry for a leftover that is not returned. `AllocationId` says how a reservation's allocations
sort by id, the order in which they are closed, and which need not be that of the walks. A transaction
may crash at any statement. Its committed tables are those of `CreditLedger`. `CommitsKeepAccount` says
that each commit is a step of `CreditAccount`, and `EntriesKeepAccount` the same with the sums of the
ledger's entries in place of the balances.

**`SubscriptionBlocks`** has one subscription, its included grants, packs, and Stripe. Stripe sends an
event once and it is delivered any number of times, in any order (the inbox drops duplicates of a
received event, but retries, expired leases and replays apply an event again). `Receive` is the
handler's read of the subscription, `Finish` its writes; `SweepReads` and `SweepWrites` are the two
halves of the blocking sweep. With `Overlap = FALSE` a transaction starts when none runs; with
`TRUE` they interleave, as two worker runs or an operator's replay do. `keys` are the idempotency keys
under which dunning freezes, thaws and expires grants.

**`WebhookInbox`** is the table `billing_webhook_events` and the runs that drain it. `Claim` is the
one statement with `FOR UPDATE SKIP LOCKED`: the oldest eligible rows become "processing", with an
attempt more and a lease. A run then takes its events one by one: retrieval from Stripe (null stands
for an event past its retention and for every error), the handler's transaction, the write of the
outcome. That write looks only at the row's id, so a run that has outlived its lease still writes.
`Replay` takes any event through the same steps without a claim. Time is relative, so that no horizon
cuts a run short: `due` is the time left to `next_attempt_at`, `age` that since the start of a run.
`disturbed` is history: rows that such a late run or a replay has written. **`EventDelivery`** is what handlers
may rely on: an event is received once, its handler commits before it is closed as processed, and it may
be opened and handed over again.

**`AutoRecharge`** has the rule, the PaymentIntents and the sweep. `Call` is the transaction up to the
request to Stripe, which acts before anything is written; `Commit` and `Rollback` are its two ends. The
idempotency key of a charge is random, so the rule's `pending_payment_intent_id` alone ties the money to
credits. `lost` is history: the charges that marker has let go of while they could succeed. A charge with
`requires_action` is never completed by the app.

**`PackRefunds`** has packs from checkout to their end, refunds from the request on, and Stripe. `draft`
is the sweep's transaction, one for all refunds of an organization: `ProcessRefund` talks to Stripe and
writes the draft, `Commit` moves it to the tables, and a throw, `Die`, or a refund whose units are gone
drops it while Stripe keeps what it has done. Rows in the draft are locked for everybody else. Stripe
executes a request once per idempotency key, which is the refund's id. `doubtful` is history: refunds
whose answer was lost or rolled back.

**`InterviewSessions`** has one session with the reservation whose id derives from it. `Receive` is what
a request reads and refuses (state, version, consent), `Proceed` and `Close` what it writes if the
version still stands; in between other clients, the candidate and the retention sweep act. `rows` are the
consent decisions on record, one for each decision, which is why a repeated one is answered by an older
row. `SessionTransitions` is the table of `session-state.ts`, of which the states that nothing reaches are left out.

**`Bookings`** has invitations, interviews in the calendar, and requests that book, reschedule or cancel.
`Begin` reads the invitation, `Lock` waits for `lockOrganizerDay`, the `Check` actions read again under
the lock, and `Book`, `Reschedule` and `Cancel` commit if the versions that were read still stand. A
request names its slot by id and sends a start of its own along, `slotStartsAtHint`. The day of the lock
is that of the hint in the time zone of the invitation (`DayOf`); nothing compares hint and slot, which has
to lie within 24 hours of it (`Near`) to be found. The event keeps the day it was booked under as history.
The status "closed" stands for declined, expired and revoked, which are alike here. `Fail` rolls back, as
all refusals do but one: a reschedule without a default calendar returns after it has released the
old event (`booking-service.ts:540`), and the release is committed; no code deletes a default
calendar, and the model has none. `told` and `misled` are history: what a candidate was answered last, and
whether the answer ignored what had happened to the event.

How the modules meet. `CreditAccount` is implemented by `CreditLedger` and, commit by commit, by
`CreditTransactions`: by its entries for all calls, by its balances for walks. `EventDelivery`, implemented by `WebhookInbox`, is the environment of
`SubscriptionBlocks`, `AutoRecharge` and `PackRefunds`: any event may come again at any time, and one
that is received comes in the end. The reservation of `InterviewSessions` is one of `CreditLedger`, seen
from the session; the sweep there is `ReleaseStale` here.

`MC_*` modules hold the instances; names of definitions follow the source. Definitions marked
`Mutant` in the modules are plausible mistakes: `PROJECT.json` pairs every property with one that TLC
shows to break it, and no specification uses them.

## 4. What the runs show

Runs that pass:

| run | instance | shows |
|---|---|---|
| `ledger` | 2 grants, 2 reservations, 2 keys | units conserved, balances in lockstep with entries, ended grants stay empty, rows agree through extension, settlement and two refunds, a hold nobody closes is released, `CreditLedger` implements `CreditAccount` |
| `transactions_mixed` | 2 grants, 3 transactions of 8 calls | balances go wrong only where a call commits one it computed from an older one, which no walk does; a reservation closes once, consumes in total what the call said, and widens once per key, whatever interleaves; the entries of each commit are a step of `CreditAccount`; every deadlock has a settlement or a release in it; every call ends |
| `blocks_serial` | 2 included grants, 1 pack, 1 handler | no included grant stays frozen after recovery, no pack frozen without an open dispute, the newest status wins, a subscription past its grace is blocked unless an event ended the grace |
| `inbox` | 3 events, the second an orphan; batches of 2; 2 workers, 1 operator | claims exclude each other within a lease, dead letters have used up their attempts or were not to be had, settled rows stay settled but for late writers, every event with fewer older orphans than a batch holds is settled in the end, `WebhookInbox` implements `EventDelivery` |
| `recharge` | 4 charges, cap of 2 | a charge that can succeed is the one the rule or the sweep knows of, but for three named ways to lose it; the cap holds for charges in flight as well; charges end in credits or in a free rule |
| `refunds` | 2 packs, 2 refunds, 1 fault | a refund takes its units once, one in full is of a pack that was unused unless it was drawn on since the request; books and Stripe agree but for lost answers; refunds settle unless those of one pack do not fit it |
| `sessions` | 2 clients, a hold of 2, reports of up to 3 | credits are held only while a session is open, the first report is the one charged, nothing begins to record against the candidate's last recorded word |
| `bookings` | 2 invitations, 2 overlapping slots, 2 requests with any hint, 3 interviews | interviews booked under one lock never overlap; the calendar is what candidates were told, but for two answers |

Runs that find what the documentation denies; each is a finding in `PROJECT.json`, with the line and the
sentence it contradicts:

| run | what TLC finds |
|---|---|
| `transactions_lost_update` | `releaseReservation` reads the grant without a lock and writes `remaining + leftover`; a reservation that commits in between is overwritten and its units can be spent twice. It writes back the state it read as well, which undoes a revocation. The same holds of a settlement of nothing, of the operations of `credits.ts`, and of two closes of different reservations; a settlement that consumes of the grant is safe from walks, since its entry has locked the grant's key by then |
| `blocks_race` | recovery reads an unblocked subscription, the sweep blocks and freezes, recovery clears the block: the customer pays, is not blocked, and the grants stay frozen |
| `refunds_spent` | a refund in full is requested for an unused pack, a unit is drawn before the sweep, and Stripe is asked for the whole price; only the request compares what is left with what was bought, while `refunds.ts:32-33` says "by construction, still 100% unused" |
| `bookings_midnight` | two invitations with different time zones lock different days for overlapping slots, with honest hints, and both are confirmed |

Formulas that stand in a module and that TLC refutes when they are added to its configuration, without
a run of their own:

- `ReplayIsNoOp` of `SubscriptionBlocks`: a payment failure applied after the recovery starts a grace
  period that is already over.
- `LostDisputeEndsPack`: recovery from non-payment thaws a disputed pack; the dispute is lost and the pack
  is not revoked.
- `BlockFreezesIncluded` (with a horizon of 5): the key of a freeze names subscription and grant but not
  the cycle, so the second block of a subscription freezes nothing.
- `LiveIsPaidFor` of `InterviewSessions`: a session resumed from "ready" is live with nothing held.
- `NoDoubleBooking` of `Bookings` is also refuted with one time zone and one slot, when two requests for
  it hint at different days (`Near <- AnyHint`): the run's trace needs no false hint, the code accepts one.
- `EveryEventSettles` of `WebhookInbox` without `HasRoom`, with `Batch = 1`: the orphan, due whenever a
  run claims, takes every batch and the third event is never claimed. In the code it takes a batch of
  events that wait for ever; no document says that it cannot happen, so it is a condition and no finding.

What the exceptions in the properties stand for, which is behaviour a maintainer may want to change:

- `EveryRefundSettles`: two refunds that each fit a pack, but not together, make the sweep throw. It
  rolls back with all other refunds of the organization and starts over for ever, after Stripe has paid.
- `RefundsAreOnRecord`: an answer of Stripe that gets lost is a failed refund here, and money there.
- `EveryChargeIsTracked`: a rollback after the request, an error as the answer, or a change of the rule
  while a charge is in flight lets go of a charge that may still succeed.
- `DeadLettersAreEarned`: one failed request to Stripe dead-letters an event with attempts left.
- `RefundsTakeTheirUnits`: a pack may be drawn on between the request of its refund and the sweep;
  `refunds_spent` is that case.
- `FirstReportIsCharged`: a settlement after the sweep has released the hold is swallowed, and the property
  leaves it out. A report above the hold (184 minutes are accepted, 180 are held) makes every finish
  fail, although `session.ts:83-85` says that the ceiling clamps it; `RollBack` is all it does.
- `ConsentIsTheLastWord`: a decline after a decline and an acceptance is not put on record, and the
  property is about the record. No property of a run covers these two and the report above the hold;
  the hazards in `PROJECT.json` say so.
- A freeze between reserve and release forfeits the units. `CreditLedger` counts them as gone, as the
  code does; `reservations.ts:277` ("if the grant hasn't expired yet") and `credits.ts:223` read as if they
  came back.
- `AppointmentsAreAsTold`: a cancellation that reads an event just after a reschedule replaced it answers
  "cancelled"; booking the slot of a cancelled appointment again answers "booked".

**Bounds.** Two grants are what it takes for an order of expiry, a walk across a boundary, a lapsed
grant next to a live one and a refund that is issued anew elsewhere. Two reservations contend; one
with two keys can be widened on either side of its id order and refunded twice. `MaxUnits = 2` lets a
grant be part spent; a unit more repeats the same comparisons. `Horizon`, `HoldTime` and `RefundLife` let
a hold outlive a grant and a refund come after expiry. Three transactions suffice for a settlement
between two others, for a call and its retry beside a third, and for a deadlock with a bystander; one
reservation is open and its allocations sort against the order of the walks, two are to be made, over both
grants and over one. The clock of
`SubscriptionBlocks` has room for a dunning cycle and a recovery. In `WebhookInbox` a lease of one
tick lets a run outlive it at any step, and two attempts make an event retried and exhausted. A batch of
two against three events makes the limit leave one out; the event in the middle never becomes ready, so
that the third has to get through behind it: deferral does not starve it, as long as a batch is larger
than the number of such events before it (`HasRoom`). Four charges are two
beyond the cap, enough to spread over months. Two refunds meet at one pack, or in one transaction
through two packs; two units and a price of two make partial refunds add up to a whole; one pack and one refund are all that
`refunds_spent` takes. In
`InterviewSessions` a report of 3 exceeds the hold of 2. Three interviews are a booking, a
competing one and a move. The theorems have no bounds on any of these sets.

Three MC modules narrow a run further by a `Budget`, which rules out steps of customers, operators and
failures only, never one that a process owes, so that fairness keeps its meaning: `MC_CreditLedger` (keys in
their order, a second reservation without keys), `MC_PackRefunds` (the second pack stays unused, and is
there only while nothing fails) and `MC_WebhookInbox` (one crash or one replay while one event is there;
one undisturbed worker once the third has come, which the batch limit and not a race is about).
Interchangeable processes are declared symmetric in `sessions` and the `Bookings` runs, which state no
liveness. `Bookings` lets a request hint at its own slot or at the other one, on another day.

`CHECK_DEADLOCK FALSE` stands in every configuration but those of `Bookings` because the instances
end: a clock stops at `Horizon`, rows are used up, each transaction runs one call, a session is over.
In `Bookings` something can always happen, and TLC checks that. Database deadlock is a property of its
own (`NoDeadlock`).

**Fairness.** `CreditLedger`: time passes, and the retention and billing workers, which run on a
schedule for ever, act on what stays due; customers owe nothing. `CreditTransactions`: a
transaction whose statement can run runs it, and Postgres ends a victim of a deadlock; nothing has to
begin and nothing has to crash. `SubscriptionBlocks`: a handler or sweep that started ends, time
passes, and the sweep, which every worker run comes to after its events, gets its turn again and
again; strong fairness because a handler may be running each time it looks. `WebhookInbox`: cron starts runs for
ever, a run goes on, and what a deferred event waits for comes unless it is an orphan; crashes and
replays are bounded, since a worker that always dies settles nothing. `AutoRecharge`: a transaction ends, Stripe
decides a charge, and the inbox delivers; `EveryEventSettles` is why the last may be assumed.
`PackRefunds`: the same, and strong fairness for an event that finds its rows locked by the sweep now and
then. `InterviewSessions` and `Bookings` state safety only: their steps are requests of people, who owe
nothing.

## 5. What is proved

For every value of the constants, assuming only what the named assumptions of the modules say (sizes
are natural numbers, sets that should be disjoint are, overlap is symmetric):

- `CreditLedgerProofs`. `LedgerInv` is inductive: types, lockstep, agreement of rows, conservation,
  and `RestingRowsAreEmpty`. The last is what makes it so: conservation alone does not survive
  a step, since a grant that appears could bring a balance with it and an ended one could keep
  units. From it `TypeCorrect`, `LockstepHolds`, `UnitsAreConserved`, `ReservationRowsAgree`,
  `EndedGrantsHold`, `ExtensionsAreMarked`, and `LedgerKeepsAccount`: under the refinement mapping
  initial states map to initial states and each action to one of `CreditAccount` or to a stutter.
- `SumLemmas`. `Total` is a recursive function, whose value is not unfolded by the provers. Its
  equations are derived from partial sums that are shown to exist and to be unique, by taking a
  smallest counterexample.
- `CreditTransactionsProofs`. `RowLockInv`: whoever is past `lockReservation` holds the row in the
  state it found. Hence `WideningsHaveKeys`, settlements and revocations included, and with the types of
  the drafts `TypeCorrect`. `EntriesInv` says of a call that is closing a reservation where each unit will
  go: what it has drafted for a grant adds up to the allocation (`DraftsAddUp`), and what it has consumed
  together with what it has still to consume is what the call said, with enough allocations ahead
  (`SettlesInFull`). So at `COMMIT` nothing is left over. From it `ClosedRowsAreFinal`, and
  `EntriesKeepTheAccount`: step by step, `DrawCommits` is a `Hold` of `CreditAccount`, `Close` its `Close`,
  `Post` its `Forfeit`, and all other steps stutter, if the balance of a grant is taken to be the sum of its
  entries. Each of these moves units and makes none, so in every committed state the entries, the open
  holds and what was spent or forfeited add up to what was issued: `LedgerEntriesAddUp`. `GrantLockInv` adds the locks of grants: whoever updates a grant has it locked by then, so what a
  walk has read is what is there, whatever runs beside it. Hence `OnlyStaleWritesLoseUnits`, the
  extent of what `transactions_lost_update` shows: the balances, too, keep the account, except where a
  settlement, a release or an operation of `credits.ts` commits a balance that it computed from one that
  has changed since. For reservations and extensions alone there is no exception:
  `WalksKeepAccount`, and balances stay in lockstep (`WalkInv`): `WalksKeepLockstep`. The hypothesis is
  needed: with a release `transactions_lost_update` refutes it. `RingInv`: whatever else runs, a walk waits
  only above what it has locked (`LocksUpwards`) and an operation on a grant waits with nothing locked, so
  `WalksDoNotDeadlock`: a ring of transactions that wait for each other has a settlement or a release in it.
- `SubscriptionBlocksProofs`. `PacksAreNotDunned` whatever overlaps, and `TypeCorrect`. When nothing
  overlaps, `SerialRecoveryThaws`: a handler's copy of the row is the row (`OneAtATime`), and a grant,
  once thawed, is never frozen again (`FreezesOnce`), so the thaw finds its key unused. The same fact
  is why `BlockFreezesIncluded` fails; a fix of the key has to keep freeze and thaw keys of a cycle
  together. And `NewestStatusRules`: Stripe changes a status once per timestamp and not after the end
  (`StatusesInOrder`), so the row is always that of the newest event handled (`RowIsNewest`).
- `WebhookInboxProofs`. `LeaseHolds`: what a run within its lease has in hand is "processing" and not
  yet due, its age and the time left being at least a lease. Hence `ClaimsExclude` and
  `SettledIsFinal`. `RunsInOrder` ties the attempts a run counts to those of the row: `DeadLettersEarned`.
  `InboxDelivers` is the refinement.
- `AutoRechargeProofs`. `OneInFlight`: while the sweep's transaction is open the rule is as it was
  found. `InBudget`: the month's grants and the charge in flight together are within the cap, although the
  code compares grants only. `ChargesAreTracked`, `CapIsKept`.
- `PackRefundsProofs`. `RefundInv` says of the rows the sweep would see what the properties say of the
  tables: units taken (`Taken`), money on record (`OnRecord`), next to what was bought (`Bought`) and that
  nobody else moves a locked row (`Drafting`). A commit makes the one the other and a rollback forgets
  it, so both keep the invariant: `UnitsAreTaken`, `BooksAgree`. The first claims that a pack refunded in
  full was unused only where it was not drawn on after the request (`UnspentIsUnused`); without the
  exception it is false, as `refunds_spent` shows.
- `SchedulingProofs`, of `Bookings`. `DayInv`: who holds the lock of a day has seen every confirmed interview on
  it, since another booked under that day would have needed the lock: `DaysAreSafe`, for any hints. The day is that of
  a hint, so this alone does not make a double booking impossible. `SameDaysSuffice` says what would: that
  the hints accepted for overlapping slots name the same day in all invitations. A lock by the day of the
  slot itself in the organizer's own time zone, with slots that keep within a day, would give that; the code
  gives neither half. `ToldInv`: a version that still stands vouches for what was read with it
  (`Vouched`), so half of a move is never cancelled: `AppointmentsAreKept`.
- `SchedulingProofs`, of `InterviewSessions`. `SessionInv`: the transition a fresh request asks for is
  still a legal one (`FreshIsLegal`), because whatever moves the session makes all others stale; so a
  session that has been billed is over and nothing reserves for it again (`ReportEnds`,
  `OpenUntilReport`), and no two rows give the candidate's decision twice (`RowsDiffer`). Hence
  `HoldsEndWithTheSession`, `FirstReportsAreCharged`, `ConsentGatesRecording` and `SessionTypeCorrect`.

Each invariant was checked by TLC before it was proved.

Only model-checked: liveness (`StaleHoldsAreReleased`, `EveryCallEnds`, `OverdueIsDecided`,
`EveryEventSettles`, `ChargesSettle`, `EveryRefundSettles`), which is beyond the prover. Every invariant
and action property of a passing run is proved, two of them under a hypothesis that their run fulfils:
`FrozenIncludedIsBlocked` and `NewestStatusWins` where transactions do not overlap. Some theorems are about
formulas that no passing run lists: `ExtensionsAreMarked`, which `transactions_mixed` checks in a finer form,
`LedgerEntriesAddUp`, a consequence of the `EntriesKeepAccount` it checks, `RowLocksHold`, the invariant
under several of its properties, and `WalksKeepAccount`, `WalksKeepLockstep` and `SameDaysSuffice`,
whose hypotheses the runs of their modules do not fulfil. Other than the lemmas of `SumLemmas`
nothing is proved about what `Total` computes, since induction over data is beyond the provers.

## 6. What is not modelled

In the modelled components: `heartbeat_at`, which nothing reads; which promotional grants beta mode
makes eligible; seat budgets, daily caps and abuse signals of the facade, which refuse calls and
change no unit; the check for one grant per monthly window in `grantCredits`; integer widths (units
are far below 2^31); the time at which a statement reads the clock (`CreditTransactions` has none:
expiry is in `CreditLedger`); several subscriptions or organizations (rows of different
organizations are never touched by one transaction); grants that come with paid invoices; status
texts and evidence deadlines of disputes; upward adjustments other than refunds; the signature check of
the webhook route; refunds of subscriptions, which nothing processes, and packs without a PaymentIntent;
refusals of auto-recharge that lift by themselves; transcript segments and the usage report of a session;
how slots follow from availability, consent receipts of a booking, and capabilities.

Not modelled at all: the parts under "Left" in the plan, each a component with status `not_modelled`
and its reason in `PROJECT.json`, and what the inventory leaves out for good. Search, enrichment,
discovery, identity and the web application are by far most of the code; they are requests to services, scoring,
text and rendering, in which there is little for a state machine to say. The map covers the modelled
code only, so its share of the whole repository is small.
