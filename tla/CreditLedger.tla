---------------------------- MODULE CreditLedger ----------------------------
(***************************************************************************)
(* The credit ledger of one organization: grants, reservations, the        *)
(* allocations that tie a reservation to the grants it drew on, and the    *)
(* append-only ledger entries.  One action is one committed transaction of *)
(* credits.ts, reservations.ts or refundUsage; CreditTransactions refines  *)
(* the picture to single SQL statements.                                   *)
(*                                                                         *)
(* Ids are numbers because the code orders rows by id: grants by           *)
(* (expiresAt, id), a reservation's allocations by allocation id.          *)
(***************************************************************************)
EXTENDS Sums

CONSTANTS
  NumGrants,        \* grant rows the organization may ever hold
  NumReservations,  \* reservation rows it may ever hold
  Interviews,       \* reservations of an interview_% operation, swept when stale
  Keys,             \* idempotency keys of extensions and usage refunds
  MaxUnits,         \* bound: units of one grant, one reservation, one extension
  Horizon,          \* bound: the clock stops here
  HoldTime,         \* rate card's maxDurationSeconds
  RefundLife        \* lifetime of a grant that returns refunded usage

Grants == 1 .. NumGrants
Reservations == 1 .. NumReservations

ASSUME LedgerAssumption ==
  /\ NumGrants \in Nat
  /\ NumReservations \in Nat
  /\ Interviews \subseteq Reservations
  /\ MaxUnits \in Nat /\ Horizon \in Nat /\ HoldTime \in Nat /\ RefundLife \in Nat

VARIABLES
  grantState,  \* billing_credit_grants.state, "none" before the row exists
  original,    \* original_units
  remaining,   \* remaining_units
  expiresAt,   \* expires_at
  resState,    \* billing_credit_reservations.state, "none" before the row exists
  maximum,     \* maximum_units
  settled,     \* settled_units
  deadline,    \* deadline_at
  allocated,   \* allocated_units by reservation and grant, 0 without a row
  consumed,    \* consumed_units by reservation and grant
  batch,       \* where the allocation's id sorts: 0 reserve's rows, -1 / 1 an extension's
  posted,      \* sum of units_delta over the ledger entries of a grant
  marker,      \* the ledger entry that carries a caller's idempotency key
  now,
  writtenOff   \* history: units that left a grant for good without being consumed

grantVars == <<grantState, original, expiresAt>>
resVars == <<resState, maximum, settled, deadline>>
allocVars == <<allocated, consumed, batch>>
vars == <<grantVars, remaining, resVars, allocVars, posted, marker, now, writtenOff>>

NoMarker == [op |-> "none", reservation |-> 0, units |-> 0]
Markers == [op : {"none", "extend", "refund"}, reservation : Nat, units : Nat]

GrantStates == {"none", "active", "frozen", "expired", "revoked"}
ReservationStates == {"none", "reserved", "settled", "released"}
Open == {"active", "frozen"}
Times == 0 .. Horizon

TypeOK ==
  /\ grantState \in [Grants -> GrantStates]
  /\ original \in [Grants -> Nat]
  /\ remaining \in [Grants -> Nat]
  /\ expiresAt \in [Grants -> Nat]
  /\ resState \in [Reservations -> ReservationStates]
  /\ maximum \in [Reservations -> Nat]
  /\ settled \in [Reservations -> Nat]
  /\ deadline \in [Reservations -> Nat]
  /\ allocated \in [Reservations -> [Grants -> Nat]]
  /\ consumed \in [Reservations -> [Grants -> Nat]]
  /\ batch \in [Reservations -> [Grants -> Int]]
  /\ posted \in [Grants -> Int]
  /\ marker \in [Keys -> Markers]
  /\ now \in Nat
  /\ writtenOff \in [Grants -> Nat]

Init ==
  /\ grantState = [g \in Grants |-> "none"]
  /\ original = [g \in Grants |-> 0]
  /\ remaining = [g \in Grants |-> 0]
  /\ expiresAt = [g \in Grants |-> 0]
  /\ resState = [r \in Reservations |-> "none"]
  /\ maximum = [r \in Reservations |-> 0]
  /\ settled = [r \in Reservations |-> 0]
  /\ deadline = [r \in Reservations |-> 0]
  /\ allocated = [r \in Reservations |-> [g \in Grants |-> 0]]
  /\ consumed = [r \in Reservations |-> [g \in Grants |-> 0]]
  /\ batch = [r \in Reservations |-> [g \in Grants |-> 0]]
  /\ posted = [g \in Grants |-> 0]
  /\ marker = [k \in Keys |-> NoMarker]
  /\ now = 0
  /\ writtenOff = [g \in Grants |-> 0]

-----------------------------------------------------------------------------
(* Grants: credits.ts *)

\* A grant row and its 'grant' entry.  A second call with the key finds the
\* entry and changes nothing.
GrantCredits(g, units, expiry) ==
  /\ grantState[g] = "none"
  /\ grantState' = [grantState EXCEPT ![g] = "active"]
  /\ original' = [original EXCEPT ![g] = units]
  /\ remaining' = [remaining EXCEPT ![g] = units]
  /\ posted' = [posted EXCEPT ![g] = units]
  /\ expiresAt' = [expiresAt EXCEPT ![g] = expiry]
  /\ UNCHANGED <<resVars, allocVars, marker, now, writtenOff>>

\* Mutant: the forfeited units leave no entry in the ledger.
EndGrantUnposted(g, endState) ==
  /\ grantState[g] \in Open
  /\ grantState' = [grantState EXCEPT ![g] = endState]
  /\ remaining' = [remaining EXCEPT ![g] = 0]
  /\ writtenOff' = [writtenOff EXCEPT ![g] = @ + remaining[g]]
  /\ UNCHANGED <<original, expiresAt, resVars, allocVars, posted, marker, now>>

\* applyTerminalTransition: what remains is forfeited in the same step.
EndGrant(g, endState) ==
  /\ grantState[g] \in Open
  /\ grantState' = [grantState EXCEPT ![g] = endState]
  /\ remaining' = [remaining EXCEPT ![g] = 0]
  /\ posted' = [posted EXCEPT ![g] = @ - remaining[g]]
  /\ writtenOff' = [writtenOff EXCEPT ![g] = @ + remaining[g]]
  /\ UNCHANGED <<original, expiresAt, resVars, allocVars, marker, now>>

\* The worker sweeps active grants; recovery from non-payment expires frozen ones.
ExpireGrant(g) == expiresAt[g] <= now /\ EndGrant(g, "expired")

\* A full pack refund or a lost dispute.
RevokeGrant(g) == EndGrant(g, "revoked")

\* applyFreezeTransition: usability changes, units do not.
MoveGrant(g, from, to) ==
  /\ grantState[g] = from
  /\ grantState' = [grantState EXCEPT ![g] = to]
  /\ UNCHANGED <<original, remaining, expiresAt, resVars, allocVars, posted, marker, now, writtenOff>>

FreezeGrant(g) == MoveGrant(g, "active", "frozen")
UnfreezeGrant(g) == MoveGrant(g, "frozen", "active")

\* Mutant: the bound is the grant's size, not what is left of it.
AdjustDownAnySize(g, units) ==
  /\ units <= original[g]
  /\ remaining' = [remaining EXCEPT ![g] = @ - units]
  /\ posted' = [posted EXCEPT ![g] = @ - units]
  /\ writtenOff' = [writtenOff EXCEPT ![g] = @ + units]
  /\ UNCHANGED <<grantVars, resVars, allocVars, marker, now>>

\* adjustCreditGrant as a partial pack refund calls it: down, never below zero,
\* whatever the grant's state.
AdjustDown(g, units) ==
  /\ units <= remaining[g]
  /\ remaining' = [remaining EXCEPT ![g] = @ - units]
  /\ posted' = [posted EXCEPT ![g] = @ - units]
  /\ writtenOff' = [writtenOff EXCEPT ![g] = @ + units]
  /\ UNCHANGED <<grantVars, resVars, allocVars, marker, now>>

-----------------------------------------------------------------------------
(* Reservations: reservations.ts *)

\* Mutant: an ended grant counts as valid while its expiry is ahead.
UnexpiredWhateverState(g) == grantState[g] # "none" /\ expiresAt[g] > now

Unexpired(g) == grantState[g] = "active" /\ expiresAt[g] > now

Before(g, h) ==
  \/ expiresAt[g] < expiresAt[h]
  \/ expiresAt[g] = expiresAt[h] /\ g < h

\* The allocation walk: earliest expiry first, each grant drained before the
\* next is touched.  No such function exists when the balance is short, and the
\* transaction rolls back.
Walks(units) ==
  {take \in [Grants -> 0 .. units] :
     /\ Total(take, NumGrants) = units
     /\ \A g \in Grants : take[g] > 0 => Unexpired(g) /\ take[g] <= remaining[g]
     /\ \A g, h \in Grants :
          take[g] > 0 /\ Unexpired(h) /\ Before(h, g) => take[h] = remaining[h]}

\* Mutant: a second draw on a grant replaces the row instead of widening it.
AllocateAfresh(r, take, rank) ==
  /\ remaining' = [g \in Grants |-> remaining[g] - take[g]]
  /\ posted' = [g \in Grants |-> posted[g] - take[g]]
  /\ allocated' = [allocated EXCEPT ![r] =
       [g \in Grants |-> IF take[g] > 0 THEN take[g] ELSE allocated[r][g]]]
  /\ batch' = [batch EXCEPT ![r] =
       [g \in Grants |-> IF allocated[r][g] = 0 THEN rank ELSE batch[r][g]]]

\* The writes of the walk; a second draw on a grant widens its allocation row.
Allocate(r, take, rank) ==
  /\ remaining' = [g \in Grants |-> remaining[g] - take[g]]
  /\ posted' = [g \in Grants |-> posted[g] - take[g]]
  /\ allocated' = [allocated EXCEPT ![r] = [g \in Grants |-> allocated[r][g] + take[g]]]
  /\ batch' = [batch EXCEPT ![r] =
       [g \in Grants |-> IF allocated[r][g] = 0 THEN rank ELSE batch[r][g]]]

ReserveCredits(r, units) ==
  /\ resState[r] = "none"
  /\ \E take \in Walks(units) : Allocate(r, take, 0)
  /\ resState' = [resState EXCEPT ![r] = "reserved"]
  /\ maximum' = [maximum EXCEPT ![r] = units]
  /\ deadline' = [deadline EXCEPT ![r] = now + HoldTime]
  /\ UNCHANGED <<grantVars, settled, consumed, marker, now, writtenOff>>

\* rank: the extension's allocation ids start with its own key, which may sort
\* before or after the reservation's.
ExtendReservation(k, r, units, rank) ==
  /\ marker[k] = NoMarker
  /\ resState[r] = "reserved"
  /\ deadline[r] >= now
  /\ \E take \in Walks(units) : Allocate(r, take, rank)
  /\ maximum' = [maximum EXCEPT ![r] = @ + units]
  /\ marker' = [marker EXCEPT ![k] = [op |-> "extend", reservation |-> r, units |-> units]]
  /\ UNCHANGED <<grantVars, resState, settled, deadline, consumed, now, writtenOff>>

\* listAllocationsForReservation orders by allocation id.
Earlier(r, g, h) ==
  \/ batch[r][g] < batch[r][h]
  \/ batch[r][g] = batch[r][h] /\ g < h

\* How a loop over the allocations spreads units over rows that can take at most
\* limit[g] each.
Spreads(r, units, limit) ==
  {part \in [Grants -> 0 .. units] :
     /\ Total(part, NumGrants) = units
     /\ \A g \in Grants : part[g] <= limit[g]
     /\ \A g, h \in Grants : part[g] > 0 /\ Earlier(r, h, g) => part[h] = limit[h]}

\* Mutant: the whole allocation comes back, what was consumed of it too.
CloseAllocationsInFull(r, used) ==
  LET leftover(g) == allocated[r][g] IN
  /\ remaining' = [g \in Grants |-> remaining[g] + IF Unexpired(g) THEN leftover(g) ELSE 0]
  /\ posted' = [g \in Grants |-> posted[g] + IF Unexpired(g) THEN leftover(g) ELSE 0]
  /\ writtenOff' = [g \in Grants |-> writtenOff[g] + IF Unexpired(g) THEN 0 ELSE leftover(g)]
  /\ consumed' = [consumed EXCEPT ![r] = used]

\* releaseOrExpireLeftover for every allocation of r, after used[g] of each was
\* consumed: back to a grant that is active and unexpired, forfeited otherwise.
CloseAllocations(r, used) ==
  LET leftover(g) == allocated[r][g] - used[g] IN
  /\ remaining' = [g \in Grants |-> remaining[g] + IF Unexpired(g) THEN leftover(g) ELSE 0]
  /\ posted' = [g \in Grants |-> posted[g] + IF Unexpired(g) THEN leftover(g) ELSE 0]
  /\ writtenOff' = [g \in Grants |-> writtenOff[g] + IF Unexpired(g) THEN 0 ELSE leftover(g)]
  /\ consumed' = [consumed EXCEPT ![r] = used]

\* The settle key belongs to the reservation, so a replay is a reservation that
\* is no longer reserved.
SettleReservation(r, units) ==
  /\ resState[r] = "reserved"
  /\ units <= maximum[r]
  /\ \E used \in Spreads(r, units, allocated[r]) : CloseAllocations(r, used)
  /\ resState' = [resState EXCEPT ![r] = "settled"]
  /\ settled' = [settled EXCEPT ![r] = units]
  /\ UNCHANGED <<grantVars, maximum, deadline, allocated, batch, marker, now>>

\* Mutant: a reservation on a grant that ended cannot be released.
ReleaseWhileActive(r) ==
  /\ resState[r] = "reserved"
  /\ \A g \in Grants : allocated[r][g] > 0 => grantState[g] = "active"
  /\ CloseAllocations(r, [g \in Grants |-> 0])
  /\ resState' = [resState EXCEPT ![r] = "released"]
  /\ UNCHANGED <<grantVars, maximum, settled, deadline, allocated, batch, marker, now>>

ReleaseReservation(r) ==
  /\ resState[r] = "reserved"
  /\ CloseAllocations(r, [g \in Grants |-> 0])
  /\ resState' = [resState EXCEPT ![r] = "released"]
  /\ UNCHANGED <<grantVars, maximum, settled, deadline, allocated, batch, marker, now>>

\* The interview retention worker closes what nobody closed.
ReleaseStale(r) ==
  /\ r \in Interviews
  /\ deadline[r] <= now
  /\ ReleaseReservation(r)

-----------------------------------------------------------------------------
(* Usage refunds: feature-authorization.ts *)

\* Consumed units go back to their grant while it is active, past its expiry or
\* not; units of a grant that is not make a fresh short-lived grant, whose id is
\* fresh[g].
Lapsed(back) == {g \in Grants : back[g] > 0 /\ grantState[g] # "active"}

Direct(back, g) == IF grantState[g] = "active" THEN back[g] ELSE 0

Reissued(back, fresh, g) ==
  LET from == {h \in Lapsed(back) : fresh[h] = g} IN
  IF from = {} THEN 0 ELSE back[CHOOSE h \in from : TRUE]

\* An adjustment above original_units throws and rolls the refund back.
GiveBack(r, back, fresh) ==
  LET direct(g) == Direct(back, g)
      reissued(g) == Reissued(back, fresh, g)
  IN  /\ \A g, h \in Lapsed(back) : g # h => fresh[g] # fresh[h]
      /\ \A g \in Grants : direct(g) > 0 => remaining[g] + direct(g) <= original[g]
      /\ grantState' = [g \in Grants |-> IF reissued(g) > 0 THEN "active" ELSE grantState[g]]
      /\ expiresAt' = [g \in Grants |-> IF reissued(g) > 0 THEN now + RefundLife ELSE expiresAt[g]]
      /\ original' = [g \in Grants |-> original[g] + reissued(g)]
      /\ remaining' = [g \in Grants |-> remaining[g] + direct(g) + reissued(g)]
      /\ posted' = [g \in Grants |-> posted[g] + direct(g) + reissued(g)]
      /\ consumed' = [consumed EXCEPT ![r] = [g \in Grants |-> consumed[r][g] - back[g]]]
      /\ writtenOff' = [g \in Grants |-> writtenOff[g] + back[g] - direct(g)]

\* The guard compares with what was settled, not with what is still consumed.
RefundUsage(k, r, units) ==
  /\ marker[k] = NoMarker
  /\ resState[r] = "settled"
  /\ units <= settled[r]
  /\ \E back \in Spreads(r, Smaller(units, Total(consumed[r], NumGrants)), consumed[r]) :
       \E fresh \in [Lapsed(back) -> {g \in Grants : grantState[g] = "none"}] :
         GiveBack(r, back, fresh)
  /\ marker' = [marker EXCEPT ![k] = [op |-> "refund", reservation |-> r, units |-> units]]
  /\ UNCHANGED <<resVars, allocated, batch, now>>

Tick ==
  /\ now < Horizon
  /\ now' = now + 1
  /\ UNCHANGED <<grantVars, remaining, resVars, allocVars, posted, marker, writtenOff>>

-----------------------------------------------------------------------------
Next ==
  \/ \E g \in Grants :
       \/ \E units \in 1 .. MaxUnits, expiry \in 1 .. Horizon : GrantCredits(g, units, expiry)
       \/ ExpireGrant(g)
       \/ RevokeGrant(g)
       \/ FreezeGrant(g)
       \/ UnfreezeGrant(g)
       \/ \E units \in 1 .. MaxUnits : AdjustDown(g, units)
  \/ \E r \in Reservations :
       \/ \E units \in 1 .. MaxUnits :
            \/ ReserveCredits(r, units)
            \/ \E k \in Keys, rank \in {-1, 1} : ExtendReservation(k, r, units, rank)
            \/ \E k \in Keys : RefundUsage(k, r, units)
       \/ \E units \in 0 .. maximum[r] : SettleReservation(r, units)
       \/ ReleaseReservation(r)
       \/ ReleaseStale(r)
  \/ Tick

Spec == Init /\ [][Next]_vars

\* The worker processes run for ever and time passes; customers owe nothing.
Fairness ==
  /\ WF_vars(Tick)
  /\ \A r \in Reservations : WF_vars(ReleaseStale(r))
  /\ \A g \in Grants : WF_vars(ExpireGrant(g) /\ grantState[g] = "active")

FairSpec == Spec /\ Fairness
-----------------------------------------------------------------------------
(* Properties *)

\* A reservation's claim on a grant: what it holds while open, what it used once
\* closed.
Held(r, g) == IF resState[r] = "reserved" THEN allocated[r][g] ELSE 0
HeldOf(g) == Total([r \in Reservations |-> Held(r, g)], NumReservations)
ConsumedOf(g) == Total([r \in Reservations |-> consumed[r][g]], NumReservations)

\* The denormalized remaining_units of every grant is the sum of its ledger
\* entries (the lockstep credits.ts promises).
LedgerLockstep == \A g \in Grants : remaining[g] = posted[g]

\* No unit of a grant is ever lost or in two places: what was granted is
\* spendable, held by open reservations, consumed by settled ones or written off.
\* So the units check of billing_credit_grants never stops a transaction and no
\* interleaving of reserve, extend, settle, release, refund and expiry overspends.
UnitConservation ==
  \A g \in Grants : original[g] = remaining[g] + HeldOf(g) + ConsumedOf(g) + writtenOff[g]

\* The cross-row conservation schema.ts leaves to the application: a
\* reservation's allocations add up to its maximum, and a settled one's
\* consumption stays within what it settled, whatever was refunded since.
RowsAgree ==
  \A r \in Reservations :
    /\ Total(allocated[r], NumGrants) = maximum[r]
    /\ settled[r] <= maximum[r]
    /\ Total(consumed[r], NumGrants) <= settled[r]
    /\ \A g \in Grants : consumed[r][g] <= allocated[r][g]

\* What a row holds before its transaction and after it: nothing.  With the
\* agreements above this is inductive (CreditLedgerProofs).
RestingRowsAreEmpty ==
  /\ \A g \in Grants :
       /\ grantState[g] = "none" => original[g] = 0
       /\ grantState[g] \notin Open => remaining[g] = 0
  /\ \A r \in Reservations :
       /\ resState[r] = "none" => maximum[r] = 0 /\ \A g \in Grants : allocated[r][g] = 0
       /\ resState[r] \in {"none", "reserved"} =>
            settled[r] = 0 /\ \A g \in Grants : consumed[r][g] = 0

LedgerInv ==
  /\ TypeOK
  /\ LedgerLockstep
  /\ RestingRowsAreEmpty
  /\ RowsAgree
  /\ UnitConservation

\* A grant that expired or was revoked is over: no settlement, release, refund or
\* adjustment that was under way ever makes it spendable again.
EndedGrantsStayEmpty ==
  [][\A g \in Grants : grantState[g] \in {"expired", "revoked"} =>
       grantState'[g] = grantState[g] /\ remaining'[g] = 0]_vars

\* An extension widens a reservation once per idempotency key: every step that
\* raises a maximum writes a marker of exactly that size, and markers are final.
WideningIsMarkedOnce ==
  [][/\ \A k \in Keys : marker[k] # NoMarker => marker'[k] = marker[k]
     /\ \A r \in Reservations : resState[r] = "reserved" /\ maximum'[r] # maximum[r] =>
          \E k \in Keys : /\ marker[k] = NoMarker
                          /\ marker'[k].op = "extend"
                          /\ marker'[k].reservation = r
                          /\ marker'[k].units = maximum'[r] - maximum[r]]_vars

\* An interview reservation nobody closed does not hold its units for ever.
StaleHoldsAreReleased ==
  \A r \in Interviews :
    (resState[r] = "reserved" /\ deadline[r] <= Horizon) ~> (resState[r] # "reserved")

\* The ledger keeps the promise of CreditAccount.
Account == INSTANCE CreditAccount WITH
  issued <- original,
  balance <- remaining,
  held <- [r \in Reservations |-> [g \in Grants |-> Held(r, g)]],
  spent <- consumed,
  gone <- writtenOff

KeepsAccount == Account!Spec

-----------------------------------------------------------------------------
(* What the documentation says and the code does not do *)

\* "unitsDelta records the total refunded here".
RefundMarkerIsWhatWasRefunded ==
  [][\A k \in Keys : marker[k] = NoMarker /\ marker'[k].op = "refund" =>
       LET r == marker'[k].reservation IN
       Total(consumed[r], NumGrants) - Total(consumed'[r], NumGrants) = marker'[k].units]_vars
=============================================================================
