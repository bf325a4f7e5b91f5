------------------------ MODULE CreditLedgerProofs ------------------------
(***************************************************************************)
(* CreditLedger for any number of grants and reservations and any bounds:  *)
(* LedgerInv is inductive, one lemma per transaction.  Each lemma first    *)
(* shows the next state is typed and its small facts, then carries the two *)
(* sums: over a reservation's grants (RowsAgree) and over a grant's        *)
(* reservations (UnitConservation).  The last part shows the refinement.   *)
(***************************************************************************)
EXTENDS CreditLedger, SumLemmas

-----------------------------------------------------------------------------
(* The functions the transactions choose *)

\* What the allocation walk takes is natural, covered, and adds up.
LEMMA WalkFacts ==
  ASSUME TypeOK, NEW units \in Nat, NEW take \in Walks(units)
  PROVE  /\ take \in [Grants -> Nat]
         /\ Total(take, NumGrants) = units
         /\ \A g \in Grants : take[g] <= remaining[g]
         /\ \A g \in Grants : take[g] > 0 => grantState[g] = "active"
BY DEF Walks, TypeOK, Unexpired

\* What a loop over the allocations spreads is natural, limited, and adds up.
LEMMA SpreadFacts ==
  ASSUME NEW r, NEW units \in Nat, NEW limit, NEW part \in Spreads(r, units, limit)
  PROVE  /\ part \in [Grants -> Nat]
         /\ Total(part, NumGrants) = units
         /\ \A g \in Grants : part[g] <= limit[g]
BY DEF Spreads

-----------------------------------------------------------------------------
(* The two sums *)

\* Rows over the grants add up grant by grant.
LEMMA RowTotalAdds ==
  ASSUME NEW f, NEW g, NEW h, \A i \in Grants : f[i] \in Int /\ g[i] \in Int /\ h[i] = f[i] + g[i]
  PROVE  /\ Total(f, NumGrants) \in Int
         /\ Total(h, NumGrants) = Total(f, NumGrants) + Total(g, NumGrants)
<1>1. NumGrants \in Nat BY LedgerAssumption
<1>2. IsSumOf(h, f, g, NumGrants)
  BY DEF Grants, IsSumOf
<1>. QED BY <1>1, <1>2, TotalAdd

\* Rows that stay what they are still agree.
LEMMA SameRowsAgree ==
  ASSUME RowsAgree, UNCHANGED <<allocated, consumed, maximum, settled>>
  PROVE  RowsAgree'
BY DEF RowsAgree

\* A reservation's figures on a grant are naturals.
LEMMA RowTypes ==
  ASSUME TypeOK, NEW q \in Reservations, NEW g \in Grants
  PROVE  allocated[q][g] \in Nat /\ consumed[q][g] \in Nat /\ Held(q, g) \in Nat
<1>1. allocated[q] \in [Grants -> Nat] /\ consumed[q] \in [Grants -> Nat]
  BY DEF TypeOK
<1>. QED BY <1>1 DEF Held

\* Only grants move: each grant's own figures have to balance.
LEMMA GrantsMove ==
  ASSUME LedgerInv, TypeOK', UNCHANGED <<resState, allocated, consumed>>,
         \A g \in Grants : original'[g] - original[g]
                             = (remaining'[g] - remaining[g]) + (writtenOff'[g] - writtenOff[g])
  PROVE  UnitConservation'
<1>. SUFFICES ASSUME NEW g \in Grants
              PROVE  original'[g] = remaining'[g] + HeldOf(g)' + ConsumedOf(g)' + writtenOff'[g]
  BY DEF UnitConservation
<1>1. HeldOf(g)' = HeldOf(g) /\ ConsumedOf(g)' = ConsumedOf(g)
  BY DEF HeldOf, ConsumedOf, Held
<1>2. HeldOf(g) \in Nat
  <2>. DEFINE f == [r \in Reservations |-> Held(r, g)]
  <2>1. \A r \in 1 .. NumReservations : f[r] \in Nat
    BY RowTypes DEF LedgerInv, Reservations
  <2>2. Total(f, NumReservations) \in Nat
    BY <2>1, LedgerAssumption, TotalNat
  <2>. QED BY <2>2 DEF HeldOf
<1>3. ConsumedOf(g) \in Nat
  <2>. DEFINE f == [r \in Reservations |-> consumed[r][g]]
  <2>1. \A r \in 1 .. NumReservations : f[r] \in Nat
    BY RowTypes DEF LedgerInv, Reservations
  <2>2. Total(f, NumReservations) \in Nat
    BY <2>1, LedgerAssumption, TotalNat
  <2>. QED BY <2>2 DEF ConsumedOf
<1>4. original[g] = remaining[g] + HeldOf(g) + ConsumedOf(g) + writtenOff[g]
  BY DEF LedgerInv, UnitConservation
<1>5. /\ original[g] \in Nat /\ remaining[g] \in Nat /\ writtenOff[g] \in Nat
      /\ original'[g] \in Nat /\ remaining'[g] \in Nat /\ writtenOff'[g] \in Nat
  BY DEF LedgerInv, TypeOK
<1>6. original'[g] - original[g] = (remaining'[g] - remaining[g]) + (writtenOff'[g] - writtenOff[g])
  OBVIOUS
<1>. QED BY <1>1, <1>2, <1>3, <1>4, <1>5, <1>6

\* One reservation's row moves against the grants' figures.
LEMMA OneRowMoves ==
  ASSUME LedgerInv, TypeOK', NEW r \in Reservations,
         \A q \in Reservations \ {r} : /\ resState'[q] = resState[q]
                                       /\ allocated'[q] = allocated[q]
                                       /\ consumed'[q] = consumed[q],
         \A g \in Grants : original'[g] - original[g]
                             = (remaining'[g] - remaining[g]) + (writtenOff'[g] - writtenOff[g])
                               + (Held(r, g)' - Held(r, g)) + (consumed'[r][g] - consumed[r][g])
  PROVE  UnitConservation'
<1>. SUFFICES ASSUME NEW g \in Grants
              PROVE  original'[g] = remaining'[g] + HeldOf(g)' + ConsumedOf(g)' + writtenOff'[g]
  BY DEF UnitConservation
<1>. DEFINE h0 == [q \in Reservations |-> Held(q, g)]
            h1 == [q \in Reservations |-> Held(q, g)']
            c0 == [q \in Reservations |-> consumed[q][g]]
            c1 == [q \in Reservations |-> consumed'[q][g]]
<1>0. \A q \in Reservations : /\ Held(q, g) \in Nat /\ consumed[q][g] \in Nat
                                /\ Held(q, g)' \in Nat /\ consumed'[q][g] \in Nat
  <2>. SUFFICES ASSUME NEW q \in Reservations
                PROVE  /\ Held(q, g) \in Nat /\ consumed[q][g] \in Nat
                       /\ Held(q, g)' \in Nat /\ consumed'[q][g] \in Nat
    OBVIOUS
  <2>1. allocated'[q] \in [Grants -> Nat] /\ consumed'[q] \in [Grants -> Nat]
    BY DEF TypeOK
  <2>. QED BY <2>1, RowTypes DEF LedgerInv, Held
<1>1. DiffersAt(h1, h0, r, NumReservations)
  BY <1>0 DEF Held, Reservations, DiffersAt
<1>2. DiffersAt(c1, c0, r, NumReservations)
  BY <1>0 DEF Reservations, DiffersAt
<1>. HIDE DEF h0, h1, c0, c1
<1>3. /\ Total(h0, NumReservations) \in Int
      /\ Total(h1, NumReservations) = Total(h0, NumReservations) + (h1[r] - h0[r])
  BY <1>1, LedgerAssumption, TotalUpdate
<1>4. /\ Total(c0, NumReservations) \in Int
      /\ Total(c1, NumReservations) = Total(c0, NumReservations) + (c1[r] - c0[r])
  BY <1>2, LedgerAssumption, TotalUpdate
<1>5. /\ HeldOf(g) = Total(h0, NumReservations)
      /\ HeldOf(g)' = Total(h1, NumReservations)
      /\ ConsumedOf(g) = Total(c0, NumReservations)
      /\ ConsumedOf(g)' = Total(c1, NumReservations)
  BY DEF HeldOf, ConsumedOf, h0, h1, c0, c1
<1>6. /\ h0[r] = Held(r, g) /\ h1[r] = Held(r, g)'
      /\ c0[r] = consumed[r][g] /\ c1[r] = consumed'[r][g]
      /\ h0[r] \in Int /\ h1[r] \in Int /\ c0[r] \in Int /\ c1[r] \in Int
  BY <1>0 DEF h0, h1, c0, c1, Reservations
<1>7. /\ original[g] \in Nat /\ remaining[g] \in Nat /\ writtenOff[g] \in Nat
      /\ original'[g] \in Nat /\ remaining'[g] \in Nat /\ writtenOff'[g] \in Nat
  BY DEF LedgerInv, TypeOK
<1>8. original[g] = remaining[g] + HeldOf(g) + ConsumedOf(g) + writtenOff[g]
  BY DEF LedgerInv, UnitConservation
<1>9. original'[g] - original[g]
        = (remaining'[g] - remaining[g]) + (writtenOff'[g] - writtenOff[g])
          + (Held(r, g)' - Held(r, g)) + (consumed'[r][g] - consumed[r][g])
  OBVIOUS
<1>10. /\ HeldOf(g) \in Int /\ Held(r, g) \in Int /\ Held(r, g)' \in Int
       /\ HeldOf(g)' = HeldOf(g) + (Held(r, g)' - Held(r, g))
  BY <1>3, <1>5, <1>6
<1>11. /\ ConsumedOf(g) \in Int /\ consumed[r][g] \in Int /\ consumed'[r][g] \in Int
       /\ ConsumedOf(g)' = ConsumedOf(g) + (consumed'[r][g] - consumed[r][g])
  BY <1>4, <1>5, <1>6
<1>12. ASSUME NEW h, h = HeldOf(g) + (Held(r, g)' - Held(r, g)),
              NEW c, c = ConsumedOf(g) + (consumed'[r][g] - consumed[r][g])
       PROVE  original'[g] = remaining'[g] + h + c + writtenOff'[g]
  BY <1>7, <1>8, <1>9, <1>10, <1>11, <1>12
<1>. QED BY <1>10, <1>11, <1>12

-----------------------------------------------------------------------------
(* One lemma per transaction *)

\* The empty tables satisfy the invariant.
LEMMA InitInv == Init => LedgerInv
<1>. SUFFICES ASSUME Init PROVE LedgerInv
  OBVIOUS
<1>. DEFINE none == [g \in Grants |-> 0]
            nobody == [r \in Reservations |-> 0]
<1>1. TypeOK /\ LedgerLockstep /\ RestingRowsAreEmpty
  <2>1. NoMarker \in Markers BY DEF NoMarker, Markers
  <2>. QED BY <2>1 DEF Init, TypeOK, GrantStates, ReservationStates, LedgerLockstep, RestingRowsAreEmpty, Open
<1>2. Total(none, NumGrants) = 0
  BY LedgerAssumption, TotalZero DEF Grants
<1>3. Total(nobody, NumReservations) = 0
  BY LedgerAssumption, TotalZero DEF Reservations
<1>4. RowsAgree
  BY <1>2 DEF Init, RowsAgree
<1>5. UnitConservation
  <2>. SUFFICES ASSUME NEW g \in Grants
                PROVE  original[g] = remaining[g] + HeldOf(g) + ConsumedOf(g) + writtenOff[g]
    BY DEF UnitConservation
  <2>1. HeldOf(g) = Total(nobody, NumReservations)
    <3>1. [r \in Reservations |-> Held(r, g)] = nobody BY DEF Init, Held
    <3>. QED BY <3>1 DEF HeldOf
  <2>2. ConsumedOf(g) = Total(nobody, NumReservations)
    <3>1. [r \in Reservations |-> consumed[r][g]] = nobody BY DEF Init
    <3>. QED BY <3>1 DEF ConsumedOf
  <2>. QED BY <1>3, <2>1, <2>2 DEF Init
<1>. QED BY <1>1, <1>4, <1>5 DEF LedgerInv

\* grantCredits puts as many units into the row as it enters.
LEMMA GrantInv ==
  ASSUME LedgerInv, NEW g \in Grants, NEW units \in Nat, NEW expiry \in Nat,
         GrantCredits(g, units, expiry)
  PROVE  LedgerInv'
<1>. USE DEF LedgerInv, GrantCredits, resVars, allocVars
<1>1. TypeOK'
  BY DEF TypeOK, GrantStates
<1>2. LedgerLockstep'
  BY DEF TypeOK, LedgerLockstep
<1>3. RestingRowsAreEmpty'
  BY DEF TypeOK, RestingRowsAreEmpty, Open
<1>4. RowsAgree'
  BY SameRowsAgree
<1>5. \A h \in Grants : original'[h] - original[h]
                           = (remaining'[h] - remaining[h]) + (writtenOff'[h] - writtenOff[h])
  <2>1. original[g] = 0 /\ remaining[g] = 0
    BY DEF RestingRowsAreEmpty, Open
  <2>. QED BY <2>1 DEF TypeOK
<1>6. UnitConservation'
  BY <1>1, <1>5, GrantsMove
<1>. QED BY <1>1, <1>2, <1>3, <1>4, <1>6

\* Expiry and revocation write off exactly what they take away.
LEMMA EndInv ==
  ASSUME LedgerInv, NEW g \in Grants, NEW endState \in {"expired", "revoked"},
         EndGrant(g, endState)
  PROVE  LedgerInv'
<1>. USE DEF LedgerInv, EndGrant, resVars, allocVars
<1>1. TypeOK'
  BY DEF TypeOK, GrantStates
<1>2. LedgerLockstep'
  BY DEF TypeOK, LedgerLockstep
<1>3. RestingRowsAreEmpty'
  BY DEF TypeOK, RestingRowsAreEmpty, Open
<1>4. RowsAgree'
  BY SameRowsAgree
<1>5. \A h \in Grants : original'[h] - original[h]
                           = (remaining'[h] - remaining[h]) + (writtenOff'[h] - writtenOff[h])
  BY DEF TypeOK
<1>6. UnitConservation'
  BY <1>1, <1>5, GrantsMove
<1>. QED BY <1>1, <1>2, <1>3, <1>4, <1>6

\* Freezing and unfreezing move no units.
LEMMA MoveInv ==
  ASSUME LedgerInv, NEW g \in Grants, NEW from \in Open, NEW to \in Open, MoveGrant(g, from, to)
  PROVE  LedgerInv'
<1>. USE DEF LedgerInv, MoveGrant, resVars, allocVars
<1>1. TypeOK'
  BY DEF TypeOK, GrantStates, Open
<1>2. LedgerLockstep'
  BY DEF LedgerLockstep
<1>3. RestingRowsAreEmpty'
  BY DEF TypeOK, RestingRowsAreEmpty, Open
<1>4. RowsAgree'
  BY SameRowsAgree
<1>5. UnitConservation'
  BY <1>1, GrantsMove DEF TypeOK
<1>. QED BY <1>1, <1>2, <1>3, <1>4, <1>5

\* An adjustment writes off what it takes and takes no more than there is.
LEMMA AdjustInv ==
  ASSUME LedgerInv, NEW g \in Grants, NEW units \in Nat, AdjustDown(g, units)
  PROVE  LedgerInv'
<1>. USE DEF LedgerInv, AdjustDown, resVars, allocVars, grantVars
<1>1. TypeOK'
  BY DEF TypeOK
<1>2. LedgerLockstep'
  BY DEF TypeOK, LedgerLockstep
<1>3. RestingRowsAreEmpty'
  BY DEF TypeOK, RestingRowsAreEmpty
<1>4. RowsAgree'
  BY SameRowsAgree
<1>5. \A h \in Grants : original'[h] - original[h]
                           = (remaining'[h] - remaining[h]) + (writtenOff'[h] - writtenOff[h])
  BY DEF TypeOK
<1>6. UnitConservation'
  BY <1>1, <1>5, GrantsMove
<1>. QED BY <1>1, <1>2, <1>3, <1>4, <1>6

\* The sums of one reservation's row follow the row.
LEMMA OneRowAgrees ==
  ASSUME RowsAgree, NEW r \in Reservations,
         \A q \in Reservations \ {r} : /\ allocated'[q] = allocated[q]
                                       /\ consumed'[q] = consumed[q]
                                       /\ maximum'[q] = maximum[q]
                                       /\ settled'[q] = settled[q],
         Total(allocated'[r], NumGrants) = maximum'[r],
         settled'[r] <= maximum'[r],
         Total(consumed'[r], NumGrants) <= settled'[r],
         \A g \in Grants : consumed'[r][g] <= allocated'[r][g]
  PROVE  RowsAgree'
BY DEF RowsAgree

\* A draw on the grants is paid for by their balances, unit by unit.
LEMMA AllocateFacts ==
  ASSUME LedgerInv, NEW r \in Reservations, NEW units \in Nat, NEW rank \in Int,
         NEW take \in Walks(units), Allocate(r, take, rank)
  PROVE  /\ remaining' \in [Grants -> Nat]
         /\ posted' = remaining'
         /\ allocated' \in [Reservations -> [Grants -> Nat]]
         /\ batch' \in [Reservations -> [Grants -> Int]]
         /\ \A q \in Reservations \ {r} : allocated'[q] = allocated[q]
         /\ \A g \in Grants : /\ allocated'[r][g] = allocated[r][g] + take[g]
                              /\ remaining'[g] = remaining[g] - take[g]
                              /\ take[g] \in Nat
                              /\ grantState[g] # "active" => take[g] = 0
         /\ Total(allocated'[r], NumGrants) = Total(allocated[r], NumGrants) + units
<1>1. /\ take \in [Grants -> Nat]
      /\ Total(take, NumGrants) = units
      /\ \A g \in Grants : take[g] <= remaining[g]
      /\ \A g \in Grants : take[g] > 0 => grantState[g] = "active"
  BY WalkFacts DEF LedgerInv
<1>2. allocated[r] \in [Grants -> Nat] /\ batch[r] \in [Grants -> Int] /\ remaining \in [Grants -> Nat]
  BY DEF LedgerInv, TypeOK
<1>3. /\ allocated'[r] = [g \in Grants |-> allocated[r][g] + take[g]]
      /\ batch'[r] = [g \in Grants |-> IF allocated[r][g] = 0 THEN rank ELSE batch[r][g]]
      /\ \A q \in Reservations \ {r} : allocated'[q] = allocated[q] /\ batch'[q] = batch[q]
      /\ DOMAIN allocated' = Reservations /\ DOMAIN batch' = Reservations
  BY DEF Allocate, LedgerInv, TypeOK
<1>4. allocated'[r] \in [Grants -> Nat] /\ batch'[r] \in [Grants -> Int]
  BY <1>1, <1>2, <1>3
<1>5. allocated' \in [Reservations -> [Grants -> Nat]] /\ batch' \in [Reservations -> [Grants -> Int]]
  BY <1>3, <1>4 DEF Allocate, LedgerInv, TypeOK
<1>6. remaining' \in [Grants -> Nat]
  BY <1>1, <1>2 DEF Allocate
<1>7. posted' = remaining'
  BY DEF Allocate, LedgerInv, LedgerLockstep
<1>8. Total(allocated'[r], NumGrants) = Total(allocated[r], NumGrants) + units
  <2>1. \A g \in Grants : /\ allocated[r][g] \in Int /\ take[g] \in Int
                         /\ allocated'[r][g] = allocated[r][g] + take[g]
    BY <1>1, <1>2, <1>3
  <2>. DEFINE was == allocated[r]
              is == allocated'[r]
  <2>2. \A g \in Grants : was[g] \in Int /\ take[g] \in Int /\ is[g] = was[g] + take[g]
    BY <2>1
  <2>. HIDE DEF was, is
  <2>3. Total(is, NumGrants) = Total(was, NumGrants) + Total(take, NumGrants)
    BY <2>2, RowTotalAdds
  <2>. QED BY <2>3, <1>1 DEF was, is
<1>9. \A g \in Grants : remaining'[g] = remaining[g] - take[g]
  BY DEF Allocate
<1>. QED BY <1>1, <1>3, <1>5, <1>6, <1>7, <1>8, <1>9

\* A reservation holds what the balances gave up for it.
LEMMA ReserveInv ==
  ASSUME LedgerInv, NEW r \in Reservations, NEW units \in Nat, ReserveCredits(r, units)
  PROVE  LedgerInv'
<1>. USE DEF LedgerInv
<1>1. PICK take \in Walks(units) : Allocate(r, take, 0)
  BY DEF ReserveCredits
<1>2. /\ resState[r] = "none" /\ maximum[r] = 0 /\ settled[r] = 0
      /\ \A g \in Grants : allocated[r][g] = 0 /\ consumed[r][g] = 0
  BY DEF ReserveCredits, RestingRowsAreEmpty
<1>3. /\ remaining' \in [Grants -> Nat]
      /\ posted' = remaining'
      /\ allocated' \in [Reservations -> [Grants -> Nat]]
      /\ batch' \in [Reservations -> [Grants -> Int]]
      /\ \A q \in Reservations \ {r} : allocated'[q] = allocated[q]
      /\ \A g \in Grants : /\ allocated'[r][g] = allocated[r][g] + take[g]
                           /\ remaining'[g] = remaining[g] - take[g]
                           /\ take[g] \in Nat
                           /\ grantState[g] # "active" => take[g] = 0
      /\ Total(allocated'[r], NumGrants) = Total(allocated[r], NumGrants) + units
  BY <1>1, AllocateFacts
<1>4. /\ resState' = [resState EXCEPT ![r] = "reserved"]
      /\ maximum' = [maximum EXCEPT ![r] = units]
      /\ deadline' = [deadline EXCEPT ![r] = now + HoldTime]
      /\ UNCHANGED <<grantState, original, expiresAt, settled, consumed, marker, now, writtenOff>>
  BY DEF ReserveCredits, grantVars
<1>5. TypeOK'
  BY <1>3, <1>4, LedgerAssumption DEF TypeOK, ReservationStates
<1>6. LedgerLockstep'
  BY <1>3 DEF LedgerLockstep
<1>7. RestingRowsAreEmpty'
  <2>1. ASSUME NEW g \in Grants, grantState'[g] \notin Open PROVE remaining'[g] = 0
    <3>1. grantState[g] \notin Open BY <1>4, <2>1
    <3>2. remaining[g] = 0 BY <3>1 DEF RestingRowsAreEmpty
    <3>3. take[g] = 0 BY <1>3, <3>1 DEF Open
    <3>. QED BY <1>3, <3>2, <3>3
  <2>2. ASSUME NEW q \in Reservations \ {r}
        PROVE  /\ resState'[q] = resState[q] /\ maximum'[q] = maximum[q] /\ settled'[q] = settled[q]
               /\ allocated'[q] = allocated[q] /\ consumed'[q] = consumed[q]
    BY <1>3, <1>4 DEF TypeOK
  <2>3. resState'[r] = "reserved" /\ settled'[r] = 0 /\ consumed'[r] = consumed[r]
    BY <1>2, <1>4 DEF TypeOK
  <2>. QED BY <1>2, <1>4, <2>1, <2>2, <2>3 DEF RestingRowsAreEmpty
<1>8. RowsAgree'
  <2>1. Total(allocated[r], NumGrants) = 0 /\ Total(consumed[r], NumGrants) <= 0
    BY <1>2 DEF RowsAgree
  <2>2. \A g \in Grants : consumed'[r][g] <= allocated'[r][g]
    BY <1>2, <1>3, <1>4 DEF RowsAgree
  <2>3. settled'[r] <= maximum'[r] /\ Total(consumed'[r], NumGrants) <= settled'[r]
    BY <1>2, <1>4, <2>1 DEF TypeOK
  <2>4. Total(allocated'[r], NumGrants) = maximum'[r]
    BY <1>3, <1>4, <2>1 DEF TypeOK
  <2>5. \A q \in Reservations \ {r} : /\ allocated'[q] = allocated[q]
                                       /\ consumed'[q] = consumed[q]
                                       /\ maximum'[q] = maximum[q]
                                       /\ settled'[q] = settled[q]
    BY <1>3, <1>4 DEF TypeOK
  <2>. QED BY <2>2, <2>3, <2>4, <2>5, OneRowAgrees
<1>9. UnitConservation'
  <2>1. \A g \in Grants : Held(r, g) = 0 /\ Held(r, g)' = take[g]
    BY <1>2, <1>3, <1>4 DEF Held, TypeOK
  <2>2. \A g \in Grants : original'[g] - original[g]
                             = (remaining'[g] - remaining[g]) + (writtenOff'[g] - writtenOff[g])
                               + (Held(r, g)' - Held(r, g)) + (consumed'[r][g] - consumed[r][g])
    <3>. SUFFICES ASSUME NEW g \in Grants
                  PROVE  original'[g] - original[g]
                           = (remaining'[g] - remaining[g]) + (writtenOff'[g] - writtenOff[g])
                             + (Held(r, g)' - Held(r, g)) + (consumed'[r][g] - consumed[r][g])
      OBVIOUS
    <3>1. /\ original[g] \in Nat /\ remaining[g] \in Nat /\ writtenOff[g] \in Nat /\ take[g] \in Nat
          /\ consumed'[r][g] = 0 /\ consumed[r][g] = 0
      BY <1>2, <1>3, <1>4 DEF TypeOK
    <3>2. original'[g] = original[g] /\ writtenOff'[g] = writtenOff[g] /\ remaining'[g] = remaining[g] - take[g]
      BY <1>3, <1>4
    <3>3. (remaining[g] - take[g]) - remaining[g] + (take[g] - 0) = 0
      BY <3>1
    <3>. QED BY <2>1, <3>1, <3>2, <3>3
  <2>3. \A q \in Reservations \ {r} : /\ resState'[q] = resState[q]
                                       /\ allocated'[q] = allocated[q]
                                       /\ consumed'[q] = consumed[q]
    BY <1>3, <1>4 DEF TypeOK
  <2>. QED BY <1>5, <2>2, <2>3, OneRowMoves
<1>. QED BY <1>5, <1>6, <1>7, <1>8, <1>9

\* An extension widens the reservation by what it took from the balances.
LEMMA ExtendInv ==
  ASSUME LedgerInv, NEW k \in Keys, NEW r \in Reservations, NEW units \in Nat, NEW rank \in Int,
         ExtendReservation(k, r, units, rank)
  PROVE  LedgerInv'
<1>. USE DEF LedgerInv
<1>1. PICK take \in Walks(units) : Allocate(r, take, rank)
  BY DEF ExtendReservation
<1>2. /\ resState[r] = "reserved" /\ settled[r] = 0
      /\ \A g \in Grants : consumed[r][g] = 0
  BY DEF ExtendReservation, RestingRowsAreEmpty
<1>3. /\ remaining' \in [Grants -> Nat]
      /\ posted' = remaining'
      /\ allocated' \in [Reservations -> [Grants -> Nat]]
      /\ batch' \in [Reservations -> [Grants -> Int]]
      /\ \A q \in Reservations \ {r} : allocated'[q] = allocated[q]
      /\ \A g \in Grants : /\ allocated'[r][g] = allocated[r][g] + take[g]
                           /\ remaining'[g] = remaining[g] - take[g]
                           /\ take[g] \in Nat
                           /\ grantState[g] # "active" => take[g] = 0
      /\ Total(allocated'[r], NumGrants) = Total(allocated[r], NumGrants) + units
  BY <1>1, AllocateFacts
<1>4. /\ maximum' = [maximum EXCEPT ![r] = maximum[r] + units]
      /\ marker' = [marker EXCEPT ![k] = [op |-> "extend", reservation |-> r, units |-> units]]
      /\ UNCHANGED <<grantState, original, expiresAt, resState, settled, deadline, consumed, now, writtenOff>>
  BY DEF ExtendReservation, grantVars
<1>5. TypeOK'
  <2>1. r \in Nat BY LedgerAssumption DEF Reservations
  <2>2. marker' \in [Keys -> Markers] BY <1>4, <2>1 DEF TypeOK, Markers
  <2>. QED BY <1>3, <1>4, <2>2 DEF TypeOK
<1>6. LedgerLockstep'
  BY <1>3 DEF LedgerLockstep
<1>7. maximum'[r] = maximum[r] + units /\ \A q \in Reservations \ {r} : maximum'[q] = maximum[q]
  BY <1>4 DEF TypeOK
<1>8. RestingRowsAreEmpty'
  <2>1. ASSUME NEW g \in Grants, grantState'[g] \notin Open PROVE remaining'[g] = 0
    <3>1. grantState[g] \notin Open BY <1>4, <2>1
    <3>2. remaining[g] = 0 BY <3>1 DEF RestingRowsAreEmpty
    <3>3. take[g] = 0 BY <1>3, <3>1 DEF Open
    <3>. QED BY <1>3, <3>2, <3>3
  <2>. QED BY <1>2, <1>3, <1>4, <1>7, <2>1 DEF RestingRowsAreEmpty
<1>9. RowsAgree'
  <2>1. /\ maximum[r] \in Nat
        /\ \A g \in Grants : allocated[r][g] \in Nat /\ take[g] \in Nat /\ consumed[r][g] = 0
    BY <1>2, <1>3, RowTypes DEF TypeOK
  <2>2. Total(allocated'[r], NumGrants) = maximum'[r]
    BY <1>3, <1>7 DEF RowsAgree
  <2>3. settled'[r] <= maximum'[r] /\ Total(consumed'[r], NumGrants) <= settled'[r]
    BY <1>2, <1>4, <1>7, <2>1 DEF RowsAgree
  <2>4. \A g \in Grants : consumed'[r][g] <= allocated'[r][g]
    BY <1>3, <1>4, <2>1
  <2>. QED BY <1>3, <1>4, <1>7, <2>2, <2>3, <2>4, OneRowAgrees
<1>10. UnitConservation'
  <2>1. ASSUME NEW g \in Grants
        PROVE  original'[g] - original[g]
                 = (remaining'[g] - remaining[g]) + (writtenOff'[g] - writtenOff[g])
                   + (Held(r, g)' - Held(r, g)) + (consumed'[r][g] - consumed[r][g])
    <3>1. Held(r, g) = allocated[r][g] /\ Held(r, g)' = allocated[r][g] + take[g]
      BY <1>2, <1>3, <1>4 DEF Held
    <3>2. /\ original[g] \in Nat /\ remaining[g] \in Nat /\ writtenOff[g] \in Nat
          /\ allocated[r][g] \in Nat /\ take[g] \in Nat /\ consumed[r][g] = 0
      BY <1>2, <1>3, RowTypes DEF TypeOK
    <3>3. (remaining[g] - take[g]) - remaining[g] + ((allocated[r][g] + take[g]) - allocated[r][g]) = 0
      BY <3>2
    <3>4. /\ original'[g] = original[g] /\ writtenOff'[g] = writtenOff[g]
          /\ remaining'[g] = remaining[g] - take[g] /\ consumed'[r][g] = consumed[r][g]
      BY <1>3, <1>4
    <3>. QED BY <3>1, <3>2, <3>3, <3>4
  <2>. QED BY <1>3, <1>4, <1>5, <2>1, OneRowMoves
<1>. QED BY <1>5, <1>6, <1>8, <1>9, <1>10

\* Closing gives back or writes off what was not used.
LEMMA CloseFacts ==
  ASSUME LedgerInv, NEW r \in Reservations, NEW used \in [Grants -> Nat],
         \A g \in Grants : used[g] <= allocated[r][g], CloseAllocations(r, used)
  PROVE  /\ remaining' \in [Grants -> Nat]
         /\ writtenOff' \in [Grants -> Nat]
         /\ posted' = remaining'
         /\ consumed' \in [Reservations -> [Grants -> Nat]]
         /\ consumed'[r] = used
         /\ \A q \in Reservations \ {r} : consumed'[q] = consumed[q]
         /\ \A g \in Grants : /\ (remaining'[g] - remaining[g]) + (writtenOff'[g] - writtenOff[g])
                                  = allocated[r][g] - used[g]
                              /\ remaining'[g] >= remaining[g] /\ writtenOff'[g] >= writtenOff[g]
                              /\ grantState[g] # "active" => remaining'[g] = remaining[g]
<1>. USE DEF LedgerInv
<1>1. consumed' = [consumed EXCEPT ![r] = used]
  BY DEF CloseAllocations
<1>2. ASSUME NEW g \in Grants
      PROVE  /\ allocated[r][g] - used[g] \in Nat
             /\ remaining[g] \in Nat /\ writtenOff[g] \in Nat /\ posted[g] = remaining[g]
  BY RowTypes DEF TypeOK, LedgerLockstep
<1>. DEFINE leftover == [g \in Grants |-> allocated[r][g] - used[g]]
<1>3. /\ remaining' = [g \in Grants |-> remaining[g] + IF Unexpired(g) THEN leftover[g] ELSE 0]
      /\ posted' = [g \in Grants |-> posted[g] + IF Unexpired(g) THEN leftover[g] ELSE 0]
      /\ writtenOff' = [g \in Grants |-> writtenOff[g] + IF Unexpired(g) THEN 0 ELSE leftover[g]]
  BY DEF CloseAllocations
<1>4. \A g \in Grants : leftover[g] \in Nat /\ leftover[g] = allocated[r][g] - used[g]
  BY <1>2
<1>. HIDE DEF leftover
<1>5. posted' = remaining'
  BY <1>2, <1>3
<1>6. ASSUME NEW g \in Grants
      PROVE  /\ remaining'[g] \in Nat /\ writtenOff'[g] \in Nat
             /\ (remaining'[g] - remaining[g]) + (writtenOff'[g] - writtenOff[g]) = leftover[g]
             /\ remaining'[g] >= remaining[g] /\ writtenOff'[g] >= writtenOff[g]
             /\ grantState[g] # "active" => remaining'[g] = remaining[g]
  <2>1. CASE Unexpired(g)
    <3>1. remaining'[g] = remaining[g] + leftover[g] /\ writtenOff'[g] = writtenOff[g] + 0
      BY <1>3, <2>1
    <3>. QED BY <1>2, <1>4, <2>1, <3>1 DEF Unexpired
  <2>2. CASE ~Unexpired(g)
    <3>1. remaining'[g] = remaining[g] + 0 /\ writtenOff'[g] = writtenOff[g] + leftover[g]
      BY <1>3, <2>2
    <3>. QED BY <1>2, <1>4, <3>1
  <2>. QED BY <2>1, <2>2
<1>7. remaining' \in [Grants -> Nat] /\ writtenOff' \in [Grants -> Nat]
  BY <1>3, <1>6
<1>8. /\ consumed' \in [Reservations -> [Grants -> Nat]]
      /\ consumed'[r] = used
      /\ \A q \in Reservations \ {r} : consumed'[q] = consumed[q]
  BY <1>1 DEF TypeOK
<1>. QED BY <1>4, <1>5, <1>6, <1>7, <1>8

\* However a reservation closes, its hold is consumed, given back or written off.
LEMMA CloseInv ==
  ASSUME LedgerInv, NEW r \in Reservations, resState[r] = "reserved",
         NEW endState \in {"settled", "released"}, NEW units \in Nat, units <= maximum[r],
         NEW used \in [Grants -> Nat], \A g \in Grants : used[g] <= allocated[r][g],
         Total(used, NumGrants) = units,
         CloseAllocations(r, used),
         resState' = [resState EXCEPT ![r] = endState],
         settled' = [settled EXCEPT ![r] = units],
         UNCHANGED <<grantState, original, expiresAt, maximum, deadline, allocated, batch, marker, now>>
  PROVE  LedgerInv'
<1>. USE DEF LedgerInv
<1>1. /\ remaining' \in [Grants -> Nat]
      /\ writtenOff' \in [Grants -> Nat]
      /\ posted' = remaining'
      /\ consumed' \in [Reservations -> [Grants -> Nat]]
      /\ consumed'[r] = used
      /\ \A q \in Reservations \ {r} : consumed'[q] = consumed[q]
      /\ \A g \in Grants : /\ (remaining'[g] - remaining[g]) + (writtenOff'[g] - writtenOff[g])
                               = allocated[r][g] - used[g]
                           /\ remaining'[g] >= remaining[g] /\ writtenOff'[g] >= writtenOff[g]
                           /\ grantState[g] # "active" => remaining'[g] = remaining[g]
  BY CloseFacts
<1>2. /\ resState'[r] = endState /\ settled'[r] = units
      /\ \A q \in Reservations \ {r} : resState'[q] = resState[q] /\ settled'[q] = settled[q]
  BY DEF TypeOK
<1>3. TypeOK'
  <2>1. resState' \in [Reservations -> ReservationStates] /\ settled' \in [Reservations -> Nat]
    BY DEF TypeOK, ReservationStates
  <2>2. posted' \in [Grants -> Int]
    BY <1>1
  <2>. QED BY <1>1, <2>1, <2>2 DEF TypeOK
<1>4. LedgerLockstep'
  BY <1>1 DEF LedgerLockstep
<1>5. RestingRowsAreEmpty'
  <2>1. ASSUME NEW g \in Grants, grantState[g] \notin Open PROVE remaining'[g] = 0
    BY <1>1, <2>1 DEF RestingRowsAreEmpty, Open
  <2>. QED BY <1>1, <1>2, <2>1 DEF RestingRowsAreEmpty
<1>6. RowsAgree'
  <2>1. Total(allocated'[r], NumGrants) = maximum'[r]
    BY DEF RowsAgree
  <2>2. settled'[r] <= maximum'[r] /\ Total(consumed'[r], NumGrants) <= settled'[r]
    BY <1>1, <1>2
  <2>3. \A g \in Grants : consumed'[r][g] <= allocated'[r][g]
    BY <1>1
  <2>. QED BY <1>1, <1>2, <2>1, <2>2, <2>3, OneRowAgrees
<1>7. UnitConservation'
  <2>1. ASSUME NEW g \in Grants
        PROVE  original'[g] - original[g]
                 = (remaining'[g] - remaining[g]) + (writtenOff'[g] - writtenOff[g])
                   + (Held(r, g)' - Held(r, g)) + (consumed'[r][g] - consumed[r][g])
    <3>1. Held(r, g) = allocated[r][g] /\ Held(r, g)' = 0
      BY <1>2 DEF Held
    <3>2. consumed[r][g] = 0 /\ consumed'[r][g] = used[g]
      BY <1>1 DEF RestingRowsAreEmpty
    <3>3. /\ original[g] \in Nat /\ remaining[g] \in Nat /\ writtenOff[g] \in Nat
          /\ allocated[r][g] \in Nat /\ used[g] \in Nat
          /\ remaining'[g] \in Nat /\ writtenOff'[g] \in Nat
      BY <1>1, RowTypes DEF TypeOK
    <3>4. /\ original'[g] = original[g]
          /\ (remaining'[g] - remaining[g]) + (writtenOff'[g] - writtenOff[g]) = allocated[r][g] - used[g]
      BY <1>1
    <3>5. (allocated[r][g] - used[g]) + (0 - allocated[r][g]) + (used[g] - 0) = 0
      BY <3>3
    <3>. QED BY <3>1, <3>2, <3>3, <3>4, <3>5
  <2>. QED BY <1>1, <1>2, <1>3, <2>1, OneRowMoves
<1>. QED BY <1>3, <1>4, <1>5, <1>6, <1>7

\* Settlement.
LEMMA SettleInv ==
  ASSUME LedgerInv, NEW r \in Reservations, NEW units \in Nat, SettleReservation(r, units)
  PROVE  LedgerInv'
<1>1. PICK used \in Spreads(r, units, allocated[r]) : CloseAllocations(r, used)
  BY DEF SettleReservation
<1>2. /\ used \in [Grants -> Nat]
      /\ Total(used, NumGrants) = units
      /\ \A g \in Grants : used[g] <= allocated[r][g]
  BY SpreadFacts
<1>3. /\ resState[r] = "reserved" /\ units <= maximum[r]
      /\ resState' = [resState EXCEPT ![r] = "settled"]
      /\ settled' = [settled EXCEPT ![r] = units]
      /\ UNCHANGED <<grantState, original, expiresAt, maximum, deadline, allocated, batch, marker, now>>
  BY DEF SettleReservation, grantVars
<1>. QED BY <1>1, <1>2, <1>3, CloseInv

\* Release, by a caller or by the retention worker.
LEMMA ReleaseInv ==
  ASSUME LedgerInv, NEW r \in Reservations, ReleaseReservation(r)
  PROVE  LedgerInv'
<1>. DEFINE units == 0
            used == [g \in Grants |-> units]
<1>1. Total(used, NumGrants) = units
  BY LedgerAssumption, TotalZero DEF Grants
<1>2. \A g \in Grants : used[g] <= allocated[r][g]
  BY RowTypes DEF LedgerInv
<1>3. units \in Nat /\ units <= maximum[r] /\ settled' = [settled EXCEPT ![r] = units]
  BY DEF ReleaseReservation, LedgerInv, RestingRowsAreEmpty, TypeOK
<1>4. CloseAllocations(r, used)
  BY DEF ReleaseReservation
<1>. HIDE DEF units
<1>5. used \in [Grants -> Nat]
  BY <1>3
<1>. HIDE DEF used
<1>6. /\ resState[r] = "reserved"
      /\ resState' = [resState EXCEPT ![r] = "released"]
      /\ UNCHANGED <<grantState, original, expiresAt, maximum, deadline, allocated, batch, marker, now>>
  BY DEF ReleaseReservation, grantVars
<1>. QED BY <1>1, <1>2, <1>3, <1>4, <1>5, <1>6, CloseInv

\* What a fresh grant is issued with is natural, and only unused ids are issued.
LEMMA ReissuedFacts ==
  ASSUME NEW back \in [Grants -> Nat],
         NEW fresh \in [Lapsed(back) -> {g \in Grants : grantState[g] = "none"}],
         NEW g \in Grants
  PROVE  /\ Reissued(back, fresh, g) \in Nat
         /\ Reissued(back, fresh, g) > 0 => grantState[g] = "none"
         /\ Direct(back, g) \in Nat /\ Direct(back, g) <= back[g]
         /\ Direct(back, g) > 0 => grantState[g] = "active"
<1>. DEFINE from == {h \in Lapsed(back) : fresh[h] = g}
<1>1. CASE from = {}
  BY <1>1 DEF Reissued, Direct
<1>2. CASE from # {}
  <2>1. PICK h \in from : h = CHOOSE x \in from : TRUE
    BY <1>2
  <2>2. Reissued(back, fresh, g) = back[h]
    BY <1>2, <2>1 DEF Reissued
  <2>3. h \in Grants /\ grantState[g] = "none"
    BY <2>1 DEF Lapsed
  <2>. QED BY <2>2, <2>3 DEF Direct
<1>. QED BY <1>1, <1>2

\* What a refund gives back of each grant's consumption, how much of it goes to
\* the grant itself, and what fresh grants it issues.
LEMMA RefundFacts ==
  ASSUME LedgerInv, NEW k \in Keys, NEW r \in Reservations, NEW units \in Nat,
         RefundUsage(k, r, units)
  PROVE  \E back, direct, reissued \in [Grants -> Nat] :
           /\ Total(back, NumGrants) \in Nat
           /\ \A g \in Grants : /\ back[g] <= consumed[r][g]
                                /\ direct[g] <= back[g]
                                /\ reissued[g] > 0 => grantState[g] = "none"
                                /\ direct[g] > 0 => grantState[g] = "active"
           /\ grantState' = [g \in Grants |-> IF reissued[g] > 0 THEN "active" ELSE grantState[g]]
           /\ expiresAt' = [g \in Grants |-> IF reissued[g] > 0 THEN now + RefundLife ELSE expiresAt[g]]
           /\ original' = [g \in Grants |-> original[g] + reissued[g]]
           /\ remaining' = [g \in Grants |-> remaining[g] + direct[g] + reissued[g]]
           /\ posted' = [g \in Grants |-> posted[g] + direct[g] + reissued[g]]
           /\ consumed' = [consumed EXCEPT ![r] = [g \in Grants |-> consumed[r][g] - back[g]]]
           /\ writtenOff' = [g \in Grants |-> writtenOff[g] + back[g] - direct[g]]
<1>. DEFINE given == Smaller(units, Total(consumed[r], NumGrants))
<1>1. Total(consumed[r], NumGrants) \in Nat
  <2>1. \A g \in 1 .. NumGrants : consumed[r][g] \in Nat
    BY RowTypes DEF Grants, LedgerInv
  <2>. QED BY <2>1, LedgerAssumption, TotalNat
<1>2. given \in Nat
  BY <1>1 DEF Smaller
<1>3. PICK back \in Spreads(r, given, consumed[r]) :
        \E fresh \in [Lapsed(back) -> {g \in Grants : grantState[g] = "none"}] : GiveBack(r, back, fresh)
  BY DEF RefundUsage
<1>4. PICK fresh \in [Lapsed(back) -> {g \in Grants : grantState[g] = "none"}] : GiveBack(r, back, fresh)
  BY <1>3
<1>. HIDE DEF given
<1>5. /\ back \in [Grants -> Nat]
      /\ Total(back, NumGrants) = given
      /\ \A g \in Grants : back[g] <= consumed[r][g]
  BY <1>2, SpreadFacts
<1>. DEFINE direct == [g \in Grants |-> Direct(back, g)]
            reissued == [g \in Grants |-> Reissued(back, fresh, g)]
<1>6. ASSUME NEW g \in Grants
      PROVE  /\ direct[g] \in Nat /\ direct[g] <= back[g] /\ reissued[g] \in Nat
             /\ reissued[g] > 0 => grantState[g] = "none"
             /\ direct[g] > 0 => grantState[g] = "active"
  BY <1>5, ReissuedFacts
<1>7. direct \in [Grants -> Nat] /\ reissued \in [Grants -> Nat]
  BY <1>6
<1>8. /\ grantState' = [g \in Grants |-> IF reissued[g] > 0 THEN "active" ELSE grantState[g]]
      /\ expiresAt' = [g \in Grants |-> IF reissued[g] > 0 THEN now + RefundLife ELSE expiresAt[g]]
      /\ original' = [g \in Grants |-> original[g] + reissued[g]]
      /\ remaining' = [g \in Grants |-> remaining[g] + direct[g] + reissued[g]]
      /\ posted' = [g \in Grants |-> posted[g] + direct[g] + reissued[g]]
      /\ consumed' = [consumed EXCEPT ![r] = [g \in Grants |-> consumed[r][g] - back[g]]]
      /\ writtenOff' = [g \in Grants |-> writtenOff[g] + back[g] - direct[g]]
  BY <1>4 DEF GiveBack
<1>. HIDE DEF direct, reissued
<1>. QED BY <1>2, <1>5, <1>6, <1>7, <1>8

\* A refund moves consumed units to balances and to what was written off.
LEMMA RefundInv ==
  ASSUME LedgerInv, NEW k \in Keys, NEW r \in Reservations, NEW units \in Nat,
         RefundUsage(k, r, units)
  PROVE  LedgerInv'
<1>. USE DEF LedgerInv
<1>5. /\ resState[r] = "settled"
      /\ marker' = [marker EXCEPT ![k] = [op |-> "refund", reservation |-> r, units |-> units]]
      /\ UNCHANGED <<resState, maximum, settled, deadline, allocated, batch, now>>
  BY DEF RefundUsage, resVars
<1>6. PICK back, direct, reissued \in [Grants -> Nat] :
        /\ Total(back, NumGrants) \in Nat
        /\ \A g \in Grants : /\ back[g] <= consumed[r][g]
                             /\ direct[g] <= back[g]
                             /\ reissued[g] > 0 => grantState[g] = "none"
                             /\ direct[g] > 0 => grantState[g] = "active"
        /\ grantState' = [g \in Grants |-> IF reissued[g] > 0 THEN "active" ELSE grantState[g]]
        /\ expiresAt' = [g \in Grants |-> IF reissued[g] > 0 THEN now + RefundLife ELSE expiresAt[g]]
        /\ original' = [g \in Grants |-> original[g] + reissued[g]]
        /\ remaining' = [g \in Grants |-> remaining[g] + direct[g] + reissued[g]]
        /\ posted' = [g \in Grants |-> posted[g] + direct[g] + reissued[g]]
        /\ consumed' = [consumed EXCEPT ![r] = [g \in Grants |-> consumed[r][g] - back[g]]]
        /\ writtenOff' = [g \in Grants |-> writtenOff[g] + back[g] - direct[g]]
  BY RefundFacts
<1>7. ASSUME NEW g \in Grants
      PROVE  /\ direct[g] \in Nat /\ direct[g] <= back[g] /\ reissued[g] \in Nat
             /\ reissued[g] > 0 => grantState[g] = "none"
             /\ direct[g] > 0 => grantState[g] = "active"
  BY <1>6
<1>8. /\ grantState' = [g \in Grants |-> IF reissued[g] > 0 THEN "active" ELSE grantState[g]]
      /\ expiresAt' = [g \in Grants |-> IF reissued[g] > 0 THEN now + RefundLife ELSE expiresAt[g]]
      /\ original' = [g \in Grants |-> original[g] + reissued[g]]
      /\ remaining' = [g \in Grants |-> remaining[g] + direct[g] + reissued[g]]
      /\ posted' = [g \in Grants |-> posted[g] + direct[g] + reissued[g]]
      /\ consumed' = [consumed EXCEPT ![r] = [g \in Grants |-> consumed[r][g] - back[g]]]
      /\ writtenOff' = [g \in Grants |-> writtenOff[g] + back[g] - direct[g]]
  BY <1>6
<1>9. ASSUME NEW g \in Grants
      PROVE  /\ original[g] \in Nat /\ remaining[g] \in Nat /\ writtenOff[g] \in Nat
             /\ consumed[r][g] \in Nat /\ back[g] \in Nat /\ posted[g] = remaining[g]
  BY <1>6, RowTypes DEF TypeOK, LedgerLockstep
<1>10. /\ consumed'[r] = [g \in Grants |-> consumed[r][g] - back[g]]
       /\ \A q \in Reservations \ {r} : consumed'[q] = consumed[q]
       /\ consumed' \in [Reservations -> [Grants -> Nat]]
  <2>1. [g \in Grants |-> consumed[r][g] - back[g]] \in [Grants -> Nat]
    BY <1>6, <1>9
  <2>. QED BY <1>8, <2>1 DEF TypeOK
<1>11. TypeOK'
  <2>1. r \in Nat BY LedgerAssumption DEF Reservations
  <2>2. marker' \in [Keys -> Markers] BY <1>5, <2>1 DEF TypeOK, Markers
  <2>3. grantState' \in [Grants -> GrantStates] /\ expiresAt' \in [Grants -> Nat]
    BY <1>8, LedgerAssumption DEF TypeOK, GrantStates
  <2>4. original' \in [Grants -> Nat] /\ remaining' \in [Grants -> Nat] /\ posted' \in [Grants -> Int]
    BY <1>7, <1>8, <1>9
  <2>5. writtenOff' \in [Grants -> Nat]
    BY <1>7, <1>8, <1>9
  <2>. QED BY <1>5, <1>10, <2>2, <2>3, <2>4, <2>5 DEF TypeOK
<1>12. LedgerLockstep'
  BY <1>8, <1>9 DEF LedgerLockstep
<1>13. RestingRowsAreEmpty'
  <2>1. ASSUME NEW g \in Grants
        PROVE  /\ grantState'[g] = "none" => original'[g] = 0
               /\ grantState'[g] \notin Open => remaining'[g] = 0
    <3>1. grantState'[g] = IF reissued[g] > 0 THEN "active" ELSE grantState[g]
      BY <1>8
    <3>2. grantState'[g] \notin Open => grantState'[g] = grantState[g] /\ reissued[g] = 0 /\ direct[g] = 0
      BY <1>7, <3>1 DEF Open
    <3>3. /\ grantState[g] = "none" => original[g] = 0
          /\ grantState[g] \notin Open => remaining[g] = 0
      BY DEF RestingRowsAreEmpty
    <3>4. original'[g] = original[g] + reissued[g] /\ remaining'[g] = remaining[g] + direct[g] + reissued[g]
      BY <1>8
    <3>. QED BY <3>2, <3>3, <3>4 DEF Open
  <2>. QED BY <1>5, <1>10, <2>1 DEF RestingRowsAreEmpty
<1>14. RowsAgree'
  <2>1. \A g \in Grants : /\ consumed'[r][g] \in Int /\ back[g] \in Int
                          /\ consumed[r][g] = consumed'[r][g] + back[g]
    BY <1>9, <1>10
  <2>2. /\ Total(consumed'[r], NumGrants) \in Int
        /\ Total(consumed[r], NumGrants) = Total(consumed'[r], NumGrants) + Total(back, NumGrants)
    <3>. DEFINE was == consumed[r]
                is == consumed'[r]
    <3>1. \A g \in Grants : is[g] \in Int /\ back[g] \in Int /\ was[g] = is[g] + back[g]
      BY <2>1
    <3>. HIDE DEF was, is
    <3>2. /\ Total(is, NumGrants) \in Int
          /\ Total(was, NumGrants) = Total(is, NumGrants) + Total(back, NumGrants)
      BY <3>1, RowTotalAdds
    <3>. QED BY <3>2 DEF was, is
  <2>3. Total(consumed[r], NumGrants) <= settled[r] /\ settled[r] \in Nat
    BY DEF RowsAgree, TypeOK
  <2>4. Total(consumed'[r], NumGrants) <= settled'[r]
    BY <1>5, <1>6, <2>2, <2>3
  <2>5. \A g \in Grants : consumed[r][g] <= allocated[r][g] /\ allocated[r][g] \in Nat
    BY RowTypes DEF RowsAgree
  <2>6. \A g \in Grants : consumed'[r][g] <= allocated'[r][g]
    BY <1>5, <1>9, <1>10, <2>5
  <2>7. Total(allocated'[r], NumGrants) = maximum'[r] /\ settled'[r] <= maximum'[r]
    BY <1>5 DEF RowsAgree
  <2>. QED BY <1>5, <1>10, <2>4, <2>6, <2>7, OneRowAgrees
<1>15. UnitConservation'
  <2>1. ASSUME NEW g \in Grants
        PROVE  original'[g] - original[g]
                 = (remaining'[g] - remaining[g]) + (writtenOff'[g] - writtenOff[g])
                   + (Held(r, g)' - Held(r, g)) + (consumed'[r][g] - consumed[r][g])
    <3>1. Held(r, g) = 0 /\ Held(r, g)' = 0
      BY <1>5 DEF Held
    <3>2. /\ original'[g] = original[g] + reissued[g]
          /\ remaining'[g] = remaining[g] + direct[g] + reissued[g]
          /\ writtenOff'[g] = writtenOff[g] + back[g] - direct[g]
          /\ consumed'[r][g] = consumed[r][g] - back[g]
      BY <1>8, <1>10
    <3>. QED BY <1>7, <1>9, <3>1, <3>2
  <2>. QED BY <1>5, <1>10, <1>11, <2>1, OneRowMoves
<1>. QED BY <1>11, <1>12, <1>13, <1>14, <1>15

\* Every transaction, and a step of nobody, keeps the invariant.
LEMMA NextInv == LedgerInv /\ [Next]_vars => LedgerInv'
<1>. SUFFICES ASSUME LedgerInv, [Next]_vars PROVE LedgerInv'
  OBVIOUS
<1>. USE LedgerAssumption
<1>1. ASSUME NEW g \in Grants, NEW units \in 1 .. MaxUnits, NEW expiry \in 1 .. Horizon,
             GrantCredits(g, units, expiry)
      PROVE  LedgerInv'
  BY <1>1, GrantInv
<1>2. ASSUME NEW g \in Grants, ExpireGrant(g) \/ RevokeGrant(g) PROVE LedgerInv'
  BY <1>2, EndInv DEF ExpireGrant, RevokeGrant
<1>3. ASSUME NEW g \in Grants, FreezeGrant(g) \/ UnfreezeGrant(g) PROVE LedgerInv'
  BY <1>3, MoveInv DEF FreezeGrant, UnfreezeGrant, Open
<1>4. ASSUME NEW g \in Grants, NEW units \in 1 .. MaxUnits, AdjustDown(g, units) PROVE LedgerInv'
  BY <1>4, AdjustInv
<1>5. ASSUME NEW r \in Reservations, NEW units \in 1 .. MaxUnits, ReserveCredits(r, units)
      PROVE  LedgerInv'
  BY <1>5, ReserveInv
<1>6. ASSUME NEW r \in Reservations, NEW units \in 1 .. MaxUnits, NEW k \in Keys, NEW rank \in {-1, 1},
             ExtendReservation(k, r, units, rank)
      PROVE  LedgerInv'
  <2>1. units \in Nat /\ rank \in Int OBVIOUS
  <2>. QED BY <1>6, <2>1, ExtendInv
<1>7. ASSUME NEW r \in Reservations, NEW units \in 1 .. MaxUnits, NEW k \in Keys, RefundUsage(k, r, units)
      PROVE  LedgerInv'
  BY <1>7, RefundInv
<1>8. ASSUME NEW r \in Reservations, NEW units \in 0 .. maximum[r], SettleReservation(r, units)
      PROVE  LedgerInv'
  <2>1. units \in Nat BY DEF LedgerInv, TypeOK
  <2>. QED BY <1>8, <2>1, SettleInv
<1>9. ASSUME NEW r \in Reservations, ReleaseReservation(r) \/ ReleaseStale(r) PROVE LedgerInv'
  BY <1>9, ReleaseInv DEF ReleaseStale
<1>10. ASSUME Tick \/ UNCHANGED vars PROVE LedgerInv'
  <2>1. now' \in Nat BY <1>10 DEF Tick, vars, LedgerInv, TypeOK
  <2>2. UNCHANGED <<grantState, original, remaining, expiresAt, resState, maximum, settled, deadline,
                    allocated, consumed, batch, posted, marker, writtenOff>>
    BY <1>10 DEF Tick, vars, grantVars, resVars, allocVars
  <2>3. TypeOK' BY <2>1, <2>2 DEF LedgerInv, TypeOK
  <2>4. LedgerLockstep' /\ RestingRowsAreEmpty'
    BY <2>2 DEF LedgerInv, LedgerLockstep, RestingRowsAreEmpty
  <2>5. RowsAgree' BY <2>2, SameRowsAgree DEF LedgerInv
  <2>6. UnitConservation' BY <2>2, <2>3, GrantsMove DEF LedgerInv, TypeOK
  <2>. QED BY <2>3, <2>4, <2>5, <2>6 DEF LedgerInv
<1>. QED BY <1>1, <1>2, <1>3, <1>4, <1>5, <1>6, <1>7, <1>8, <1>9, <1>10 DEF Next

-----------------------------------------------------------------------------
(* Theorems *)

\* The invariant holds for ever, whatever the number of grants and reservations.
THEOREM LedgerInvariant == Spec => []LedgerInv
BY InitInv, NextInv, PTL DEF Spec

\* Every column stays in its range: in particular remaining_units is never negative.
THEOREM TypeCorrect == Spec => []TypeOK
<1>1. LedgerInv => TypeOK BY DEF LedgerInv
<1>. QED BY <1>1, LedgerInvariant, PTL

\* remaining_units of every grant is the sum of its ledger entries.
THEOREM LockstepHolds == Spec => []LedgerLockstep
<1>1. LedgerInv => LedgerLockstep BY DEF LedgerInv
<1>. QED BY <1>1, LedgerInvariant, PTL

\* No unit of a grant is lost or in two places.
THEOREM UnitsAreConserved == Spec => []UnitConservation
<1>1. LedgerInv => UnitConservation BY DEF LedgerInv
<1>. QED BY <1>1, LedgerInvariant, PTL

\* Reservations and their allocations agree.
THEOREM ReservationRowsAgree == Spec => []RowsAgree
<1>1. LedgerInv => RowsAgree BY DEF LedgerInv
<1>. QED BY <1>1, LedgerInvariant, PTL

\* Only rows that do not exist, or are open, change state.
LEMMA EndedStateStays ==
  ASSUME LedgerInv, [Next]_vars, NEW g \in Grants, grantState[g] \in {"expired", "revoked"}
  PROVE  grantState'[g] = grantState[g]
<1>. USE DEF grantVars
<1>1. ASSUME NEW h \in Grants, NEW units, NEW expiry, GrantCredits(h, units, expiry)
      PROVE  grantState'[g] = grantState[g]
  BY <1>1 DEF GrantCredits, LedgerInv, TypeOK
<1>2. ASSUME NEW h \in Grants, ExpireGrant(h) \/ RevokeGrant(h) PROVE grantState'[g] = grantState[g]
  BY <1>2 DEF ExpireGrant, RevokeGrant, EndGrant, Open, LedgerInv, TypeOK
<1>3. ASSUME NEW h \in Grants, FreezeGrant(h) \/ UnfreezeGrant(h) PROVE grantState'[g] = grantState[g]
  BY <1>3 DEF FreezeGrant, UnfreezeGrant, MoveGrant, LedgerInv, TypeOK
<1>4. ASSUME NEW r \in Reservations, NEW units \in Nat, NEW k \in Keys, RefundUsage(k, r, units)
      PROVE  grantState'[g] = grantState[g]
  <2>1. PICK reissued \in [Grants -> Nat] :
          /\ \A h \in Grants : reissued[h] > 0 => grantState[h] = "none"
          /\ grantState' = [h \in Grants |-> IF reissued[h] > 0 THEN "active" ELSE grantState[h]]
    BY <1>4, RefundFacts
  <2>. QED BY <2>1
<1>5. ASSUME \/ Tick
             \/ UNCHANGED vars
             \/ \E h \in Grants, units \in 1 .. MaxUnits : AdjustDown(h, units)
             \/ \E r \in Reservations, units \in 1 .. MaxUnits : ReserveCredits(r, units)
             \/ \E r \in Reservations, units \in 1 .. MaxUnits, k \in Keys, rank \in {-1, 1} :
                  ExtendReservation(k, r, units, rank)
             \/ \E r \in Reservations : \E units \in 0 .. maximum[r] : SettleReservation(r, units)
             \/ \E r \in Reservations : ReleaseReservation(r) \/ ReleaseStale(r)
      PROVE  grantState'[g] = grantState[g]
  BY <1>5 DEF Tick, vars, AdjustDown, ReserveCredits, ExtendReservation, SettleReservation,
              ReleaseReservation, ReleaseStale
<1>. QED BY <1>1, <1>2, <1>3, <1>4, <1>5 DEF Next

\* Nothing that was under way makes an ended grant spendable again.
THEOREM EndedGrantsHold == Spec => EndedGrantsStayEmpty
<1>1. LedgerInv /\ LedgerInv' /\ [Next]_vars =>
        [\A g \in Grants : grantState[g] \in {"expired", "revoked"} =>
           grantState'[g] = grantState[g] /\ remaining'[g] = 0]_vars
  <2>. SUFFICES ASSUME LedgerInv, LedgerInv', [Next]_vars, NEW g \in Grants,
                       grantState[g] \in {"expired", "revoked"}
                PROVE  grantState'[g] = grantState[g] /\ remaining'[g] = 0
    OBVIOUS
  <2>1. grantState'[g] = grantState[g]
    BY EndedStateStays
  <2>2. grantState'[g] \notin Open => remaining'[g] = 0
    BY DEF LedgerInv, RestingRowsAreEmpty
  <2>. QED BY <2>1, <2>2 DEF Open
<1>. QED BY <1>1, LedgerInvariant, PTL DEF Spec, EndedGrantsStayEmpty

\* Only an extension widens an open reservation, and it writes a marker that was
\* not there; no step touches a marker that is.
THEOREM ExtensionsAreMarked == Spec => WideningIsMarkedOnce
<1>. DEFINE Final == \A k \in Keys : marker[k] # NoMarker => marker'[k] = marker[k]
            Marked == \A r \in Reservations : resState[r] = "reserved" /\ maximum'[r] # maximum[r] =>
                        \E k \in Keys : /\ marker[k] = NoMarker
                                        /\ marker'[k].op = "extend"
                                        /\ marker'[k].reservation = r
                                        /\ marker'[k].units = maximum'[r] - maximum[r]
<1>1. ASSUME LedgerInv, [Next]_vars PROVE Final /\ Marked
  <2>0. /\ marker \in [Keys -> Markers]
        /\ maximum \in [Reservations -> Nat]
        /\ resState \in [Reservations -> ReservationStates]
    BY <1>1 DEF LedgerInv, TypeOK
  <2>1. CASE UNCHANGED <<marker, maximum>>
    BY <2>1
  <2>2. ASSUME NEW k \in Keys, NEW r \in Reservations, NEW units \in 1 .. MaxUnits, NEW rank \in {-1, 1},
               ExtendReservation(k, r, units, rank)
        PROVE  Final /\ Marked
    <3>1. /\ marker[k] = NoMarker
          /\ marker' = [marker EXCEPT ![k] = [op |-> "extend", reservation |-> r, units |-> units]]
          /\ maximum' = [maximum EXCEPT ![r] = @ + units]
          /\ units \in Int
      BY <2>2, LedgerAssumption DEF ExtendReservation
    <3>2. Final BY <2>0, <3>1
    <3>3. marker'[k] = [op |-> "extend", reservation |-> r, units |-> units]
      BY <2>0, <3>1
    <3>4. units = maximum'[r] - maximum[r]
      BY <2>0, <3>1
    <3>5. \A q \in Reservations : maximum'[q] # maximum[q] => q = r
      BY <2>0, <3>1
    <3>. QED BY <3>1, <3>2, <3>3, <3>4, <3>5
  <2>3. ASSUME NEW k \in Keys, NEW r \in Reservations, NEW units \in 1 .. MaxUnits, RefundUsage(k, r, units)
        PROVE  Final /\ Marked
    BY <2>0, <2>3 DEF RefundUsage, resVars
  <2>4. ASSUME NEW r \in Reservations, NEW units \in 1 .. MaxUnits, ReserveCredits(r, units)
        PROVE  Final /\ Marked
    BY <2>0, <2>4 DEF ReserveCredits
  <2>5. ASSUME NEW g \in Grants,
               \/ \E units \in 1 .. MaxUnits, expiry \in 1 .. Horizon : GrantCredits(g, units, expiry)
               \/ ExpireGrant(g) \/ RevokeGrant(g) \/ FreezeGrant(g) \/ UnfreezeGrant(g)
               \/ \E units \in 1 .. MaxUnits : AdjustDown(g, units)
        PROVE  UNCHANGED <<marker, maximum>>
    BY <2>5 DEF GrantCredits, ExpireGrant, RevokeGrant, EndGrant, FreezeGrant, UnfreezeGrant, MoveGrant,
                AdjustDown, resVars
  <2>6. ASSUME NEW r \in Reservations,
               \/ \E units \in 0 .. maximum[r] : SettleReservation(r, units)
               \/ ReleaseReservation(r) \/ ReleaseStale(r)
        PROVE  UNCHANGED <<marker, maximum>>
    BY <2>6 DEF SettleReservation, ReleaseReservation, ReleaseStale
  <2>7. Tick \/ UNCHANGED vars => UNCHANGED <<marker, maximum>>
    BY DEF Tick, vars, resVars
  <2>. QED BY <1>1, <2>1, <2>2, <2>3, <2>4, <2>5, <2>6, <2>7 DEF Next
<1>2. LedgerInv /\ [Next]_vars => [Final /\ Marked]_vars
  BY <1>1
<1>. QED BY <1>2, LedgerInvariant, PTL DEF Spec, WideningIsMarkedOnce

-----------------------------------------------------------------------------
(* CreditLedger implements CreditAccount: the columns of the grant row are *)
(* the account's issued and balance, open allocations are its holds,       *)
(* consumed units what it spent.  Every transaction is one of its steps or *)
(* leaves it alone.                                                        *)

HeldRows == [r \in Reservations |-> [g \in Grants |-> Held(r, g)]]

\* The account's grants and reservations are the ledger's.
LEMMA SameIndices == Account!Grants = Grants /\ Account!Reservations = Reservations
BY DEF Account!Grants, Account!Reservations, Grants, Reservations

\* The empty tables are an empty account.
LEMMA InitAccount == Init => Account!Init
<1>. SUFFICES ASSUME Init PROVE Account!Init
  OBVIOUS
<1>1. HeldRows = [r \in Reservations |-> [g \in Grants |-> 0]]
  BY DEF Init, HeldRows, Held
<1>. QED BY <1>1, SameIndices DEF Init, Account!Init, HeldRows

\* A grant row is issued in full.
LEMMA GrantIssues ==
  ASSUME LedgerInv, NEW g \in Grants, NEW units \in Nat, NEW expiry, GrantCredits(g, units, expiry)
  PROVE  Account!Issue
<1>1. original[g] = 0 /\ remaining[g] = 0
  BY DEF GrantCredits, LedgerInv, RestingRowsAreEmpty, Open
<1>2. ASSUME NEW h \in Grants
      PROVE  original'[h] >= original[h] /\ remaining'[h] - remaining[h] = original'[h] - original[h]
  BY <1>1 DEF GrantCredits, LedgerInv, TypeOK
<1>3. UNCHANGED <<HeldRows, consumed, writtenOff>>
  BY DEF GrantCredits, resVars, allocVars, HeldRows, Held
<1>. QED BY <1>2, <1>3, SameIndices DEF Account!Issue, HeldRows

\* Expiry, revocation and a downward adjustment forfeit balance.
LEMMA EndForfeits ==
  ASSUME LedgerInv, NEW g \in Grants, NEW endState, EndGrant(g, endState)
  PROVE  Account!Forfeit
<1>1. ASSUME NEW h \in Grants
      PROVE  remaining'[h] <= remaining[h] /\ writtenOff'[h] - writtenOff[h] = remaining[h] - remaining'[h]
  BY DEF EndGrant, LedgerInv, TypeOK
<1>2. UNCHANGED <<HeldRows, consumed, original>>
  BY DEF EndGrant, resVars, allocVars, HeldRows, Held
<1>. QED BY <1>1, <1>2, SameIndices DEF Account!Forfeit, HeldRows

\* The same for an adjustment.
LEMMA AdjustForfeits ==
  ASSUME LedgerInv, NEW g \in Grants, NEW units \in Nat, AdjustDown(g, units)
  PROVE  Account!Forfeit
<1>1. ASSUME NEW h \in Grants
      PROVE  remaining'[h] <= remaining[h] /\ writtenOff'[h] - writtenOff[h] = remaining[h] - remaining'[h]
  BY DEF AdjustDown, LedgerInv, TypeOK
<1>2. UNCHANGED <<HeldRows, consumed, original>>
  BY DEF AdjustDown, grantVars, resVars, allocVars, HeldRows, Held
<1>. QED BY <1>1, <1>2, SameIndices DEF Account!Forfeit, HeldRows

\* A draw by the allocation walk is a hold of the reservation it draws for.
LEMMA AllocateHolds ==
  ASSUME LedgerInv, NEW r \in Reservations, NEW units \in Nat, NEW rank \in Int,
         NEW take \in Walks(units), Allocate(r, take, rank),
         resState'[r] = "reserved",
         resState[r] = "reserved" \/ \A g \in Grants : allocated[r][g] = 0,
         \A q \in Reservations \ {r} : resState'[q] = resState[q],
         UNCHANGED <<original, consumed, writtenOff>>
  PROVE  Account!Hold(r)
<1>1. /\ \A q \in Reservations \ {r} : allocated'[q] = allocated[q]
      /\ \A g \in Grants : /\ allocated'[r][g] = allocated[r][g] + take[g]
                           /\ remaining'[g] = remaining[g] - take[g]
                           /\ take[g] \in Nat
  BY AllocateFacts
<1>2. ASSUME NEW g \in Grants
      PROVE  remaining'[g] <= remaining[g] /\ HeldRows'[r][g] - HeldRows[r][g] = remaining[g] - remaining'[g]
  <2>1. remaining[g] \in Nat /\ allocated[r][g] \in Nat /\ take[g] \in Nat
    BY <1>1, RowTypes DEF LedgerInv, TypeOK
  <2>2. HeldRows[r][g] = allocated[r][g] /\ HeldRows'[r][g] = allocated[r][g] + take[g]
    BY <1>1 DEF HeldRows, Held
  <2>3. remaining'[g] = remaining[g] - take[g]
    BY <1>1
  <2>. QED BY <2>1, <2>2, <2>3
<1>3. \A q \in Reservations \ {r} : HeldRows'[q] = HeldRows[q]
  BY <1>1 DEF HeldRows, Held
<1>. QED BY <1>2, <1>3, SameIndices DEF Account!Hold, Account!OnlyRowChanges, HeldRows

\* Closing a reservation ends its hold and splits it into spent, returned and gone.
LEMMA CloseCloses ==
  ASSUME LedgerInv, NEW r \in Reservations, resState[r] = "reserved",
         NEW used \in [Grants -> Nat], \A g \in Grants : used[g] <= allocated[r][g],
         CloseAllocations(r, used),
         resState'[r] # "reserved",
         \A q \in Reservations \ {r} : resState'[q] = resState[q],
         UNCHANGED <<original, allocated>>
  PROVE  Account!Close(r)
<1>1. /\ consumed'[r] = used
      /\ remaining' \in [Grants -> Nat] /\ writtenOff' \in [Grants -> Nat]
      /\ \A q \in Reservations \ {r} : consumed'[q] = consumed[q]
      /\ \A g \in Grants : /\ (remaining'[g] - remaining[g]) + (writtenOff'[g] - writtenOff[g])
                               = allocated[r][g] - used[g]
                           /\ remaining'[g] >= remaining[g] /\ writtenOff'[g] >= writtenOff[g]
  BY CloseFacts
<1>2. ASSUME NEW g \in Grants
      PROVE  /\ HeldRows'[r][g] = 0
             /\ consumed'[r][g] >= consumed[r][g]
             /\ remaining'[g] >= remaining[g]
             /\ writtenOff'[g] >= writtenOff[g]
             /\ (consumed'[r][g] - consumed[r][g]) + (remaining'[g] - remaining[g])
                  + (writtenOff'[g] - writtenOff[g]) = HeldRows[r][g]
  <2>1. HeldRows'[r][g] = 0 /\ HeldRows[r][g] = allocated[r][g]
    BY DEF HeldRows, Held
  <2>2. consumed[r][g] = 0 /\ consumed'[r][g] = used[g]
    BY <1>1 DEF LedgerInv, RestingRowsAreEmpty
  <2>3. /\ remaining[g] \in Nat /\ writtenOff[g] \in Nat /\ allocated[r][g] \in Nat
        /\ remaining'[g] \in Nat /\ writtenOff'[g] \in Nat /\ used[g] \in Nat
    BY <1>1, RowTypes DEF LedgerInv, TypeOK
  <2>4. (remaining'[g] - remaining[g]) + (writtenOff'[g] - writtenOff[g]) = allocated[r][g] - used[g]
    BY <1>1
  <2>. QED BY <1>1, <2>1, <2>2, <2>3, <2>4
<1>3. \A q \in Reservations \ {r} : HeldRows'[q] = HeldRows[q]
  BY DEF HeldRows, Held
<1>. QED BY <1>1, <1>2, <1>3, SameIndices DEF Account!Close, Account!OnlyRowChanges, HeldRows

\* A refund undoes spending: into a balance, or gone and issued afresh.
LEMMA RefundRefunds ==
  ASSUME LedgerInv, NEW k \in Keys, NEW r \in Reservations, NEW units \in Nat,
         RefundUsage(k, r, units)
  PROVE  Account!Refund(r)
<1>1. PICK back, direct, reissued \in [Grants -> Nat] :
        /\ \A g \in Grants : back[g] <= consumed[r][g] /\ direct[g] <= back[g]
        /\ original' = [g \in Grants |-> original[g] + reissued[g]]
        /\ remaining' = [g \in Grants |-> remaining[g] + direct[g] + reissued[g]]
        /\ consumed' = [consumed EXCEPT ![r] = [g \in Grants |-> consumed[r][g] - back[g]]]
        /\ writtenOff' = [g \in Grants |-> writtenOff[g] + back[g] - direct[g]]
  BY RefundFacts
<1>2. ASSUME NEW g \in Grants
      PROVE  /\ consumed'[r][g] <= consumed[r][g]
             /\ original'[g] >= original[g]
             /\ writtenOff'[g] >= writtenOff[g]
             /\ remaining'[g] >= remaining[g] + (original'[g] - original[g])
             /\ (remaining'[g] - remaining[g]) + (writtenOff'[g] - writtenOff[g])
                  = (consumed[r][g] - consumed'[r][g]) + (original'[g] - original[g])
  <2>1. /\ original[g] \in Nat /\ remaining[g] \in Nat /\ writtenOff[g] \in Nat /\ consumed[r][g] \in Nat
        /\ back[g] \in Nat /\ direct[g] \in Nat /\ reissued[g] \in Nat /\ direct[g] <= back[g]
    BY <1>1, RowTypes DEF LedgerInv, TypeOK
  <2>2. /\ original'[g] = original[g] + reissued[g]
        /\ remaining'[g] = remaining[g] + direct[g] + reissued[g]
        /\ writtenOff'[g] = writtenOff[g] + back[g] - direct[g]
        /\ consumed'[r][g] = consumed[r][g] - back[g]
    BY <1>1 DEF LedgerInv, TypeOK
  <2>. QED BY <2>1, <2>2
<1>3. \A q \in Reservations \ {r} : consumed'[q] = consumed[q]
  BY <1>1 DEF LedgerInv, TypeOK
<1>4. HeldRows' = HeldRows
  BY DEF RefundUsage, resVars, HeldRows, Held
<1>. QED BY <1>2, <1>3, <1>4, SameIndices DEF Account!Refund, Account!OnlyRowChanges, HeldRows

\* Every step of the ledger is a step of the account or changes nothing of it.
LEMMA NextAccount == LedgerInv /\ [Next]_vars => [Account!Next]_(Account!vars)
<1>. SUFFICES ASSUME LedgerInv, [Next]_vars PROVE [Account!Next]_(Account!vars)
  OBVIOUS
<1>. USE SameIndices DEF Account!Next
<1>1. ASSUME NEW g \in Grants, NEW units \in 1 .. MaxUnits, NEW expiry \in 1 .. Horizon,
             GrantCredits(g, units, expiry)
      PROVE  Account!Next
  BY <1>1, GrantIssues
<1>2. ASSUME NEW g \in Grants, ExpireGrant(g) \/ RevokeGrant(g) PROVE Account!Next
  BY <1>2, EndForfeits DEF ExpireGrant, RevokeGrant
<1>3. ASSUME NEW g \in Grants, NEW units \in 1 .. MaxUnits, AdjustDown(g, units) PROVE Account!Next
  BY <1>3, AdjustForfeits
<1>4. ASSUME NEW r \in Reservations, NEW units \in 1 .. MaxUnits, ReserveCredits(r, units)
      PROVE  Account!Next
  <2>1. PICK take \in Walks(units) : Allocate(r, take, 0)
    BY <1>4 DEF ReserveCredits
  <2>2. /\ resState'[r] = "reserved" /\ \A g \in Grants : allocated[r][g] = 0
        /\ \A q \in Reservations \ {r} : resState'[q] = resState[q]
        /\ UNCHANGED <<original, consumed, writtenOff>>
    BY <1>4 DEF ReserveCredits, grantVars, LedgerInv, TypeOK, RestingRowsAreEmpty
  <2>3. units \in Nat /\ 0 \in Int
    OBVIOUS
  <2>4. Account!Hold(r)
    BY <2>1, <2>2, <2>3, AllocateHolds
  <2>. QED BY <2>4
<1>5. ASSUME NEW r \in Reservations, NEW units \in 1 .. MaxUnits, NEW k \in Keys, NEW rank \in {-1, 1},
             ExtendReservation(k, r, units, rank)
      PROVE  Account!Next
  <2>1. PICK take \in Walks(units) : Allocate(r, take, rank)
    BY <1>5 DEF ExtendReservation
  <2>2. /\ resState'[r] = "reserved" /\ resState[r] = "reserved"
        /\ \A q \in Reservations \ {r} : resState'[q] = resState[q]
        /\ UNCHANGED <<original, consumed, writtenOff>>
    BY <1>5 DEF ExtendReservation, grantVars
  <2>3. units \in Nat /\ rank \in Int
    OBVIOUS
  <2>4. Account!Hold(r)
    BY <2>1, <2>2, <2>3, AllocateHolds
  <2>. QED BY <2>4
<1>6. ASSUME NEW r \in Reservations, NEW units \in 1 .. MaxUnits, NEW k \in Keys, RefundUsage(k, r, units)
      PROVE  Account!Next
  BY <1>6, RefundRefunds
<1>7. ASSUME NEW r \in Reservations, NEW units \in 0 .. maximum[r], SettleReservation(r, units)
      PROVE  Account!Next
  <2>1. PICK used \in Spreads(r, units, allocated[r]) : CloseAllocations(r, used)
    BY <1>7 DEF SettleReservation
  <2>2. units \in Nat
    BY DEF LedgerInv, TypeOK
  <2>3. used \in [Grants -> Nat] /\ \A g \in Grants : used[g] <= allocated[r][g]
    BY <2>1, <2>2, SpreadFacts
  <2>4. /\ resState[r] = "reserved" /\ resState'[r] # "reserved"
        /\ \A q \in Reservations \ {r} : resState'[q] = resState[q]
        /\ UNCHANGED <<original, allocated>>
    BY <1>7 DEF SettleReservation, grantVars, LedgerInv, TypeOK
  <2>5. Account!Close(r)
    BY <2>1, <2>3, <2>4, CloseCloses
  <2>. QED BY <2>5
<1>8. ASSUME NEW r \in Reservations, ReleaseReservation(r) \/ ReleaseStale(r) PROVE Account!Next
  <2>1. ReleaseReservation(r)
    BY <1>8 DEF ReleaseStale
  <2>. DEFINE used == [g \in Grants |-> 0]
  <2>2. CloseAllocations(r, used) /\ used \in [Grants -> Nat] /\ \A g \in Grants : used[g] <= allocated[r][g]
    BY <2>1, RowTypes DEF ReleaseReservation, LedgerInv
  <2>. HIDE DEF used
  <2>3. /\ resState[r] = "reserved" /\ resState'[r] # "reserved"
        /\ \A q \in Reservations \ {r} : resState'[q] = resState[q]
        /\ UNCHANGED <<original, allocated>>
    BY <2>1 DEF ReleaseReservation, grantVars, LedgerInv, TypeOK
  <2>4. Account!Close(r)
    BY <2>2, <2>3, CloseCloses
  <2>. QED BY <2>4
<1>9. ASSUME \/ Tick
             \/ UNCHANGED vars
             \/ \E g \in Grants : FreezeGrant(g) \/ UnfreezeGrant(g)
      PROVE  UNCHANGED Account!vars
  <2>1. UNCHANGED <<original, remaining, resState, allocated, consumed, writtenOff>>
    BY <1>9 DEF Tick, vars, FreezeGrant, UnfreezeGrant, MoveGrant, grantVars, resVars, allocVars
  <2>2. HeldRows' = HeldRows
    BY <2>1 DEF HeldRows, Held
  <2>. QED BY <2>1, <2>2 DEF Account!vars, HeldRows
<1>. QED BY <1>1, <1>2, <1>3, <1>4, <1>5, <1>6, <1>7, <1>8, <1>9 DEF Next

\* The ledger keeps the account's promise, for any number of grants and reservations.
THEOREM LedgerKeepsAccount == Spec => KeepsAccount
<1>1. Init => Account!Init
  BY InitAccount
<1>2. LedgerInv /\ [Next]_vars => [Account!Next]_(Account!vars)
  BY NextAccount
<1>. QED BY <1>1, <1>2, LedgerInvariant, PTL DEF Spec, KeepsAccount, Account!Spec
=============================================================================
