------------------------- MODULE AutoRechargeProofs -------------------------
(***************************************************************************)
(* For any number of charges: no charge goes missing but for the three     *)
(* ways that the module names, and the monthly cap holds although the      *)
(* sweep counts grants and not charges.  It does because the row lock and  *)
(* the marker admit one charge in flight at a time (OneInFlight), which    *)
(* the sweep has counted beforehand (InBudget).                            *)
(***************************************************************************)
EXTENDS AutoRecharge, FiniteSetTheorems, TLAPS

\* While the sweep's transaction is open the rule stays as it was found.
OneInFlight ==
  call # NoCall =>
    /\ rule.pending = None /\ rule.state = "active"
    /\ call.answer = "requires_action" => charge[call.charge] = "requires_action"

Flying == {p \in Charges : p \in {rule.pending, call.charge}}

InBudget == Cardinality(month \cup Flying) <= Cap

\* The month has the grants of the charges made in it.
GrantsOfMonth ==
  /\ \A p \in granted : charge[p] = "succeeded"
  /\ made \cap granted \subseteq month

RechargeInv ==
  /\ TypeOK
  /\ EveryChargeIsTracked
  /\ OneInFlight
  /\ InBudget
  /\ GrantsOfMonth

-----------------------------------------------------------------------------
(* Facts *)

LEMMA NoneIsNoCharge == None \notin Charges /\ NoCall.charge = None
BY RechargeAssumption DEF None, Charges, NoCall

LEMMA FewerInBudget ==
  ASSUME NEW S \in SUBSET Charges, NEW T \in SUBSET S
  PROVE  /\ IsFiniteSet(T) /\ Cardinality(T) \in Nat
         /\ Cardinality(T) <= Cardinality(S)
<1>1. IsFiniteSet(Charges)
  BY FS_Interval, RechargeAssumption DEF Charges
<1>2. IsFiniteSet(S)
  BY <1>1, FS_Subset
<1>. QED BY <1>2, FS_Subset, FS_CardinalityType

LEMMA OneMoreInBudget ==
  ASSUME NEW S \in SUBSET Charges, NEW p \in Charges
  PROVE  Cardinality(S \cup {p}) <= Cardinality(S) + 1
<1>1. IsFiniteSet(S) /\ Cardinality(S) \in Nat
  BY FewerInBudget
<1>2. Cardinality(S \cup {p}) = IF p \in S THEN Cardinality(S) ELSE Cardinality(S) + 1
  BY <1>1, FS_AddElement
<1>. QED BY <1>1, <1>2

LEMMA BudgetIsCap == RechargeInv => CapHolds
<1>. SUFFICES ASSUME RechargeInv PROVE CapHolds
  OBVIOUS
<1>. DEFINE X == {p \in made \ lost : Alive(p)}
<1>1. X \subseteq month \cup Flying
  BY DEF RechargeInv, TypeOK, EveryChargeIsTracked, GrantsOfMonth, Flying
<1>2. month \cup Flying \subseteq Charges
  BY DEF RechargeInv, TypeOK, Flying
<1>3. /\ Cardinality(X) \in Nat /\ Cardinality(month \cup Flying) \in Nat
      /\ Cardinality(X) <= Cardinality(month \cup Flying)
  BY <1>1, <1>2, FewerInBudget
<1>. QED BY <1>3, RechargeAssumption DEF RechargeInv, InBudget, CapHolds

\* A step that puts nothing more into the budget.
LEMMA StaysInBudget ==
  ASSUME RechargeInv, month' \cup Flying' \subseteq month \cup Flying
  PROVE  InBudget'
<1>1. month \cup Flying \subseteq Charges
  BY DEF RechargeInv, TypeOK, Flying
<1>2. /\ Cardinality(month' \cup Flying') \in Nat /\ Cardinality(month \cup Flying) \in Nat
      /\ Cardinality(month' \cup Flying') <= Cardinality(month \cup Flying)
  BY <1>1, FewerInBudget
<1>. QED BY <1>2, RechargeAssumption DEF RechargeInv, InBudget

-----------------------------------------------------------------------------
(* Every step keeps the invariant *)

LEMMA InitRecharge == Init => RechargeInv
<1>. SUFFICES ASSUME Init PROVE RechargeInv
  OBVIOUS
<1>1. TypeOK
  BY RechargeAssumption DEF Init, TypeOK, Inactive
<1>2. Flying = {}
  BY NoneIsNoCharge DEF Init, Flying, Inactive
<1>3. InBudget
  <2>1. month \cup Flying = {}
    BY <1>2 DEF Init
  <2>2. Cardinality(month \cup Flying) = 0
    BY <2>1, FS_EmptySet
  <2>. QED BY <2>2, RechargeAssumption DEF InBudget
<1>. QED BY <1>1, <1>3 DEF Init, RechargeInv, EveryChargeIsTracked, OneInFlight, GrantsOfMonth, Alive

LEMMA OwnerKeeps ==
  ASSUME RechargeInv, Configure \/ Disable
  PROVE  RechargeInv'
<1>1. /\ call = NoCall /\ call' = NoCall
      /\ rule' \in {[state |-> "active", pending |-> None], Inactive}
      /\ lost' = lost \cup LosesFlight
      /\ UNCHANGED <<charge, balance, granted, month, made>>
  BY DEF Configure, Disable
<1>2. rule'.pending = None
  BY <1>1 DEF Inactive
<1>3. LosesFlight \subseteq Charges
  BY DEF LosesFlight, InFlight, RechargeInv, TypeOK
<1>4. TypeOK'
  BY <1>1, <1>3 DEF RechargeInv, TypeOK, Inactive, NoCall
<1>5. EveryChargeIsTracked'
  BY <1>1, NoneIsNoCharge DEF RechargeInv, EveryChargeIsTracked, Alive, LosesFlight, InFlight
<1>6. InBudget'
  BY <1>1, <1>2, NoneIsNoCharge, StaysInBudget DEF Flying
<1>. QED BY <1>1, <1>4, <1>5, <1>6 DEF RechargeInv, OneInFlight, GrantsOfMonth

LEMMA SpendKeeps ==
  ASSUME RechargeInv, Spend
  PROVE  RechargeInv'
<1>1. TypeOK'
  BY DEF Spend, RechargeInv, TypeOK
<1>2. InBudget'
  BY StaysInBudget DEF Spend, Flying
<1>. QED BY <1>1, <1>2 DEF Spend, RechargeInv, EveryChargeIsTracked, OneInFlight, GrantsOfMonth, Alive

LEMMA NewMonthKeeps ==
  ASSUME RechargeInv, NewMonth
  PROVE  RechargeInv'
<1>1. TypeOK'
  BY DEF NewMonth, RechargeInv, TypeOK
<1>2. InBudget'
  BY StaysInBudget DEF NewMonth, Flying
<1>. QED BY <1>1, <1>2 DEF NewMonth, RechargeInv, EveryChargeIsTracked, OneInFlight, GrantsOfMonth, Alive

LEMMA CallKeeps ==
  ASSUME RechargeInv, NEW p \in Charges, Call(p)
  PROVE  RechargeInv'
<1>1. PICK a \in Answers : charge' = [charge EXCEPT ![p] = a.status] /\ call' = [charge |-> p, answer |-> a.answer]
  BY DEF Call
<1>2. /\ call = NoCall /\ rule.state = "active" /\ rule.pending = None
      /\ Cardinality(month) + 1 <= Cap
      /\ charge[p] = "none"
      /\ made' = made \cup {p}
      /\ UNCHANGED <<rule, balance, granted, month, lost>>
  BY RechargeAssumption DEF Call, Due, UnderCap, Charges
<1>3. /\ a.status \in {"processing", "succeeded", "failed", "requires_action"}
      /\ a.answer \in {"ok", "requires_action", "error"}
      /\ a.answer = "requires_action" => a.status = "requires_action"
  BY DEF Answers
<1>4. TypeOK'
  BY <1>1, <1>2, <1>3 DEF RechargeInv, TypeOK
<1>5. call'.charge = p /\ charge'[p] = a.status /\ \A q \in Charges \ {p} : charge'[q] = charge[q]
  BY <1>1 DEF RechargeInv, TypeOK
<1>6. EveryChargeIsTracked'
  BY <1>2, <1>5, NoneIsNoCharge DEF RechargeInv, EveryChargeIsTracked, Alive
<1>7. OneInFlight'
  BY <1>1, <1>2, <1>3, <1>5 DEF OneInFlight
<1>8. InBudget'
  <2>1. month' \cup Flying' = month \cup {p} /\ month \subseteq Charges
    BY <1>2, <1>5, NoneIsNoCharge DEF Flying, RechargeInv, TypeOK
  <2>2. /\ Cardinality(month) \in Nat
        /\ Cardinality(month \cup {p}) \in Nat
        /\ Cardinality(month \cup {p}) <= Cardinality(month) + 1
    BY <2>1, FewerInBudget, OneMoreInBudget
  <2>. QED BY <1>2, <2>1, <2>2, RechargeAssumption DEF InBudget
<1>9. GrantsOfMonth'
  BY <1>2, <1>5 DEF RechargeInv, GrantsOfMonth, TypeOK
<1>. QED BY <1>4, <1>6, <1>7, <1>8, <1>9 DEF RechargeInv

LEMMA CommitKeeps ==
  ASSUME RechargeInv, Commit
  PROVE  RechargeInv'
<1>1. /\ call # NoCall /\ call' = NoCall
      /\ call.charge \in Charges /\ call.answer \in {"ok", "requires_action", "error"}
      /\ rule.pending = None /\ rule.state = "active"
      /\ call.answer = "requires_action" => ~Alive(call.charge)
      /\ UNCHANGED <<charge, balance, granted, month, made>>
  BY DEF Commit, RechargeInv, TypeOK, OneInFlight, Alive
<1>2. \/ /\ call.answer = "ok" /\ rule' = [rule EXCEPT !.pending = call.charge] /\ lost' = lost
      \/ /\ call.answer = "requires_action" /\ rule' = [state |-> "paused_needs_auth", pending |-> None]
         /\ lost' = lost
      \/ /\ call.answer = "error" /\ rule' = [state |-> "paused_failed", pending |-> None]
         /\ lost' = IF Alive(call.charge) THEN lost \cup {call.charge} ELSE lost
  BY <1>1 DEF Commit, Claimed
<1>3. TypeOK'
  BY <1>1, <1>2 DEF RechargeInv, TypeOK
<1>4. \/ rule'.pending = call.charge
      \/ rule'.pending = None /\ (Alive(call.charge) => call.charge \in lost')
  BY <1>1, <1>2 DEF RechargeInv, TypeOK
<1>5. EveryChargeIsTracked'
  <2>. SUFFICES ASSUME NEW p \in Charges, Alive(p), p \notin granted \cup lost'
                PROVE  p = rule'.pending
    BY <1>1 DEF EveryChargeIsTracked, Alive
  <2>1. lost \subseteq lost'
    BY <1>2
  <2>2. p = call.charge
    BY <1>1, <2>1, NoneIsNoCharge DEF RechargeInv, EveryChargeIsTracked
  <2>. QED BY <1>4, <2>2
<1>6. InBudget'
  BY <1>1, <1>4, NoneIsNoCharge, StaysInBudget DEF Flying
<1>. QED BY <1>1, <1>3, <1>5, <1>6 DEF RechargeInv, OneInFlight, GrantsOfMonth

LEMMA RollbackKeeps ==
  ASSUME RechargeInv, Rollback
  PROVE  RechargeInv'
<1>1. /\ call # NoCall /\ call' = NoCall
      /\ call.charge \in Charges
      /\ lost' = IF Alive(call.charge) THEN lost \cup {call.charge} ELSE lost
      /\ UNCHANGED <<charge, rule, balance, granted, month, made>>
  BY DEF Rollback, RechargeInv, TypeOK
<1>2. TypeOK'
  BY <1>1 DEF RechargeInv, TypeOK
<1>3. EveryChargeIsTracked'
  BY <1>1 DEF RechargeInv, EveryChargeIsTracked, Alive
<1>4. InBudget'
  BY <1>1, NoneIsNoCharge, StaysInBudget DEF Flying
<1>. QED BY <1>1, <1>2, <1>3, <1>4 DEF RechargeInv, OneInFlight, GrantsOfMonth

\* Stripe's verdict on a charge: none comes back to life.
LEMMA ResolveKeeps ==
  ASSUME RechargeInv, NEW p \in Charges, NEW s \in {"succeeded", "failed", "requires_action"}, Resolve(p, s)
  PROVE  RechargeInv'
<1>1. /\ charge[p] = "processing" /\ charge' = [charge EXCEPT ![p] = s]
      /\ UNCHANGED <<rule, call, balance, granted, month, made, lost>>
  BY DEF Resolve
<1>2. TypeOK'
  BY <1>1 DEF RechargeInv, TypeOK
<1>3. \A q \in Charges : charge'[q] = charge[q] \/ q = p
  BY <1>1 DEF RechargeInv, TypeOK
<1>4. EveryChargeIsTracked'
  BY <1>1, <1>3 DEF RechargeInv, EveryChargeIsTracked, Alive
<1>5. OneInFlight'
  <2>1. call # NoCall => call.charge \in Charges
    BY DEF RechargeInv, TypeOK
  <2>. QED BY <1>1, <1>3, <2>1 DEF RechargeInv, OneInFlight
<1>6. InBudget'
  BY <1>1, StaysInBudget DEF Flying
<1>7. GrantsOfMonth'
  BY <1>1, <1>3 DEF RechargeInv, GrantsOfMonth, TypeOK
<1>. QED BY <1>2, <1>4, <1>5, <1>6, <1>7 DEF RechargeInv

LEMMA SucceededKeeps ==
  ASSUME RechargeInv, NEW p \in Charges, Succeeded(p)
  PROVE  RechargeInv'
<1>1. /\ rule.pending = p /\ charge[p] = "succeeded"
      /\ granted' = granted \cup {p} /\ month' = month \cup {p}
      /\ balance' \in {balance, balance + 1}
      /\ rule' = [state |-> "active", pending |-> None]
      /\ UNCHANGED <<charge, call, made, lost>>
  BY DEF Succeeded, Pending
<1>2. call = NoCall
  BY <1>1, NoneIsNoCharge DEF RechargeInv, OneInFlight
<1>3. TypeOK'
  BY <1>1 DEF RechargeInv, TypeOK
<1>4. EveryChargeIsTracked'
  BY <1>1 DEF RechargeInv, EveryChargeIsTracked, Alive
<1>5. InBudget'
  BY <1>1, <1>2, NoneIsNoCharge, StaysInBudget DEF Flying
<1>6. GrantsOfMonth'
  BY <1>1 DEF RechargeInv, GrantsOfMonth
<1>. QED BY <1>1, <1>2, <1>3, <1>4, <1>5, <1>6 DEF RechargeInv, OneInFlight

LEMMA UnpaidKeeps ==
  ASSUME RechargeInv, NEW p \in Charges, Unpaid(p)
  PROVE  RechargeInv'
<1>1. /\ rule.pending = p /\ ~Alive(p)
      /\ rule'.pending = None /\ rule'.state \in {"paused_failed", "paused_needs_auth"}
      /\ rule' \in [state : {"paused_failed", "paused_needs_auth"}, pending : {None}]
      /\ UNCHANGED <<charge, call, balance, granted, month, made, lost>>
  BY DEF Unpaid, Pending, Alive
<1>2. call = NoCall
  BY <1>1, NoneIsNoCharge DEF RechargeInv, OneInFlight
<1>3. TypeOK'
  BY <1>1 DEF RechargeInv, TypeOK
<1>4. EveryChargeIsTracked'
  BY <1>1 DEF RechargeInv, EveryChargeIsTracked, Alive
<1>5. InBudget'
  BY <1>1, <1>2, NoneIsNoCharge, StaysInBudget DEF Flying
<1>. QED BY <1>1, <1>2, <1>3, <1>4, <1>5 DEF RechargeInv, OneInFlight, GrantsOfMonth

LEMMA NextRecharge == RechargeInv /\ [Next]_vars => RechargeInv'
<1>. SUFFICES ASSUME RechargeInv, [Next]_vars PROVE RechargeInv'
  OBVIOUS
<1>1. CASE UNCHANGED vars
  <2>1. InBudget'
    BY <1>1, StaysInBudget DEF vars, Flying
  <2>. QED BY <1>1, <2>1 DEF vars, RechargeInv, TypeOK, EveryChargeIsTracked, OneInFlight, GrantsOfMonth, Alive
<1>. QED
  BY <1>1, OwnerKeeps, SpendKeeps, NewMonthKeeps, CallKeeps, CommitKeeps, RollbackKeeps, ResolveKeeps,
     SucceededKeeps, UnpaidKeeps DEF Next, Finish, Deliver

-----------------------------------------------------------------------------
\* The balance never goes negative, and every marker names a charge.
THEOREM TypeCorrect == Spec => []TypeOK
<1>1. RechargeInv => TypeOK
  BY DEF RechargeInv
<1>. QED BY <1>1, InitRecharge, NextRecharge, PTL DEF Spec

\* A charge that is neither credited nor waited for was lost in one of three ways.
THEOREM ChargesAreTracked == Spec => []EveryChargeIsTracked
<1>1. RechargeInv => EveryChargeIsTracked
  BY DEF RechargeInv
<1>. QED BY <1>1, InitRecharge, NextRecharge, PTL DEF Spec

\* The owner is never charged above the cap, whatever settles in whichever order.
THEOREM CapIsKept == Spec => []CapHolds
BY BudgetIsCap, InitRecharge, NextRecharge, PTL DEF Spec
=============================================================================
