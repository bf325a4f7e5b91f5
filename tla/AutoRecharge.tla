---------------------------- MODULE AutoRecharge ----------------------------
(***************************************************************************)
(* Auto-recharge of one organization: the rule and its marker of a charge  *)
(* in flight, the sweep that calls Stripe inside the transaction which     *)
(* writes the marker, and the events that settle the charge.               *)
(*                                                                         *)
(* Units are counted in packs.  Every charge is a new PaymentIntent, since *)
(* its idempotency key is random: the rule's marker is all that ties money *)
(* at Stripe to credits here.  The history variable lost holds the charges *)
(* that marker has let go of while they could still succeed, so that       *)
(* properties can say these are the only ones.                             *)
(*                                                                         *)
(* Not here: refusals that change nothing and lift by themselves (no paid  *)
(* subscription, the rolling limit, the fraud review, no customer), a      *)
(* retired pack, the SetupIntent that precedes a configuration.  The app   *)
(* never completes a PaymentIntent that asks for authentication, so such a *)
(* charge stays unpaid.                                                    *)
(***************************************************************************)
EXTENDS Integers, FiniteSets

CONSTANTS
  NumCharges,  \* bound: PaymentIntents, numbered in the order of creation
  Threshold,   \* balanceThresholdUnits, in packs
  Cap,         \* monthlyCapCents, in packs
  Opening      \* packs on the balance at first

Charges == 1 .. NumCharges

ASSUME RechargeAssumption ==
  NumCharges \in Nat /\ Threshold \in Nat /\ Cap \in Nat /\ Opening \in Nat

VARIABLES
  charge,   \* status of every PaymentIntent at Stripe
  rule,     \* billing_auto_recharge_rules: state and pending_payment_intent_id
  call,     \* the sweep's open transaction: its charge and Stripe's answer
  balance,  \* packs available
  granted,  \* charges with a credit grant
  month,    \* those whose grant is of this month
  made,     \* history: charges made this month
  lost      \* history: charges the marker let go of while they could succeed

vars == <<charge, rule, call, balance, granted, month, made, lost>>

None == 0
NoCall == [charge |-> None, answer |-> "none"]
Inactive == [state |-> "inactive", pending |-> None]

\* Stripe has the money of these, or may yet.
Alive(p) == charge[p] \in {"processing", "succeeded"}
InFlight == IF rule.pending = None THEN {} ELSE {rule.pending}
LosesFlight == {p \in InFlight : Alive(p)}

Init ==
  /\ charge = [p \in Charges |-> "none"]
  /\ rule = Inactive
  /\ call = NoCall
  /\ balance = Opening
  /\ granted = {} /\ month = {} /\ made = {} /\ lost = {}

-----------------------------------------------------------------------------
(* The owner *)

\* configureAutoRecharge, also while a charge is in flight: upsert always resets
\* the marker.  It waits for a sweep that has the row locked.
Configure ==
  /\ call = NoCall
  /\ rule' = [state |-> "active", pending |-> None]
  /\ lost' = lost \cup LosesFlight
  /\ UNCHANGED <<charge, call, balance, granted, month, made>>

Disable ==
  /\ call = NoCall
  /\ rule' = Inactive
  /\ lost' = lost \cup LosesFlight
  /\ UNCHANGED <<charge, call, balance, granted, month, made>>

Spend ==
  /\ balance > 0
  /\ balance' = balance - 1
  /\ UNCHANGED <<charge, rule, call, granted, month, made, lost>>

NewMonth ==
  /\ month # {} \/ made # {}
  /\ month' = {} /\ made' = {}
  /\ UNCHANGED <<charge, rule, call, balance, granted, lost>>

-----------------------------------------------------------------------------
(* The sweep *)

\* Mutant: the pack to come is not counted.
UnderCapBefore == Cardinality(month) <= Cap

\* The cap counts the month's grants that a PaymentIntent paid for.
UnderCap == Cardinality(month) + 1 <= Cap

\* Mutant: a charge in flight does not keep the next one back.
DueWhateverPending == rule.state = "active" /\ balance <= Threshold /\ UnderCap

Due == rule.state = "active" /\ rule.pending = None /\ balance <= Threshold /\ UnderCap

\* What Stripe does with a new PaymentIntent and what it answers: an error may
\* mean that there is no charge, or that the answer got lost.
Answers ==
  {[status |-> s, answer |-> "ok"] : s \in {"processing", "succeeded"}}
    \cup {[status |-> "requires_action", answer |-> "requires_action"]}
    \cup {[status |-> s, answer |-> "error"] : s \in {"processing", "succeeded", "failed"}}

\* maybeTriggerAutoRecharge up to createPaymentIntent: the rule is locked, and
\* Stripe acts before anything is written.
Call(p) ==
  /\ call = NoCall
  /\ Due
  /\ \A q \in Charges : charge[q] = "none" <=> q >= p
  /\ \E a \in Answers :
       /\ charge' = [charge EXCEPT ![p] = a.status]
       /\ call' = [charge |-> p, answer |-> a.answer]
  /\ made' = made \cup {p}
  /\ UNCHANGED <<rule, balance, granted, month, lost>>

\* claimAutoRechargeTrigger.
Claimed(p) ==
  IF rule.state = "active" /\ rule.pending = None THEN [rule EXCEPT !.pending = p] ELSE rule

\* The rest of it: the claim, or a pause.
Commit ==
  /\ call # NoCall
  /\ rule' = CASE call.answer = "ok" -> Claimed(call.charge)
               [] call.answer = "requires_action" -> [state |-> "paused_needs_auth", pending |-> None]
               [] call.answer = "error" -> [state |-> "paused_failed", pending |-> None]
  /\ call' = NoCall
  /\ lost' = IF call.answer = "error" /\ Alive(call.charge) THEN lost \cup {call.charge} ELSE lost
  /\ UNCHANGED <<charge, balance, granted, month, made>>

\* A statement fails, or the process dies: the rule knows nothing of the charge.
Rollback ==
  /\ call # NoCall
  /\ call' = NoCall
  /\ lost' = IF Alive(call.charge) THEN lost \cup {call.charge} ELSE lost
  /\ UNCHANGED <<charge, rule, balance, granted, month, made>>

-----------------------------------------------------------------------------
(* Stripe and its events *)

Resolve(p, status) ==
  /\ charge[p] = "processing"
  /\ charge' = [charge EXCEPT ![p] = status]
  /\ UNCHANGED <<rule, call, balance, granted, month, made, lost>>

\* handleAutoRechargePaymentIntentEvent acts for a rule that has the charge as
\* pending; for any other it defers, which changes nothing here.  The inbox
\* delivers a deferred event again.
Pending(p) == rule.pending = p

Succeeded(p) ==
  /\ Pending(p) /\ charge[p] = "succeeded"
  /\ granted' = granted \cup {p}
  /\ month' = month \cup {p}
  /\ balance' = IF p \in granted THEN balance ELSE balance + 1
  /\ rule' = [state |-> "active", pending |-> None]
  /\ UNCHANGED <<charge, call, made, lost>>

\* Mutant: the rule pauses and keeps its marker.
UnpaidKept(p) ==
  /\ Pending(p) /\ charge[p] \in {"failed", "requires_action"}
  /\ rule' = [rule EXCEPT !.state = IF charge[p] = "failed" THEN "paused_failed" ELSE "paused_needs_auth"]
  /\ UNCHANGED <<charge, call, balance, granted, month, made, lost>>

\* Mutant: the status of the PaymentIntent is written as the rule's state.
UnpaidByStatus(p) ==
  /\ Pending(p) /\ charge[p] \in {"failed", "requires_action"}
  /\ rule' = [state |-> charge[p], pending |-> None]
  /\ UNCHANGED <<charge, call, balance, granted, month, made, lost>>

Unpaid(p) ==
  /\ Pending(p) /\ charge[p] \in {"failed", "requires_action"}
  /\ rule' = [state |-> IF charge[p] = "failed" THEN "paused_failed" ELSE "paused_needs_auth",
              pending |-> None]
  /\ UNCHANGED <<charge, call, balance, granted, month, made, lost>>

Finish == Commit \/ Rollback
Deliver(p) == Succeeded(p) \/ Unpaid(p)

Next ==
  \/ Configure \/ Disable \/ Spend \/ NewMonth
  \/ \E p \in Charges : Call(p) \/ Deliver(p)
  \/ Finish
  \/ \E p \in Charges, s \in {"succeeded", "failed", "requires_action"} : Resolve(p, s)

Spec == Init /\ [][Next]_vars

\* Transactions end, Stripe decides, and the inbox delivers.
Fairness ==
  /\ WF_vars(Finish)
  /\ \A p \in Charges :
       /\ WF_vars(Deliver(p))
       /\ WF_vars(\E s \in {"succeeded", "failed", "requires_action"} : Resolve(p, s))

FairSpec == Spec /\ Fairness

-----------------------------------------------------------------------------
(* Properties *)

TypeOK ==
  /\ charge \in [Charges -> {"none", "processing", "succeeded", "failed", "requires_action"}]
  /\ rule \in [state : {"inactive", "active", "paused_needs_auth", "paused_failed"},
               pending : {None} \cup Charges]
  /\ call \in {NoCall} \cup [charge : Charges, answer : {"ok", "requires_action", "error"}]
  /\ balance \in Nat
  /\ month \subseteq granted /\ granted \subseteq Charges
  /\ made \subseteq Charges /\ lost \subseteq Charges

\* No money goes missing unnoticed: a charge that has succeeded or still may, and
\* is not credited, is the one the rule waits for or the sweep is making, unless
\* it was lost in one of three ways: its transaction rolled back, Stripe's answer
\* was an error, or the owner configured or disabled the rule meanwhile.
EveryChargeIsTracked ==
  \A p \in Charges : Alive(p) /\ p \notin granted \cup lost => p \in {rule.pending, call.charge}

\* The owner's monthly cap holds for the charges made in a month, those still in
\* flight included and the lost ones left aside, although it counts grants.
CapHolds == Cardinality({p \in made \ lost : Alive(p)}) <= Cap

\* Whoever is charged gets the credits, and no charge blocks the rule for ever.
ChargesSettle ==
  /\ \A p \in Charges : charge[p] = "succeeded" ~> p \in granted \cup lost
  /\ \A p \in Charges : rule.pending = p ~> rule.pending # p
=============================================================================
