---------------------------- MODULE PackRefunds -----------------------------
(***************************************************************************)
(* Packs bought through Checkout and their refunds, for one organization:  *)
(* the owner's request, an operator's decision, the sweep that sends all   *)
(* the organization's refunds to Stripe in ONE transaction, and the events *)
(* that settle what Stripe left pending.                                   *)
(*                                                                         *)
(* draft is what the sweep's transaction has written so far; it reaches    *)
(* the tables with its commit, while Stripe has acted already.  What is    *)
(* written elsewhere is written in one step (CreditTransactions has the    *)
(* statements of transactions that meet at a grant).                       *)
(*                                                                         *)
(* Not here: refunds of subscriptions, which nothing processes; packs      *)
(* without a PaymentIntent (repair_needed); disputes.                      *)
(***************************************************************************)
EXTENDS Integers, Sums

CONSTANTS
  NumPacks,
  NumRefunds,  \* refunds, in the order of their ids, which is not that of the requests
  Units,       \* credits of a pack
  Price,       \* of a pack; a partial refund is of 1
  MaxFaults    \* bound: sweeps that die and answers of Stripe that get lost

Packs == 1 .. NumPacks
Refunds == 1 .. NumRefunds

ASSUME RefundAssumption ==
  /\ NumPacks \in Nat /\ NumRefunds \in Nat
  /\ Units \in Nat \ {0} /\ Price \in Nat \ {0} /\ MaxFaults \in Nat

VARIABLES
  session,  \* Checkout sessions at Stripe
  attempt,  \* status of billing_checkout_attempts
  grant,    \* billing_credit_grants: state, remaining units
  used,     \* units of a grant that were spent or are reserved
  spentSince, \* history: refunds whose pack was drawn on after the request
  refund,   \* billing_refunds: state, policy, pack, units, and whether stripe_refund_id is set
  money,    \* refunds at Stripe: status, policy and amount of the request
  draft,    \* the sweep's transaction: refunds to do, rows written
  faults,
  doubtful  \* history: refunds whose answer got lost, or was rolled back with the sweep

shop == <<session, attempt>>
vars == <<shop, grant, used, spentSince, refund, money, draft, faults, doubtful>>

NoRefund == [state |-> "none", policy |-> "none", pack |-> 0, units |-> 0, sent |-> FALSE]
NoMoney == [status |-> "none", policy |-> "none", amount |-> 0]
NoDraft == [open |-> FALSE, todo |-> {}, refunds |-> {}, packs |-> {}, refund |-> [r \in Refunds |-> NoRefund],
            grant |-> [p \in Packs |-> [state |-> "none", left |-> 0]]]

Init ==
  /\ session = [p \in Packs |-> "none"]
  /\ attempt = [p \in Packs |-> "none"]
  /\ grant = [p \in Packs |-> [state |-> "none", left |-> 0]]
  /\ used = [p \in Packs |-> 0]
  /\ spentSince = {}
  /\ refund = [r \in Refunds |-> NoRefund]
  /\ money = [r \in Refunds |-> NoMoney]
  /\ draft = NoDraft
  /\ faults = 0
  /\ doubtful = {}

\* Rows the sweep's transaction has written wait for its end.
FreePack(p) == p \notin draft.packs
FreeRefund(r) == r \notin draft.refunds

-----------------------------------------------------------------------------
(* Buying and using a pack *)

\* createPackCheckout.
Checkout(p) ==
  /\ attempt[p] = "none"
  /\ session' = [session EXCEPT ![p] = "open"]
  /\ attempt' = [attempt EXCEPT ![p] = "open"]
  /\ UNCHANGED <<grant, used, spentSince, refund, money, draft, faults, doubtful>>

SessionEnds(p, status) ==
  /\ session[p] = "open"
  /\ session' = [session EXCEPT ![p] = status]
  /\ UNCHANGED <<attempt, grant, used, spentSince, refund, money, draft, faults, doubtful>>

\* handleCheckoutSessionStatus; a second delivery finds the attempt closed.
CheckoutEvent(p) ==
  /\ session[p] \in {"complete", "expired"}
  /\ attempt[p] = "open"
  /\ attempt' = [attempt EXCEPT ![p] = session[p]]
  /\ grant' = IF session[p] = "complete"
              THEN [grant EXCEPT ![p] = [state |-> "active", left |-> Units]] ELSE grant
  /\ UNCHANGED <<session, used, spentSince, refund, money, draft, faults, doubtful>>

\* A reservation draws on the pack; its release gives back, unless the grant is
\* over.
Spend(p) ==
  /\ grant[p].state = "active" /\ grant[p].left > 0 /\ FreePack(p)
  /\ grant' = [grant EXCEPT ![p].left = @ - 1]
  /\ used' = [used EXCEPT ![p] = @ + 1]
  /\ spentSince' = spentSince \cup {r \in Refunds : refund[r].pack = p}
  /\ UNCHANGED <<shop, refund, money, draft, faults, doubtful>>

GiveBack(p) ==
  /\ grant[p].state = "active" /\ used[p] > 0 /\ FreePack(p)
  /\ grant' = [grant EXCEPT ![p].left = @ + 1]
  /\ used' = [used EXCEPT ![p] = @ - 1]
  /\ UNCHANGED <<shop, spentSince, refund, money, draft, faults, doubtful>>

Expire(p) ==
  /\ grant[p].state = "active" /\ FreePack(p)
  /\ grant' = [grant EXCEPT ![p] = [state |-> "expired", left |-> 0]]
  /\ UNCHANGED <<shop, used, spentSince, refund, money, draft, faults, doubtful>>

-----------------------------------------------------------------------------
(* Requests and decisions *)

\* Mutant: nobody looks whether the pack was used.
RequestUsed(r, p) ==
  /\ refund[r] = NoRefund
  /\ grant[p].state = "active"
  /\ refund' = [refund EXCEPT ![r] =
       [state |-> "pending", policy |-> "full", pack |-> p, units |-> 0, sent |-> FALSE]]
  /\ UNCHANGED <<shop, grant, used, spentSince, money, draft, faults, doubtful>>

\* requestPackRefund, for an unused pack; with a known idempotency key it changes
\* nothing, with a new one it does not look for earlier requests.
Request(r, p) ==
  /\ refund[r] = NoRefund
  /\ grant[p] = [state |-> "active", left |-> Units]
  /\ refund' = [refund EXCEPT ![r] =
       [state |-> "pending", policy |-> "full", pack |-> p, units |-> 0, sent |-> FALSE]]
  /\ UNCHANGED <<shop, grant, used, spentSince, money, draft, faults, doubtful>>

\* decideRefund: until the row says that the refund was sent, which after a
\* rollback is later than it was.  Units that are not given are 0.
Decide(r, policy, units) ==
  /\ refund[r].state = "pending" /\ ~refund[r].sent /\ FreeRefund(r)
  /\ policy = "full" => units = 0
  /\ refund' = [refund EXCEPT ![r].policy = policy, ![r].units = units]
  /\ UNCHANGED <<shop, grant, used, spentSince, money, draft, faults, doubtful>>

-----------------------------------------------------------------------------
(* The sweep *)

\* What Stripe still holds of the price of a pack.
Kept(p) ==
  Price - Total([r \in Refunds |->
                   IF refund[r].pack = p /\ money[r].status # "failed" THEN money[r].amount ELSE 0], NumRefunds)

\* createRefund without an amount refunds what is left.
AmountOf(r) == IF refund[r].policy = "full" THEN Kept(refund[r].pack) ELSE 1

\* Stripe executes a request once per idempotency key, which is the refund's id;
\* the key with other parameters is an error.
Accepts(r) ==
  IF money[r] = NoMoney THEN AmountOf(r) \in 1 .. Kept(refund[r].pack)
  ELSE money[r].policy = refund[r].policy

\* The refund at Stripe after a request it accepts.
Executed(r) ==
  IF money[r] = NoMoney
  THEN {[status |-> s, policy |-> refund[r].policy, amount |-> AmountOf(r)] : s \in {"pending", "succeeded"}}
  ELSE {money[r]}

Seen(p) == IF FreePack(p) THEN grant[p] ELSE draft.grant[p]

\* Mutant: the units need not be there.
RevocableInAnyCase(r, g) == g.state = "active"

\* Else revokeCreditGrant or adjustCreditGrant throws.
Revocable(r, g) ==
  IF refund[r].policy = "full" THEN g.state = "active" ELSE g.left >= refund[r].units

\* applyCreditRevocationForRefund.
Revoked(r, g) ==
  IF refund[r].policy = "full" THEN [state |-> "revoked", left |-> 0]
  ELSE [g EXCEPT !.left = @ - refund[r].units]

StartSweep ==
  LET ids == {r \in Refunds : refund[r].state = "pending" /\ ~refund[r].sent} IN
  /\ ~draft.open
  /\ ids # {}
  /\ draft' = [NoDraft EXCEPT !.open = TRUE, !.todo = ids]
  /\ UNCHANGED <<shop, grant, used, spentSince, refund, money, faults, doubtful>>

\* The transaction is over without effect on the tables, whatever Stripe did.
RolledBack(done) ==
  /\ draft' = NoDraft
  /\ doubtful' = doubtful \cup {r \in done : money'[r] # NoMoney}

Written(r, state, sent) ==
  [draft EXCEPT !.todo = @ \ {r}, !.refunds = @ \cup {r},
                !.refund[r] = [refund[r] EXCEPT !.state = state, !.sent = sent]]

\* Stripe answers; a refund that succeeded at once takes its units at once, or
\* throws out of the whole transaction.
Send(r, m) ==
  LET p == refund[r].pack IN
  /\ Accepts(r) /\ m \in Executed(r)
  /\ money' = [money EXCEPT ![r] = m]
  /\ IF m.status # "succeeded" THEN
       /\ draft' = Written(r, "pending", TRUE)
       /\ UNCHANGED doubtful
     ELSE IF Revocable(r, Seen(p)) THEN
       /\ draft' = [Written(r, "succeeded", TRUE) EXCEPT
                      !.packs = @ \cup {p}, !.grant[p] = Revoked(r, Seen(p))]
       /\ UNCHANGED doubtful
     ELSE RolledBack(draft.refunds \cup {r})
  /\ UNCHANGED faults

\* The request is an error, and Stripe has done nothing.
Refused(r) ==
  /\ draft' = Written(r, "failed", FALSE)
  /\ UNCHANGED <<money, faults, doubtful>>

\* Stripe executes the request, and the call fails all the same.
AnswerLost(r, m) ==
  /\ faults < MaxFaults
  /\ Accepts(r) /\ m \in Executed(r)
  /\ money' = [money EXCEPT ![r] = m]
  /\ draft' = Written(r, "failed", FALSE)
  /\ faults' = faults + 1
  /\ doubtful' = doubtful \cup {r}

\* processPendingPackRefund, for the next refund in the order of the ids.
ProcessRefund(r) ==
  /\ draft.open
  /\ r \in draft.todo /\ \A q \in draft.todo : r <= q
  /\ \/ Refused(r)
     \/ \E m \in Executed(r) : Send(r, m) \/ AnswerLost(r, m)
  /\ UNCHANGED <<shop, grant, used, spentSince, refund>>

Commit ==
  /\ draft.open /\ draft.todo = {}
  /\ refund' = [r \in Refunds |-> IF FreeRefund(r) THEN refund[r] ELSE draft.refund[r]]
  /\ grant' = [p \in Packs |-> Seen(p)]
  /\ draft' = NoDraft
  /\ UNCHANGED <<shop, used, spentSince, money, faults, doubtful>>

\* The process dies, or a statement fails.
Die ==
  /\ draft.open
  /\ faults < MaxFaults
  /\ faults' = faults + 1
  /\ UNCHANGED <<shop, grant, used, spentSince, refund, money>>
  /\ RolledBack(draft.refunds)

-----------------------------------------------------------------------------
(* Stripe decides later *)

Resolve(r, status) ==
  /\ money[r].status = "pending"
  /\ money' = [money EXCEPT ![r].status = status]
  /\ UNCHANGED <<shop, grant, used, spentSince, refund, draft, faults, doubtful>>

\* Mutant: whatever has not succeeded has failed.
RefundEventEarly(r) ==
  LET p == refund[r].pack IN
  /\ refund[r].state = "pending" /\ refund[r].sent /\ FreePack(p)
  /\ IF money[r].status = "succeeded" THEN
       /\ Revocable(r, grant[p])
       /\ refund' = [refund EXCEPT ![r].state = "succeeded"]
       /\ grant' = [grant EXCEPT ![p] = Revoked(r, grant[p])]
     ELSE refund' = [refund EXCEPT ![r].state = "failed"] /\ UNCHANGED grant
  /\ UNCHANGED <<shop, used, spentSince, money, draft, faults, doubtful>>

\* Mutant: only refund.updated with status succeeded is handled.
RefundEventSucceeded(r) ==
  LET p == refund[r].pack IN
  /\ refund[r].state = "pending" /\ refund[r].sent /\ FreePack(p)
  /\ money[r].status = "succeeded" /\ Revocable(r, grant[p])
  /\ refund' = [refund EXCEPT ![r].state = "succeeded"]
  /\ grant' = [grant EXCEPT ![p] = Revoked(r, grant[p])]
  /\ UNCHANGED <<shop, used, spentSince, money, draft, faults, doubtful>>

\* handleRefundStatusEvent: the row is found by stripe_refund_id; while there is
\* none, or the revocation throws, the event changes nothing.
RefundEvent(r) ==
  LET p == refund[r].pack IN
  /\ refund[r].state = "pending" /\ refund[r].sent /\ FreePack(p)
  /\ \/ /\ money[r].status = "succeeded" /\ Revocable(r, grant[p])
        /\ refund' = [refund EXCEPT ![r].state = "succeeded"]
        /\ grant' = [grant EXCEPT ![p] = Revoked(r, grant[p])]
     \/ /\ money[r].status = "failed"
        /\ refund' = [refund EXCEPT ![r].state = "failed"]
        /\ UNCHANGED grant
  /\ UNCHANGED <<shop, used, spentSince, money, draft, faults, doubtful>>

-----------------------------------------------------------------------------
Next ==
  \/ \E p \in Packs :
       \/ Checkout(p) \/ \E s \in {"complete", "expired"} : SessionEnds(p, s)
       \/ CheckoutEvent(p)
       \/ Spend(p) \/ GiveBack(p) \/ Expire(p)
  \/ \E r \in Refunds :
       \/ \E p \in Packs : Request(r, p)
       \/ Decide(r, "full", 0) \/ \E units \in 0 .. Units : Decide(r, "partial", units)
       \/ ProcessRefund(r) \/ RefundEvent(r)
       \/ \E s \in {"succeeded", "failed"} : Resolve(r, s)
  \/ StartSweep \/ Commit \/ Die

Spec == Init /\ [][Next]_vars

\* The worker sweeps for ever, a transaction ends, Stripe decides, the inbox
\* delivers.
Fairness ==
  /\ WF_vars(StartSweep)
  /\ WF_vars(Commit \/ \E r \in Refunds : ProcessRefund(r))
  /\ \A r \in Refunds :
       /\ SF_vars(RefundEvent(r))
       /\ WF_vars(\E s \in {"succeeded", "failed"} : Resolve(r, s))

FairSpec == Spec /\ Fairness

-----------------------------------------------------------------------------
(* Properties *)

GrantRows == [state : {"none", "active", "expired", "revoked"}, left : 0 .. Units]
RefundRows == [state : {"none", "pending", "succeeded", "failed"}, policy : {"none", "full", "partial"},
               pack : 0 .. NumPacks, units : 0 .. Units, sent : BOOLEAN]

TypeOK ==
  /\ session \in [Packs -> {"none", "open", "complete", "expired"}]
  /\ attempt \in [Packs -> {"none", "open", "complete", "expired"}]
  /\ grant \in [Packs -> GrantRows]
  /\ used \in [Packs -> 0 .. Units]
  /\ spentSince \subseteq Refunds
  /\ refund \in [Refunds -> RefundRows]
  /\ money \in [Refunds -> [status : {"none", "pending", "succeeded", "failed"},
                            policy : {"none", "full", "partial"}, amount : 0 .. Price]]
  /\ draft \in [open : BOOLEAN, todo : SUBSET Refunds, refunds : SUBSET Refunds, packs : SUBSET Packs,
                refund : [Refunds -> RefundRows], grant : [Packs -> GrantRows]]
  /\ faults \in Nat
  /\ doubtful \subseteq Refunds

RevokedUnits(p) ==
  Total([r \in Refunds |->
           IF refund[r].pack = p /\ refund[r].state = "succeeded" THEN refund[r].units ELSE 0], NumRefunds)

\* A pack that is paid back in full is over, and nothing of it was used, unless it
\* was drawn on while the refund was under way: only requestPackRefund looks.  A
\* partial refund takes its units once, whatever the sweep and the events do in
\* between: a pack that is still usable has left what was neither used nor refunded.
PaidInFull(r) == refund[r].state = "succeeded" /\ refund[r].policy = "full"

RefundsTakeTheirUnits ==
  /\ \A r \in Refunds : PaidInFull(r) =>
       /\ grant[refund[r].pack].state # "active"
       /\ r \notin spentSince => used[refund[r].pack] = 0
  /\ \A p \in Packs : grant[p].state = "active" => grant[p].left + used[p] + RevokedUnits(p) = Units

\* What refunds.ts says of every full_unused_pack refund: "the grant is, by
\* construction, still 100% unused" when it is revoked.
PaidBackPacksAreUnused == \A r \in Refunds : PaidInFull(r) => used[refund[r].pack] = 0

\* Our books and Stripe's agree: what Stripe refunds is on record, or about to be,
\* and nothing else is, except when the answer got lost or the sweep that held it
\* was rolled back.
RefundsAreOnRecord ==
  \A r \in Refunds \ doubtful :
    /\ money[r].status \in {"pending", "succeeded"} =>
         r \in draft.refunds \/ (refund[r].sent /\ refund[r].state \in {"pending", "succeeded"})
    /\ refund[r].state = "succeeded" => money[r].status = "succeeded"

\* The open refunds of a pack ask for more than it has left, or for the whole of it
\* and a part.
Stuck == \E p \in Packs :
  LET open == {r \in Refunds : refund[r].pack = p /\ refund[r].state = "pending"} IN
  \/ \E r \in open : ~Revocable(r, grant[p])
  \/ \E q, r \in open : q # r /\ refund[q].policy = "full"
  \/ Total([r \in Refunds |-> IF r \in open THEN refund[r].units ELSE 0], NumRefunds) > grant[p].left

\* Money owed is not forgotten: every refund is settled, unless the refunds of some
\* pack of the organization do not fit it, which stops all of them for ever while
\* Stripe pays.
EveryRefundSettles ==
  \A r \in Refunds : refund[r].state = "pending" ~> refund[r].state # "pending" \/ Stuck
=============================================================================
