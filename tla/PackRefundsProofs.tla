------------------------- MODULE PackRefundsProofs -------------------------
(***************************************************************************)
(* PackRefunds for any number of packs and refunds: RefundInv is inductive.*)
(* It says of the rows that the sweep's transaction sees what it says of   *)
(* the committed ones, so that a commit and a rollback both keep it.       *)
(***************************************************************************)
EXTENDS PackRefunds, SumLemmas

\* What the sweep's transaction reads, and what the tables are after its commit.
ViewRefund == [r \in Refunds |-> IF FreeRefund(r) THEN refund[r] ELSE draft.refund[r]]
ViewGrant == [p \in Packs |-> Seen(p)]

\* What a refund has taken from pack p.
Part(row, p) == IF row.pack = p /\ row.state = "succeeded" THEN row.units ELSE 0
Parts(rows, p) == [r \in Refunds |-> Part(rows[r], p)]

\* RefundsTakeTheirUnits of any rows.
Taken(rows, grants, use) ==
  /\ \A r \in Refunds : rows[r].state = "succeeded" /\ rows[r].policy = "full" =>
       grants[rows[r].pack].state # "active"
  /\ \A p \in Packs : grants[p].state = "active" =>
       grants[p].left + use[p] + Total(Parts(rows, p), NumRefunds) = Units

\* RefundsAreOnRecord of the rows the sweep would commit.
OnRecord(rows) ==
  \A r \in Refunds \ doubtful :
    /\ money[r].status \in {"pending", "succeeded"} =>
         rows[r].sent /\ rows[r].state \in {"pending", "succeeded"}
    /\ rows[r].state = "succeeded" => money[r].status = "succeeded"

\* Rows come after the rows they refer to.
Bought ==
  /\ \A p \in Packs : grant[p].state # "none" => attempt[p] = "complete"
  /\ \A p \in Packs : grant[p].state = "none" => used[p] = 0
  /\ \A r \in Refunds : refund[r].pack \in Packs => grant[refund[r].pack].state # "none"
  /\ \A r \in Refunds : refund[r].state # "none" => refund[r].pack \in Packs

\* The sweep has locked every row it has written, so nobody else has moved it.
Drafting ==
  /\ draft.todo \cap draft.refunds = {}
  /\ \A r \in draft.todo \cup draft.refunds : refund[r].state = "pending" /\ ~refund[r].sent
  /\ \A r \in draft.refunds : draft.refund[r].pack = refund[r].pack
  /\ \A p \in draft.packs : grant[p].state # "none" /\ draft.grant[p].state # "none"
  /\ ~draft.open => draft.todo = {} /\ draft.refunds = {} /\ draft.packs = {}

RefundInv ==
  /\ TypeOK /\ Bought /\ Drafting
  /\ Taken(refund, grant, used) /\ Taken(ViewRefund, ViewGrant, used)
  /\ RefundsAreOnRecord /\ OnRecord(ViewRefund)

-----------------------------------------------------------------------------
(* Sums and rows *)

\* What the sweep sees has the types of the tables.
LEMMA ViewTypes ==
  ASSUME TypeOK
  PROVE  /\ ViewRefund \in [Refunds -> RefundRows]
         /\ ViewGrant \in [Packs -> GrantRows]
         /\ \A p \in Packs : Seen(p) \in GrantRows /\ Seen(p) = ViewGrant[p]
<1>1. /\ refund \in [Refunds -> RefundRows] /\ draft.refund \in [Refunds -> RefundRows]
      /\ grant \in [Packs -> GrantRows] /\ draft.grant \in [Packs -> GrantRows]
  BY DEF TypeOK
<1>. QED BY <1>1 DEF ViewRefund, ViewGrant, Seen

\* When one row changes, the units taken from a pack change by its part.
LEMMA PartChanges ==
  ASSUME NEW rows \in [Refunds -> RefundRows], NEW q \in Refunds, NEW x \in RefundRows, NEW p
  PROVE  /\ Total(Parts(rows, p), NumRefunds) \in Nat
         /\ Total(Parts([rows EXCEPT ![q] = x], p), NumRefunds)
              = Total(Parts(rows, p), NumRefunds) + Part(x, p) - Part(rows[q], p)
<1>. DEFINE f == Parts(rows, p)
            h == Parts([rows EXCEPT ![q] = x], p)
<1>1. NumRefunds \in Nat
  BY RefundAssumption
<1>2. \A y \in RefundRows : Part(y, p) \in Nat
  BY RefundAssumption DEF Part, RefundRows
<1>3. \A r \in 1 .. NumRefunds : f[r] \in Nat /\ h[r] \in Nat
  BY <1>2 DEF Parts, Refunds
<1>4. \A r \in 1 .. NumRefunds : r # q => h[r] = f[r]
  BY DEF Parts, Refunds
<1>5. h[q] = Part(x, p) /\ f[q] = Part(rows[q], p) /\ q \in 1 .. NumRefunds
  BY DEF Parts, Refunds
<1>. HIDE DEF f, h
<1>6. DiffersAt(h, f, q, NumRefunds)
  BY <1>3, <1>4, <1>5 DEF DiffersAt
<1>7. Total(f, NumRefunds) \in Nat
  BY <1>1, <1>3, TotalNat
<1>8. Total(h, NumRefunds) = Total(f, NumRefunds) + (h[q] - f[q])
  BY <1>1, <1>6, TotalUpdate
<1>9. Part(x, p) \in Nat /\ Part(rows[q], p) \in Nat
  BY <1>2
<1>. QED BY <1>5, <1>7, <1>8, <1>9 DEF f, h

\* A row that takes nothing, before or after, may change.
LEMMA RowChanges ==
  ASSUME NEW rows \in [Refunds -> RefundRows], NEW grants, NEW use, Taken(rows, grants, use),
         NEW q \in Refunds, NEW x \in RefundRows, rows[q].state # "succeeded", x.state # "succeeded"
  PROVE  Taken([rows EXCEPT ![q] = x], grants, use)
<1>. DEFINE new == [rows EXCEPT ![q] = x]
<1>1. \A p \in Packs : Part(x, p) = 0 /\ Part(rows[q], p) = 0
  BY DEF Part
<1>2. ASSUME NEW p \in Packs PROVE Total(Parts(new, p), NumRefunds) = Total(Parts(rows, p), NumRefunds)
  <2>1. /\ Total(Parts(rows, p), NumRefunds) \in Nat
        /\ Total(Parts(new, p), NumRefunds) = Total(Parts(rows, p), NumRefunds) + Part(x, p) - Part(rows[q], p)
    BY PartChanges, Zenon
  <2>. QED BY <1>1, <2>1
<1>3. \A r \in Refunds : new[r] = IF r = q THEN x ELSE rows[r]
  OBVIOUS
<1>. HIDE DEF new
<1>4. Taken(new, grants, use)
  BY <1>2, <1>3 DEF Taken
<1>. QED BY <1>4 DEF new

\* A refund takes its units: all of an active grant, or those it names.
LEMMA RevocationTakes ==
  ASSUME NEW rows \in [Refunds -> RefundRows], NEW grants \in [Packs -> GrantRows], NEW use \in [Packs -> Nat],
         Taken(rows, grants, use), NEW q \in Refunds, NEW x \in RefundRows,
         rows[q].state # "succeeded", x.state = "succeeded", x.pack \in Packs,
         NEW g \in GrantRows,
         \/ x.policy = "full" /\ g.state = "revoked"
         \/ x.policy # "full" /\ g.state = grants[x.pack].state /\ g.left = grants[x.pack].left - x.units
  PROVE  Taken([rows EXCEPT ![q] = x], [grants EXCEPT ![x.pack] = g], use)
<1>. DEFINE new == [rows EXCEPT ![q] = x]
            after == [grants EXCEPT ![x.pack] = g]
            sum(p) == Total(Parts(rows, p), NumRefunds)
<1>1. \A p \in Packs : Part(rows[q], p) = 0 /\ Part(x, p) = IF p = x.pack THEN x.units ELSE 0
  BY DEF Part
<1>2. x.units \in Nat
  BY RefundAssumption DEF RefundRows
<1>3. \A p \in Packs : sum(p) \in Nat
  BY PartChanges
<1>4. ASSUME NEW p \in Packs
      PROVE  Total(Parts(new, p), NumRefunds) = sum(p) + (IF p = x.pack THEN x.units ELSE 0)
  <2>1. Total(Parts(new, p), NumRefunds) = sum(p) + Part(x, p) - Part(rows[q], p)
    BY PartChanges, Zenon
  <2>. HIDE DEF new, sum
  <2>. QED BY <1>1, <1>2, <1>3, <2>1
<1>5. /\ \A r \in Refunds : new[r] = IF r = q THEN x ELSE rows[r]
      /\ \A p \in Packs : after[p] = IF p = x.pack THEN g ELSE grants[p]
  OBVIOUS
<1>6. \A p \in Packs : grants[p].left \in Nat /\ use[p] \in Nat
  BY RefundAssumption DEF GrantRows
<1>. HIDE DEF new, after, sum
<1>7. ASSUME NEW p \in Packs, after[p].state = "active"
      PROVE  after[p].left + use[p] + Total(Parts(new, p), NumRefunds) = Units
  <2>1. grants[p].state = "active" /\ after[p].left = grants[p].left - (IF p = x.pack THEN x.units ELSE 0)
    BY <1>2, <1>5, <1>6, <1>7
  <2>2. grants[p].left + use[p] + sum(p) = Units
    BY <2>1 DEF Taken, sum
  <2>. QED BY <1>2, <1>3, <1>4, <1>6, <2>1, <2>2
<1>8. ASSUME NEW r \in Refunds, new[r].state = "succeeded", new[r].policy = "full"
      PROVE  after[new[r].pack].state # "active"
  <2>1. CASE r = q
    BY <1>5, <1>8, <2>1
  <2>2. CASE r # q
    <3>1. new[r] = rows[r] /\ grants[rows[r].pack].state # "active"
      BY <1>5, <1>8, <2>2 DEF Taken
    <3>. QED BY <1>5, <3>1 DEF after
  <2>. QED BY <2>1, <2>2
<1>9. Taken(new, after, use)
  BY <1>7, <1>8 DEF Taken
<1>. QED BY <1>9 DEF new, after

\* Units may move between a grant and its use, and a grant may end.
LEMMA GrantMoves ==
  ASSUME NEW rows, NEW grants \in [Packs -> GrantRows], NEW use \in [Packs -> Nat], NEW uses \in [Packs -> Nat],
         Taken(rows, grants, use), NEW p \in Packs, NEW g \in GrantRows,
         \A o \in Packs : o # p => uses[o] = use[o],
         g.state = "active" => grants[p].state = "active" /\ g.left + uses[p] = grants[p].left + use[p]
  PROVE  Taken(rows, [grants EXCEPT ![p] = g], uses)
<1>. DEFINE after == [grants EXCEPT ![p] = g]
<1>1. \A o \in Packs : after[o] = IF o = p THEN g ELSE grants[o]
  OBVIOUS
<1>2. \A o \in Packs : grants[o].left \in Nat /\ use[o] \in Nat /\ uses[o] \in Nat /\ g.left \in Nat
  BY RefundAssumption DEF GrantRows
<1>3. ASSUME NEW o \in Packs, after[o].state = "active"
      PROVE  after[o].left + uses[o] + Total(Parts(rows, o), NumRefunds) = Units
  <2>1. grants[o].state = "active" /\ after[o].left + uses[o] = grants[o].left + use[o]
    BY <1>1, <1>3
  <2>2. grants[o].left + use[o] + Total(Parts(rows, o), NumRefunds) = Units
    BY <2>1 DEF Taken
  <2>. QED BY <1>1, <1>2, <2>1, <2>2
<1>4. ASSUME NEW r \in Refunds, rows[r].state = "succeeded", rows[r].policy = "full"
      PROVE  after[rows[r].pack].state # "active"
  <2>1. grants[rows[r].pack].state # "active"
    BY <1>4 DEF Taken
  <2>. QED BY <2>1
<1>. HIDE DEF after
<1>5. Taken(rows, after, uses)
  BY <1>3, <1>4 DEF Taken
<1>. QED BY <1>5 DEF after

-----------------------------------------------------------------------------
(* Transactions other than the sweep's *)

\* The empty tables, which are all the sweep could see.
LEMMA InitRefunds == Init => RefundInv
<1>. SUFFICES ASSUME Init PROVE RefundInv
  OBVIOUS
<1>. USE RefundAssumption
<1>1. NoRefund \in RefundRows /\ [state |-> "none", left |-> 0] \in GrantRows
  BY DEF NoRefund, RefundRows, GrantRows
<1>2. draft = NoDraft /\ NoDraft.todo = {} /\ NoDraft.refunds = {} /\ NoDraft.packs = {}
  BY DEF Init, NoDraft
<1>3. TypeOK
  <2>1. NoDraft.refund \in [Refunds -> RefundRows] /\ NoDraft.grant \in [Packs -> GrantRows]
    BY <1>1 DEF NoDraft
  <2>2. draft \in [open : BOOLEAN, todo : SUBSET Refunds, refunds : SUBSET Refunds, packs : SUBSET Packs,
                   refund : [Refunds -> RefundRows], grant : [Packs -> GrantRows]]
    BY <1>1, <1>2 DEF NoDraft
  <2>3. NoMoney \in [status : {"none", "pending", "succeeded", "failed"},
                     policy : {"none", "full", "partial"}, amount : 0 .. Price]
    BY DEF NoMoney
  <2>. QED BY <1>1, <2>2, <2>3 DEF Init, TypeOK
<1>4. ViewRefund = refund /\ ViewGrant = grant
  BY <1>2, <1>3 DEF ViewRefund, ViewGrant, Seen, FreeRefund, FreePack, TypeOK
<1>5. Bought
  BY DEF Init, Bought, Packs, NoRefund
<1>6. Drafting
  BY <1>2 DEF Drafting
<1>7. Taken(refund, grant, used)
  BY DEF Init, Taken, NoRefund
<1>8. RefundsAreOnRecord /\ OnRecord(refund)
  BY DEF Init, RefundsAreOnRecord, OnRecord, NoRefund, NoMoney
<1>. QED BY <1>3, <1>4, <1>5, <1>6, <1>7, <1>8 DEF RefundInv

\* What another transaction writes is what the sweep then sees.
LEMMA ViewFollows ==
  ASSUME TypeOK, draft' = draft
  PROVE  /\ refund' = refund => ViewRefund' = ViewRefund
         /\ grant' = grant => ViewGrant' = ViewGrant
         /\ \A q \in Refunds : \A x : FreeRefund(q) /\ refund' = [refund EXCEPT ![q] = x]
              => ViewRefund' = [ViewRefund EXCEPT ![q] = x]
         /\ \A p \in Packs : \A g : FreePack(p) /\ grant' = [grant EXCEPT ![p] = g]
              => ViewGrant' = [ViewGrant EXCEPT ![p] = g]
BY DEF TypeOK, ViewRefund, ViewGrant, Seen, FreeRefund, FreePack

\* Rows that are not about units or Stripe leave the rest of the invariant alone.
LEMMA OthersKeep ==
  ASSUME RefundInv, UNCHANGED <<draft, refund, money, doubtful>>
  PROVE  RefundsAreOnRecord' /\ OnRecord(ViewRefund)' /\ ViewRefund' = ViewRefund
<1>1. ViewRefund' = ViewRefund
  BY ViewFollows DEF RefundInv
<1>. QED BY <1>1 DEF RefundInv, RefundsAreOnRecord, OnRecord

\* Checkout sessions begin and end.
LEMMA ShopKeeps ==
  ASSUME RefundInv, NEW p \in Packs,
         Checkout(p) \/ \E status \in {"complete", "expired"} : SessionEnds(p, status)
  PROVE  RefundInv'
<1>1. UNCHANGED <<grant, used, spentSince, refund, money, draft, faults, doubtful>>
  BY DEF Checkout, SessionEnds
<1>2. TypeOK'
  BY <1>1 DEF RefundInv, TypeOK, Checkout, SessionEnds
<1>3. Bought'
  BY <1>1 DEF RefundInv, TypeOK, Bought, Checkout, SessionEnds
<1>4. Drafting'
  BY <1>1 DEF RefundInv, Drafting
<1>5. ViewGrant' = ViewGrant
  BY <1>1, ViewFollows DEF RefundInv
<1>6. Taken(refund, grant, used)' /\ Taken(ViewRefund, ViewGrant, used)'
  BY <1>1, <1>5, OthersKeep DEF RefundInv, Taken
<1>. QED BY <1>1, <1>2, <1>3, <1>4, <1>6, OthersKeep DEF RefundInv

\* The purchase: nothing refers to the pack yet.
LEMMA CheckoutEventKeeps ==
  ASSUME RefundInv, NEW p \in Packs, CheckoutEvent(p)
  PROVE  RefundInv'
<1>. DEFINE new == [state |-> "active", left |-> Units]
<1>1. UNCHANGED <<session, used, spentSince, refund, money, draft, faults, doubtful>>
  BY DEF CheckoutEvent
<1>2. grant[p].state = "none" /\ used[p] = 0
  BY DEF RefundInv, Bought, CheckoutEvent
<1>3. \A r \in Refunds : refund[r].pack # p
  BY <1>2 DEF RefundInv, Bought
<1>4. FreePack(p)
  BY <1>2 DEF RefundInv, Drafting, FreePack
<1>5. grant' = grant \/ grant' = [grant EXCEPT ![p] = new]
  BY DEF CheckoutEvent
<1>6. new \in GrantRows
  BY RefundAssumption DEF GrantRows
<1>7. TypeOK'
  BY <1>1, <1>5, <1>6 DEF RefundInv, TypeOK, CheckoutEvent
<1>8. Bought'
  <2>1. \A o \in Packs : (o = p \/ attempt'[o] = attempt[o]) /\ (o = p \/ grant'[o] = grant[o])
    BY <1>5 DEF CheckoutEvent, RefundInv, TypeOK
  <2>2. grant'[p].state # "none" => attempt'[p] = "complete"
    BY <1>2 DEF CheckoutEvent, RefundInv, TypeOK
  <2>3. \A r \in Refunds : refund[r].pack \in Packs => grant'[refund[r].pack] = grant[refund[r].pack]
    BY <1>3, <2>1
  <2>. QED BY <1>1, <1>2, <2>1, <2>2, <2>3 DEF RefundInv, Bought
<1>9. Drafting'
  BY <1>1, <1>4, <1>5 DEF RefundInv, TypeOK, Drafting, FreePack
<1>10. ASSUME NEW rows \in [Refunds -> RefundRows], NEW grants \in [Packs -> GrantRows], Taken(rows, grants, used),
              \A r \in Refunds : rows[r].pack # p
       PROVE  Taken(rows, [grants EXCEPT ![p] = new], used)
  <2>1. \A i \in 1 .. NumRefunds : Parts(rows, p)[i] = 0
    BY <1>10 DEF Parts, Part, Refunds
  <2>2. Total(Parts(rows, p), NumRefunds) = 0
    BY <2>1, TotalZero, RefundAssumption
  <2>3. \A o \in Packs : [grants EXCEPT ![p] = new][o] = IF o = p THEN new ELSE grants[o]
    OBVIOUS
  <2>4. \A r \in Refunds : [grants EXCEPT ![p] = new][rows[r].pack] = grants[rows[r].pack]
    BY <1>10
  <2>. HIDE DEF new
  <2>5. new.left = Units
    BY DEF new
  <2>6. ASSUME NEW o \in Packs, [grants EXCEPT ![p] = new][o].state = "active"
        PROVE  [grants EXCEPT ![p] = new][o].left + used[o] + Total(Parts(rows, o), NumRefunds) = Units
    BY <1>2, <1>10, <2>2, <2>3, <2>5, <2>6, RefundAssumption DEF Taken
  <2>. QED BY <1>10, <2>4, <2>6 DEF Taken
<1>11. \A r \in Refunds : ViewRefund[r].pack # p
  BY <1>3 DEF ViewRefund, FreeRefund, RefundInv, Drafting
<1>12. Taken(refund, grant, used)' /\ Taken(ViewRefund, ViewGrant, used)'
  <2>1. Taken(refund, [grant EXCEPT ![p] = new], used) /\ Taken(ViewRefund, [ViewGrant EXCEPT ![p] = new], used)
    BY <1>3, <1>10, <1>11, ViewTypes DEF RefundInv, TypeOK
  <2>2. CASE grant' = grant
    <3>1. ViewGrant' = ViewGrant
      BY <1>1, <2>2, ViewFollows DEF RefundInv
    <3>. QED BY <1>1, <2>2, <3>1, OthersKeep DEF RefundInv, Taken
  <2>3. CASE grant' = [grant EXCEPT ![p] = new]
    <3>1. ViewGrant' = [ViewGrant EXCEPT ![p] = new]
      BY <1>1, <1>4, <2>3, ViewFollows DEF RefundInv
    <3>2. ViewRefund' = ViewRefund
      BY <1>1, OthersKeep
    <3>. QED BY <1>1, <2>1, <2>3, <3>1, <3>2 DEF Taken
  <2>. QED BY <1>5, <2>2, <2>3
<1>. QED BY <1>1, <1>7, <1>8, <1>9, <1>12, OthersKeep DEF RefundInv

\* Spending, giving back and expiry move units between a grant and its use.
LEMMA UseKeeps ==
  ASSUME RefundInv, NEW p \in Packs, Spend(p) \/ GiveBack(p) \/ Expire(p)
  PROVE  RefundInv'
<1>1. UNCHANGED <<shop, refund, money, draft, faults, doubtful>> /\ spentSince' \subseteq Refunds /\ grant[p].state = "active" /\ FreePack(p)
  BY DEF Spend, GiveBack, Expire, RefundInv, TypeOK
<1>2. /\ grant \in [Packs -> GrantRows] /\ used \in [Packs -> 0 .. Units]
      /\ grant[p].left \in 0 .. Units /\ used[p] \in 0 .. Units /\ Units \in Nat
  BY RefundAssumption DEF RefundInv, TypeOK, GrantRows
<1>3. Total(Parts(refund, p), NumRefunds) \in Nat
  <2>1. refund[1] \in RefundRows \/ NumRefunds = 0
    BY RefundAssumption DEF RefundInv, TypeOK, Refunds
  <2>2. \A r \in 1 .. NumRefunds : Parts(refund, p)[r] \in Nat
    BY RefundAssumption DEF RefundInv, TypeOK, RefundRows, Parts, Part, Refunds
  <2>. QED BY <2>2, TotalNat, RefundAssumption
<1>4. grant[p].left + used[p] + Total(Parts(refund, p), NumRefunds) = Units
  BY <1>1 DEF RefundInv, Taken
<1>5. PICK g \in GrantRows :
        /\ grant' = [grant EXCEPT ![p] = g] /\ g.state # "none"
        /\ g.state = "active" => g.left + used'[p] = grant[p].left + used[p]
        /\ used' \in [Packs -> 0 .. Units]
        /\ \A o \in Packs : o # p => used'[o] = used[o]
  <2>1. CASE Spend(p)
    <3>. DEFINE g == [grant[p] EXCEPT !.left = grant[p].left - 1]
    <3>1. grant' = [grant EXCEPT ![p] = g] /\ used' = [used EXCEPT ![p] = used[p] + 1] /\ grant[p].left > 0
      BY <1>2, <2>1 DEF Spend
    <3>2. g \in GrantRows /\ g.state = "active" /\ g.left = grant[p].left - 1
      BY <1>1, <1>2, <3>1 DEF GrantRows
    <3>3. used[p] + 1 \in 0 .. Units
      BY <1>2, <1>3, <1>4, <3>1
    <3>4. used' \in [Packs -> 0 .. Units] /\ used'[p] = used[p] + 1 /\ \A o \in Packs : o # p => used'[o] = used[o]
      BY <1>2, <3>1, <3>3
    <3>5. g.left + used'[p] = grant[p].left + used[p]
      BY <1>2, <3>2, <3>4
    <3>. HIDE DEF g
    <3>. QED BY <3>1, <3>2, <3>4, <3>5
  <2>2. CASE GiveBack(p)
    <3>. DEFINE g == [grant[p] EXCEPT !.left = grant[p].left + 1]
    <3>1. grant' = [grant EXCEPT ![p] = g] /\ used' = [used EXCEPT ![p] = used[p] - 1] /\ used[p] > 0
      BY <1>2, <2>2 DEF GiveBack
    <3>2. grant[p].left + 1 \in 0 .. Units
      BY <1>2, <1>3, <1>4, <3>1
    <3>3. g \in GrantRows /\ g.state = "active" /\ g.left = grant[p].left + 1
      BY <1>1, <1>2, <3>2 DEF GrantRows
    <3>4. used' \in [Packs -> 0 .. Units] /\ used'[p] = used[p] - 1 /\ \A o \in Packs : o # p => used'[o] = used[o]
      BY <1>2, <3>1
    <3>5. g.left + used'[p] = grant[p].left + used[p]
      BY <1>2, <3>3, <3>4
    <3>. HIDE DEF g
    <3>. QED BY <3>1, <3>3, <3>4, <3>5
  <2>3. CASE Expire(p)
    <3>1. [state |-> "expired", left |-> 0] \in GrantRows
      BY RefundAssumption DEF GrantRows
    <3>. QED BY <1>2, <2>3, <3>1 DEF Expire
  <2>. QED BY <2>1, <2>2, <2>3
<1>6. TypeOK'
  BY <1>1, <1>5 DEF RefundInv, TypeOK, shop
<1>7. Bought'
  <2>1. \A o \in Packs : grant'[o].state = "none" <=> grant[o].state = "none"
    BY <1>1, <1>2, <1>5
  <2>2. \A o \in Packs : o # p => used'[o] = used[o]
    BY <1>5
  <2>. QED BY <1>1, <2>1, <2>2 DEF RefundInv, Bought, shop
<1>8. Drafting'
  BY <1>1, <1>2, <1>5 DEF RefundInv, Drafting
<1>9. used \in [Packs -> Nat] /\ used' \in [Packs -> Nat]
  BY <1>2, <1>5
<1>10. Taken(refund, grant, used)'
  <2>1. Taken(refund, [grant EXCEPT ![p] = g], used')
    BY <1>1, <1>2, <1>5, <1>9, GrantMoves DEF RefundInv
  <2>. QED BY <1>1, <1>5, <2>1 DEF Taken
<1>11. Taken(ViewRefund, ViewGrant, used)'
  <2>1. ViewGrant[p] = grant[p] /\ ViewGrant \in [Packs -> GrantRows]
    BY <1>1, ViewTypes DEF RefundInv, Seen
  <2>2. Taken(ViewRefund, [ViewGrant EXCEPT ![p] = g], used')
    BY <1>1, <1>5, <1>9, <2>1, GrantMoves DEF RefundInv
  <2>3. ViewGrant' = [ViewGrant EXCEPT ![p] = g] /\ ViewRefund' = ViewRefund
    BY <1>1, <1>5, ViewFollows, OthersKeep DEF RefundInv
  <2>. QED BY <2>2, <2>3 DEF Taken
<1>. QED BY <1>1, <1>6, <1>7, <1>8, <1>10, <1>11, OthersKeep DEF RefundInv

\* A refund row that is not closed, and was not, may be written by whoever finds
\* it free: the owner's request, the operator's decision, a failed refund's event.
LEMMA OpenRowKeeps ==
  ASSUME RefundInv, NEW r \in Refunds, NEW x \in RefundRows,
         refund' = [refund EXCEPT ![r] = x], UNCHANGED <<shop, grant, used, spentSince, money, draft, faults, doubtful>>,
         FreeRefund(r), refund[r].state # "succeeded", x.state \notin {"none", "succeeded"},
         x.pack \in Packs, grant[x.pack].state # "none",
         r \in draft.todo => x.state = "pending" /\ ~x.sent,
         r \notin doubtful /\ money[r].status \in {"pending", "succeeded"} => x.sent /\ x.state = "pending"
  PROVE  RefundInv'
<1>1. refund \in [Refunds -> RefundRows] /\ ViewRefund \in [Refunds -> RefundRows]
  BY ViewTypes DEF RefundInv, TypeOK
<1>2. TypeOK'
  BY <1>1 DEF RefundInv, TypeOK, shop
<1>3. Bought'
  BY <1>1 DEF RefundInv, Bought, shop
<1>4. Drafting'
  BY <1>1 DEF RefundInv, Drafting, FreeRefund
<1>5. ViewRefund' = [ViewRefund EXCEPT ![r] = x] /\ ViewGrant' = ViewGrant /\ ViewRefund[r] = refund[r]
  <2>1. ViewRefund[r] = refund[r]
    BY DEF ViewRefund
  <2>2. ViewGrant' = ViewGrant
    BY ViewFollows DEF RefundInv
  <2>3. ViewRefund' = [ViewRefund EXCEPT ![r] = x]
    BY ViewFollows DEF RefundInv
  <2>. QED BY <2>1, <2>2, <2>3
<1>6. Taken(refund, grant, used)'
  <2>1. Taken([refund EXCEPT ![r] = x], grant, used)
    BY <1>1, RowChanges DEF RefundInv
  <2>. QED BY <2>1 DEF Taken
<1>7. Taken(ViewRefund, ViewGrant, used)'
  <2>1. Taken([ViewRefund EXCEPT ![r] = x], ViewGrant, used)
    BY <1>1, <1>5, RowChanges DEF RefundInv
  <2>. QED BY <1>5, <2>1 DEF Taken
<1>8. RefundsAreOnRecord'
  BY <1>1 DEF RefundInv, RefundsAreOnRecord
<1>9. OnRecord(ViewRefund)'
  BY <1>1, <1>5 DEF RefundInv, OnRecord
<1>. QED BY <1>2, <1>3, <1>4, <1>6, <1>7, <1>8, <1>9 DEF RefundInv

\* A new request: Stripe has never heard of it.
LEMMA RequestKeeps ==
  ASSUME RefundInv, NEW r \in Refunds, NEW p \in Packs, Request(r, p)
  PROVE  RefundInv'
<1>. DEFINE x == [state |-> "pending", policy |-> "full", pack |-> p, units |-> 0, sent |-> FALSE]
<1>1. refund[r].state = "none" /\ ~refund[r].sent /\ grant[p].state = "active"
  BY DEF Request, NoRefund
<1>2. r \notin draft.todo /\ FreeRefund(r)
  BY <1>1 DEF RefundInv, Drafting, FreeRefund
<1>3. x \in RefundRows
  BY RefundAssumption DEF RefundRows, Packs
<1>4. ~(r \notin doubtful /\ money[r].status \in {"pending", "succeeded"})
  BY <1>1, <1>2 DEF RefundInv, RefundsAreOnRecord, FreeRefund
<1>. QED BY <1>1, <1>2, <1>3, <1>4, OpenRowKeeps DEF Request

\* A decision on a refund that is not on record as sent, and so has not been.
LEMMA DecideKeeps ==
  ASSUME RefundInv, NEW r \in Refunds, NEW policy \in {"full", "partial"}, NEW units \in 0 .. Units,
         Decide(r, policy, units)
  PROVE  RefundInv'
<1>. DEFINE x == [refund[r] EXCEPT !.policy = policy, !.units = units]
<1>1. refund[r].state = "pending" /\ ~refund[r].sent /\ FreeRefund(r) /\ refund[r] \in RefundRows
  BY DEF Decide, RefundInv, TypeOK
<1>2. x \in RefundRows /\ x.state = "pending" /\ ~x.sent /\ x.pack = refund[r].pack
  BY <1>1 DEF RefundRows
<1>3. refund' = [refund EXCEPT ![r] = x]
  BY <1>1 DEF Decide, RefundInv, TypeOK
<1>4. x.pack \in Packs /\ grant[x.pack].state # "none"
  BY <1>1, <1>2 DEF RefundInv, Bought
<1>5. ~(r \notin doubtful /\ money[r].status \in {"pending", "succeeded"})
  BY <1>1 DEF RefundInv, RefundsAreOnRecord, FreeRefund
<1>. HIDE DEF x
<1>. QED BY <1>1, <1>2, <1>3, <1>4, <1>5, OpenRowKeeps DEF Decide

-----------------------------------------------------------------------------
(* Stripe decides later *)

\* What a revocation leaves of a grant that allows it.
LEMMA RevokedGrant ==
  ASSUME NEW r \in Refunds, refund[r] \in RefundRows, NEW g \in GrantRows, Revocable(r, g)
  PROVE  /\ Revoked(r, g) \in GrantRows
         /\ refund[r].policy = "full" => Revoked(r, g).state = "revoked"
         /\ refund[r].policy # "full" =>
              Revoked(r, g).state = g.state /\ Revoked(r, g).left = g.left - refund[r].units
         /\ g.state # "none" => Revoked(r, g).state # "none"
<1>. USE RefundAssumption
<1>1. CASE refund[r].policy = "full"
  BY <1>1 DEF Revoked, GrantRows
<1>2. CASE refund[r].policy # "full"
  <2>1. Revoked(r, g) = [g EXCEPT !.left = g.left - refund[r].units] /\ g.left >= refund[r].units
    BY <1>2 DEF Revoked, Revocable
  <2>2. g.left - refund[r].units \in 0 .. Units
    BY <2>1 DEF GrantRows, RefundRows
  <2>. QED BY <1>2, <2>1, <2>2 DEF GrantRows
<1>. QED BY <1>1, <1>2

\* Stripe settles a refund; no row that is out of doubt contradicts it.
LEMMA ResolveKeeps ==
  ASSUME RefundInv, NEW r \in Refunds, NEW status \in {"succeeded", "failed"}, Resolve(r, status)
  PROVE  RefundInv'
<1>1. UNCHANGED <<shop, grant, used, spentSince, refund, draft, faults, doubtful>>
  BY DEF Resolve
<1>2. TypeOK'
  BY <1>1 DEF RefundInv, TypeOK, Resolve, shop
<1>3. /\ \A q \in Refunds : q # r => money'[q] = money[q]
      /\ money[r].status = "pending"
  BY DEF RefundInv, TypeOK, Resolve
<1>4. ViewRefund' = ViewRefund /\ ViewGrant' = ViewGrant
  BY <1>1, ViewFollows DEF RefundInv
<1>5. Bought' /\ Drafting'
  BY <1>1 DEF RefundInv, Bought, Drafting, shop
<1>6. Taken(refund, grant, used)' /\ Taken(ViewRefund, ViewGrant, used)'
  BY <1>1, <1>4 DEF RefundInv, Taken
<1>7. RefundsAreOnRecord'
  BY <1>1, <1>3 DEF RefundInv, RefundsAreOnRecord
<1>8. OnRecord(ViewRefund)'
  BY <1>1, <1>3, <1>4 DEF RefundInv, OnRecord
<1>. QED BY <1>2, <1>5, <1>6, <1>7, <1>8 DEF RefundInv

\* The event of a settled refund; the sweep cannot have the row, which is sent.
LEMMA RefundEventKeeps ==
  ASSUME RefundInv, NEW r \in Refunds, RefundEvent(r)
  PROVE  RefundInv'
<1>. DEFINE p == refund[r].pack
            x(state) == [refund[r] EXCEPT !.state = state]
            g == Revoked(r, grant[p])
<1>1. /\ refund[r].state = "pending" /\ refund[r].sent /\ FreePack(p) /\ refund[r] \in RefundRows
      /\ UNCHANGED <<shop, used, spentSince, money, draft, faults, doubtful>>
  BY DEF RefundEvent, RefundInv, TypeOK
<1>2. r \notin draft.todo /\ FreeRefund(r)
  BY <1>1 DEF RefundInv, Drafting, FreeRefund
<1>3. p \in Packs /\ grant[p].state # "none" /\ grant[p] \in GrantRows
  BY <1>1 DEF RefundInv, Bought, TypeOK
<1>4. \A state \in {"succeeded", "failed"} :
        /\ x(state) \in RefundRows /\ x(state).state = state /\ x(state).pack = p
        /\ x(state).policy = refund[r].policy /\ x(state).units = refund[r].units /\ x(state).sent
  BY <1>1 DEF RefundRows
<1>5. CASE /\ money[r].status = "failed"
           /\ refund' = [refund EXCEPT ![r] = x("failed")] /\ grant' = grant
  <2>. HIDE DEF x, p
  <2>. QED BY <1>1, <1>2, <1>3, <1>4, <1>5, OpenRowKeeps
<1>6. CASE /\ money[r].status = "succeeded" /\ Revocable(r, grant[p])
           /\ refund' = [refund EXCEPT ![r] = x("succeeded")] /\ grant' = [grant EXCEPT ![p] = g]
  <2>1. /\ g \in GrantRows /\ g.state # "none"
        /\ refund[r].policy = "full" => g.state = "revoked"
        /\ refund[r].policy # "full" => g.state = grant[p].state /\ g.left = grant[p].left - refund[r].units
    BY <1>1, <1>3, <1>6, RevokedGrant
  <2>. HIDE DEF g, x, p
  <2>2. /\ refund \in [Refunds -> RefundRows] /\ grant \in [Packs -> GrantRows] /\ used \in [Packs -> Nat]
        /\ ViewRefund \in [Refunds -> RefundRows] /\ ViewGrant \in [Packs -> GrantRows]
    BY ViewTypes, RefundAssumption DEF RefundInv, TypeOK
  <2>3. TypeOK'
    BY <1>1, <1>4, <1>6, <2>1 DEF RefundInv, TypeOK, shop
  <2>4. Bought'
    BY <1>1, <1>3, <1>4, <1>6, <2>1, <2>2 DEF RefundInv, Bought, shop, p
  <2>5. Drafting'
    BY <1>1, <1>2, <1>6, <2>1, <2>2 DEF RefundInv, Drafting, FreeRefund
  <2>6. Taken(refund, grant, used)'
    <3>1. Taken([refund EXCEPT ![r] = x("succeeded")], [grant EXCEPT ![x("succeeded").pack] = g], used)
      BY <1>1, <1>3, <1>4, <2>1, <2>2, RevocationTakes DEF RefundInv
    <3>. QED BY <1>1, <1>4, <1>6, <3>1 DEF Taken
  <2>7. /\ ViewRefund[r] = refund[r] /\ ViewGrant[p] = grant[p]
        /\ ViewRefund' = [ViewRefund EXCEPT ![r] = x("succeeded")]
        /\ ViewGrant' = [ViewGrant EXCEPT ![p] = g]
    <3>1. ViewRefund[r] = refund[r] /\ ViewGrant[p] = grant[p]
      BY <1>1, <1>2, <1>3 DEF ViewRefund, ViewGrant, Seen
    <3>2. ViewRefund' = [ViewRefund EXCEPT ![r] = x("succeeded")] /\ ViewGrant' = [ViewGrant EXCEPT ![p] = g]
      BY <1>1, <1>2, <1>3, <1>6, ViewFollows DEF RefundInv
    <3>. QED BY <3>1, <3>2
  <2>8. Taken(ViewRefund, ViewGrant, used)'
    <3>1. /\ Taken(ViewRefund, ViewGrant, used) /\ ViewRefund[r].state # "succeeded"
          /\ x("succeeded") \in RefundRows /\ x("succeeded").state = "succeeded" /\ x("succeeded").pack \in Packs
      BY <1>1, <1>3, <1>4, <2>7 DEF RefundInv
    <3>2. \/ x("succeeded").policy = "full" /\ g.state = "revoked"
          \/ /\ x("succeeded").policy # "full" /\ g.state = ViewGrant[x("succeeded").pack].state
             /\ g.left = ViewGrant[x("succeeded").pack].left - x("succeeded").units
      BY <1>4, <2>1, <2>7
    <3>3. Taken([ViewRefund EXCEPT ![r] = x("succeeded")], [ViewGrant EXCEPT ![x("succeeded").pack] = g], used)
      BY <2>1, <2>2, <3>1, <3>2, RevocationTakes
    <3>. QED BY <1>1, <1>4, <2>7, <3>3 DEF Taken
  <2>9. RefundsAreOnRecord'
    BY <1>1, <1>4, <1>6, <2>2 DEF RefundInv, RefundsAreOnRecord
  <2>10. OnRecord(ViewRefund)'
    BY <1>1, <1>4, <1>6, <2>2, <2>7 DEF RefundInv, OnRecord
  <2>. QED BY <2>3, <2>4, <2>5, <2>6, <2>8, <2>9, <2>10 DEF RefundInv
<1>7. \/ /\ money[r].status = "failed"
         /\ refund' = [refund EXCEPT ![r] = x("failed")] /\ grant' = grant
      \/ /\ money[r].status = "succeeded" /\ Revocable(r, grant[p])
         /\ refund' = [refund EXCEPT ![r] = x("succeeded")] /\ grant' = [grant EXCEPT ![p] = g]
  BY DEF RefundEvent, RefundInv, TypeOK
<1>. QED BY <1>5, <1>6, <1>7

-----------------------------------------------------------------------------
(* The sweep's transaction *)

Drafts == [open : BOOLEAN, todo : SUBSET Refunds, refunds : SUBSET Refunds, packs : SUBSET Packs,
           refund : [Refunds -> RefundRows], grant : [Packs -> GrantRows]]
MoneyRows == [status : {"none", "pending", "succeeded", "failed"},
              policy : {"none", "full", "partial"}, amount : 0 .. Price]

\* A transaction begins with nothing written.
LEMMA FreshDraft ==
  /\ NoDraft \in Drafts
  /\ NoDraft.todo = {} /\ NoDraft.refunds = {} /\ NoDraft.packs = {}
<1>1. NoRefund \in RefundRows /\ [state |-> "none", left |-> 0] \in GrantRows
  BY RefundAssumption DEF NoRefund, RefundRows, GrantRows
<1>2. /\ [r \in Refunds |-> NoRefund] \in [Refunds -> RefundRows]
      /\ [p \in Packs |-> [state |-> "none", left |-> 0]] \in [Packs -> GrantRows]
  BY <1>1
<1>3. NoDraft \in Drafts
  BY <1>2 DEF NoDraft, Drafts
<1>. QED BY <1>3 DEF NoDraft

\* A refund row with its new state.
NewRow(r, state, sent) == [refund[r] EXCEPT !.state = state, !.sent = sent]

\* Writing a row adds it to the draft and takes it off the list.
IsWritten(w, r, state, sent) ==
  LET x == NewRow(r, state, sent)
  IN  /\ w \in Drafts /\ w.open = draft.open
      /\ w.todo = draft.todo \ {r} /\ w.refunds = draft.refunds \cup {r} /\ w.packs = draft.packs
      /\ w.refund = [draft.refund EXCEPT ![r] = x] /\ w.grant = draft.grant
      /\ x \in RefundRows /\ x.state = state /\ x.sent = sent
      /\ x.pack = refund[r].pack /\ x.policy = refund[r].policy /\ x.units = refund[r].units

LEMMA WrittenDraft ==
  ASSUME TypeOK, NEW r \in Refunds, NEW state \in {"pending", "succeeded", "failed"}, NEW sent \in BOOLEAN
  PROVE  IsWritten(Written(r, state, sent), r, state, sent)
<1>. DEFINE x == NewRow(r, state, sent)
<1>1. draft \in Drafts /\ refund[r] \in RefundRows
  BY DEF TypeOK, Drafts
<1>2. /\ x \in RefundRows /\ x.state = state /\ x.sent = sent
      /\ x.pack = refund[r].pack /\ x.policy = refund[r].policy /\ x.units = refund[r].units
  BY <1>1 DEF RefundRows, NewRow
<1>3. Written(r, state, sent) = [draft EXCEPT !.todo = draft.todo \ {r}, !.refunds = draft.refunds \cup {r},
                                              !.refund = [draft.refund EXCEPT ![r] = x]]
  BY <1>1 DEF Written, Drafts, NewRow
<1>4. draft.todo \ {r} \in SUBSET Refunds /\ draft.refunds \cup {r} \in SUBSET Refunds
      /\ [draft.refund EXCEPT ![r] = x] \in [Refunds -> RefundRows]
  BY <1>1, <1>2 DEF Drafts
<1>. DEFINE w == Written(r, state, sent)
<1>5. /\ w \in Drafts /\ w.open = draft.open
      /\ w.todo = draft.todo \ {r} /\ w.refunds = draft.refunds \cup {r} /\ w.packs = draft.packs
      /\ w.refund = [draft.refund EXCEPT ![r] = x] /\ w.grant = draft.grant
  BY <1>1, <1>3, <1>4 DEF Drafts
<1>. QED BY <1>2, <1>5, Zenon DEF IsWritten

\* The whole of what Stripe keeps is at most the price.
LEMMA ExecutedMoney ==
  ASSUME TypeOK, NEW r \in Refunds, Accepts(r), NEW m \in Executed(r)
  PROVE  m \in MoneyRows /\ m # NoMoney
<1>. USE RefundAssumption
<1>1. CASE money[r] # NoMoney
  BY <1>1 DEF Executed, TypeOK, MoneyRows
<1>2. CASE money[r] = NoMoney
  <2>. DEFINE f(p) == [q \in Refunds |->
                         IF refund[q].pack = p /\ money[q].status # "failed" THEN money[q].amount ELSE 0]
  <2>1. ASSUME NEW p PROVE Kept(p) \in Int /\ Kept(p) <= Price
    <3>1. \A q \in 1 .. NumRefunds : f(p)[q] \in Nat
      BY DEF TypeOK, Refunds
    <3>. HIDE DEF f
    <3>2. Total(f(p), NumRefunds) \in Nat
      BY <3>1, TotalNat
    <3>3. Kept(p) = Price - Total(f(p), NumRefunds)
      BY DEF Kept, f
    <3>. QED BY <3>2, <3>3
  <2>2. AmountOf(r) \in 0 .. Price
    BY <1>2, <2>1 DEF Accepts
  <2>3. refund[r].policy \in {"none", "full", "partial"}
    BY DEF TypeOK, RefundRows
  <2>4. PICK status \in {"pending", "succeeded"} :
          m = [status |-> status, policy |-> refund[r].policy, amount |-> AmountOf(r)]
    BY <1>2 DEF Executed
  <2>. QED BY <2>2, <2>3, <2>4 DEF MoneyRows, NoMoney
<1>. QED BY <1>1, <1>2

\* The list of the sweep is of rows that are open and unsent.
LEMMA StartKeeps ==
  ASSUME RefundInv, StartSweep
  PROVE  RefundInv'
<1>1. UNCHANGED <<shop, grant, used, spentSince, refund, money, faults, doubtful>> /\ ~draft.open
  BY DEF StartSweep
<1>. DEFINE ids == {r \in Refunds : refund[r].state = "pending" /\ ~refund[r].sent}
<1>2. /\ draft' \in Drafts
      /\ draft'.todo = ids /\ draft'.refunds = {} /\ draft'.packs = {} /\ draft'.open
  <2>1. draft' = [NoDraft EXCEPT !.open = TRUE, !.todo = ids]
    BY DEF StartSweep
  <2>. QED BY <2>1, FreshDraft DEF Drafts
<1>3. TypeOK'
  BY <1>1, <1>2 DEF RefundInv, TypeOK, Drafts, shop
<1>4. draft.refunds = {} /\ draft.packs = {}
  BY <1>1 DEF RefundInv, Drafting
<1>5. ViewRefund' = ViewRefund /\ ViewGrant' = ViewGrant
  BY <1>1, <1>2, <1>4 DEF ViewRefund, ViewGrant, Seen, FreeRefund, FreePack
<1>6. Bought' /\ Drafting'
  BY <1>1, <1>2 DEF RefundInv, Bought, Drafting, shop
<1>7. Taken(refund, grant, used)' /\ Taken(ViewRefund, ViewGrant, used)'
  BY <1>1, <1>5 DEF RefundInv, Taken
<1>8. RefundsAreOnRecord' /\ OnRecord(ViewRefund)'
  BY <1>1, <1>2, <1>4, <1>5 DEF RefundInv, RefundsAreOnRecord, OnRecord
<1>. QED BY <1>3, <1>6, <1>7, <1>8 DEF RefundInv

\* What the sweep sees with one more row written.
LEMMA WrittenView ==
  ASSUME TypeOK, NEW r \in Refunds, NEW x, refund' = refund,
         draft'.refunds = draft.refunds \cup {r}, draft'.refund = [draft.refund EXCEPT ![r] = x]
  PROVE  ViewRefund' = [ViewRefund EXCEPT ![r] = x]
BY DEF TypeOK, ViewRefund, FreeRefund

\* What it sees of a pack it has revoked from.
LEMMA RevokedView ==
  ASSUME TypeOK, NEW p \in Packs, NEW g, grant' = grant,
         draft'.packs = draft.packs \cup {p}, draft'.grant = [draft.grant EXCEPT ![p] = g]
  PROVE  ViewGrant' = [ViewGrant EXCEPT ![p] = g]
<1>1. draft.grant \in [Packs -> GrantRows]
  BY DEF TypeOK
<1>2. \A o \in Packs : ViewGrant'[o] = IF o \in draft.packs \cup {p} THEN draft'.grant[o] ELSE grant[o]
  BY DEF ViewGrant, Seen, FreePack
<1>3. \A o \in Packs : ViewGrant[o] = IF o \in draft.packs THEN draft.grant[o] ELSE grant[o]
  BY DEF ViewGrant, Seen, FreePack
<1>4. \A o \in Packs : ViewGrant'[o] = [ViewGrant EXCEPT ![p] = g][o]
  <2>1. \A o \in Packs : draft'.grant[o] = IF o = p THEN g ELSE draft.grant[o]
    BY <1>1
  <2>. QED BY <1>2, <1>3, <2>1 DEF ViewGrant
<1>. QED BY <1>4 DEF ViewGrant

\* A row that takes no units: pending at Stripe, or failed as far as we know.
LEMMA WriteKeeps ==
  ASSUME RefundInv, draft.open, NEW r \in draft.todo,
         NEW state \in {"pending", "failed"}, NEW sent \in BOOLEAN, draft' = Written(r, state, sent),
         NEW m \in MoneyRows, money' = [money EXCEPT ![r] = m], faults' \in Nat,
         doubtful' = doubtful \/ doubtful' = doubtful \cup {r},
         r \notin doubtful' /\ m.status \in {"pending", "succeeded"} => sent /\ state = "pending",
         UNCHANGED <<shop, grant, used, spentSince, refund>>
  PROVE  RefundInv'
<1>. DEFINE x == NewRow(r, state, sent)
<1>1. r \in Refunds /\ refund[r].state = "pending" /\ ~refund[r].sent /\ r \notin draft.refunds
  BY DEF RefundInv, TypeOK, Drafting
<1>2. /\ draft' \in Drafts /\ draft'.open = draft.open
      /\ draft'.todo = draft.todo \ {r} /\ draft'.refunds = draft.refunds \cup {r} /\ draft'.packs = draft.packs
      /\ draft'.refund = [draft.refund EXCEPT ![r] = x] /\ draft'.grant = draft.grant
      /\ x \in RefundRows /\ x.state = state /\ x.sent = sent /\ x.pack = refund[r].pack
  <2>1. TypeOK /\ state \in {"pending", "succeeded", "failed"}
    BY DEF RefundInv
  <2>2. IsWritten(draft', r, state, sent)
    BY <1>1, <2>1, WrittenDraft, Zenon
  <2>. QED BY <2>2, Zenon DEF IsWritten
<1>. HIDE DEF x
<1>3. /\ money \in [Refunds -> MoneyRows] /\ money' \in [Refunds -> MoneyRows]
      /\ money'[r] = m /\ \A q \in Refunds : q # r => money'[q] = money[q]
  BY <1>1 DEF RefundInv, TypeOK, MoneyRows
<1>4. TypeOK'
  BY <1>1, <1>2, <1>3 DEF RefundInv, TypeOK, Drafts, MoneyRows, shop
<1>5. Bought'
  BY DEF RefundInv, Bought, shop
<1>6. Drafting'
  BY <1>1, <1>2 DEF RefundInv, TypeOK, Drafting
<1>7. ViewRefund' = [ViewRefund EXCEPT ![r] = x]
  BY <1>1, <1>2, WrittenView DEF RefundInv
<1>8. ViewGrant' = ViewGrant /\ ViewRefund[r] = refund[r] /\ ViewRefund \in [Refunds -> RefundRows]
  BY <1>1, <1>2, ViewTypes DEF RefundInv, ViewGrant, ViewRefund, Seen, FreePack, FreeRefund
<1>9. Taken(refund, grant, used)'
  BY DEF RefundInv, Taken
<1>10. Taken(ViewRefund, ViewGrant, used)'
  <2>1. Taken([ViewRefund EXCEPT ![r] = x], ViewGrant, used)
    BY <1>1, <1>2, <1>8, RowChanges DEF RefundInv
  <2>. QED BY <1>7, <1>8, <2>1 DEF Taken
<1>11. RefundsAreOnRecord'
  BY <1>1, <1>2, <1>3 DEF RefundInv, RefundsAreOnRecord
<1>12. OnRecord(ViewRefund)'
  BY <1>1, <1>2, <1>3, <1>7, <1>8 DEF RefundInv, OnRecord
<1>. QED BY <1>4, <1>5, <1>6, <1>9, <1>10, <1>11, <1>12 DEF RefundInv

\* A refund that succeeded at once takes its units in the draft.
LEMMA TakenInDraft ==
  ASSUME RefundInv, draft.open, NEW r \in draft.todo, NEW p \in Packs, p = refund[r].pack,
         grant[p].state # "none",
         NEW x \in RefundRows, x.state = "succeeded", x.sent,
         x.pack = p, x.policy = refund[r].policy, x.units = refund[r].units,
         NEW g \in GrantRows, g.state # "none",
         x.policy = "full" => g.state = "revoked",
         x.policy # "full" => g.state = ViewGrant[p].state /\ g.left = ViewGrant[p].left - x.units,
         draft' \in Drafts, draft'.open, draft'.todo = draft.todo \ {r},
         draft'.refunds = draft.refunds \cup {r}, draft'.packs = draft.packs \cup {p},
         draft'.refund = [draft.refund EXCEPT ![r] = x], draft'.grant = [draft.grant EXCEPT ![p] = g],
         NEW m \in MoneyRows, m.status = "succeeded", money' = [money EXCEPT ![r] = m],
         UNCHANGED <<shop, grant, used, spentSince, refund, faults, doubtful>>
  PROVE  RefundInv'
<1>1. r \in Refunds /\ refund[r].state = "pending" /\ ~refund[r].sent /\ r \notin draft.refunds
  BY DEF RefundInv, TypeOK, Drafting
<1>2. /\ money \in [Refunds -> MoneyRows] /\ money' \in [Refunds -> MoneyRows]
      /\ money'[r] = m /\ \A q \in Refunds : q # r => money'[q] = money[q]
  BY <1>1 DEF RefundInv, TypeOK, MoneyRows
<1>3. TypeOK'
  BY <1>2 DEF RefundInv, TypeOK, Drafts, MoneyRows, shop
<1>4. Bought'
  BY DEF RefundInv, Bought, shop
<1>5. Drafting'
  <2>1. /\ draft'.todo \cap draft'.refunds = {}
        /\ \A q \in draft'.todo \cup draft'.refunds : refund[q].state = "pending" /\ ~refund[q].sent
    BY <1>1 DEF RefundInv, Drafting
  <2>2. \A q \in draft'.refunds : draft'.refund[q].pack = refund[q].pack
    <3>1. draft.refund \in [Refunds -> RefundRows] /\ x.pack = refund[r].pack
      BY DEF RefundInv, TypeOK
    <3>. QED BY <1>1, <3>1 DEF RefundInv, Drafting
  <2>3. \A o \in draft'.packs : grant[o].state # "none" /\ draft'.grant[o].state # "none"
    <3>1. draft.grant \in [Packs -> GrantRows]
      BY DEF RefundInv, TypeOK
    <3>2. \A o \in draft.packs : o \in Packs /\ grant[o].state # "none" /\ draft.grant[o].state # "none"
      BY DEF RefundInv, TypeOK, Drafting
    <3>. QED BY <3>1, <3>2
  <2>4. draft'.open /\ refund' = refund /\ grant' = grant
    OBVIOUS
  <2>. QED BY <2>1, <2>2, <2>3, <2>4 DEF Drafting
<1>6. /\ ViewRefund' = [ViewRefund EXCEPT ![r] = x] /\ ViewGrant' = [ViewGrant EXCEPT ![p] = g]
       /\ ViewRefund[r] = refund[r]
  <2>1. ViewRefund' = [ViewRefund EXCEPT ![r] = x]
    BY <1>1, WrittenView DEF RefundInv
  <2>2. ViewGrant' = [ViewGrant EXCEPT ![p] = g]
    BY RevokedView DEF RefundInv
  <2>3. ViewRefund[r] = refund[r]
    BY <1>1 DEF ViewRefund, FreeRefund
  <2>. QED BY <2>1, <2>2, <2>3
<1>7. Taken(refund, grant, used)'
  BY DEF RefundInv, Taken
<1>8. Taken(ViewRefund, ViewGrant, used)'
  <2>1. /\ ViewRefund \in [Refunds -> RefundRows] /\ ViewGrant \in [Packs -> GrantRows] /\ used \in [Packs -> Nat]
        /\ Taken(ViewRefund, ViewGrant, used) /\ ViewRefund[r].state # "succeeded"
    BY <1>1, <1>6, ViewTypes, RefundAssumption DEF RefundInv, TypeOK
  <2>2. \/ x.policy = "full" /\ g.state = "revoked"
        \/ x.policy # "full" /\ g.state = ViewGrant[x.pack].state /\ g.left = ViewGrant[x.pack].left - x.units
    OBVIOUS
  <2>3. Taken([ViewRefund EXCEPT ![r] = x], [ViewGrant EXCEPT ![x.pack] = g], used)
    BY <1>1, <2>1, <2>2, RevocationTakes
  <2>4. /\ ViewRefund' = [ViewRefund EXCEPT ![r] = x] /\ used' = used
        /\ ViewGrant' = [ViewGrant EXCEPT ![x.pack] = g]
    BY <1>6
  <2>5. ASSUME NEW rows, NEW grants, Taken(rows, grants, used),
               rows = ViewRefund', grants = ViewGrant', used' = used
        PROVE  Taken(ViewRefund, ViewGrant, used)'
    BY ONLY <2>5 DEF Taken
  <2>. QED BY ONLY <2>3, <2>4, <2>5
<1>9. RefundsAreOnRecord'
  BY <1>1, <1>2 DEF RefundInv, RefundsAreOnRecord
<1>10. OnRecord(ViewRefund)'
  BY <1>1, <1>2, <1>6, ViewTypes DEF RefundInv, OnRecord
<1>. QED BY <1>3, <1>4, <1>5, <1>7, <1>8, <1>9, <1>10 DEF RefundInv

\* So the success of a refund keeps the invariant.
LEMMA SuccessKeeps ==
  ASSUME RefundInv, draft.open, NEW r \in draft.todo,
         Revocable(r, Seen(refund[r].pack)),
         draft' = [Written(r, "succeeded", TRUE) EXCEPT
                     !.packs = @ \cup {refund[r].pack},
                     !.grant[refund[r].pack] = Revoked(r, Seen(refund[r].pack))],
         NEW m \in MoneyRows, m.status = "succeeded", money' = [money EXCEPT ![r] = m],
         UNCHANGED <<shop, grant, used, spentSince, refund, faults, doubtful>>
  PROVE  RefundInv'
<1>. DEFINE p == refund[r].pack
            x == NewRow(r, "succeeded", TRUE)
            g == Revoked(r, Seen(p))
            w == Written(r, "succeeded", TRUE)
<1>1. r \in Refunds /\ refund[r].state = "pending" /\ ~refund[r].sent /\ r \notin draft.refunds
  BY DEF RefundInv, TypeOK, Drafting
<1>2. p \in Packs /\ grant[p].state # "none"
  BY <1>1 DEF RefundInv, Bought
<1>3. refund[r] \in RefundRows /\ Seen(p) \in GrantRows /\ Seen(p) = ViewGrant[p] /\ Seen(p).state # "none"
  BY <1>1, <1>2, ViewTypes DEF RefundInv, TypeOK, Drafting, Seen, FreePack
<1>4. /\ g \in GrantRows /\ g.state # "none"
      /\ refund[r].policy = "full" => g.state = "revoked"
      /\ refund[r].policy # "full" => g.state = ViewGrant[p].state /\ g.left = ViewGrant[p].left - refund[r].units
  BY <1>1, <1>3, RevokedGrant
<1>5. /\ w \in Drafts /\ w.open = draft.open
      /\ w.todo = draft.todo \ {r} /\ w.refunds = draft.refunds \cup {r} /\ w.packs = draft.packs
      /\ w.refund = [draft.refund EXCEPT ![r] = x] /\ w.grant = draft.grant
      /\ x \in RefundRows /\ x.state = "succeeded" /\ x.sent = TRUE
      /\ x.pack = p /\ x.policy = refund[r].policy /\ x.units = refund[r].units
  <2>1. IsWritten(w, r, "succeeded", TRUE)
    BY <1>1, WrittenDraft DEF RefundInv
  <2>. QED BY <2>1, Zenon DEF IsWritten
<1>. HIDE DEF x, g, w, p
<1>6. draft' = [w EXCEPT !.packs = draft.packs \cup {p}, !.grant = [draft.grant EXCEPT ![p] = g]]
  BY <1>5 DEF p, g, w, Drafts
<1>7. /\ draft' \in Drafts /\ draft'.open = draft.open
      /\ draft'.todo = draft.todo \ {r} /\ draft'.refunds = draft.refunds \cup {r}
      /\ draft'.packs = draft.packs \cup {p}
      /\ draft'.refund = [draft.refund EXCEPT ![r] = x] /\ draft'.grant = [draft.grant EXCEPT ![p] = g]
  <2>1. draft.packs \cup {p} \in SUBSET Packs /\ [draft.grant EXCEPT ![p] = g] \in [Packs -> GrantRows]
    BY <1>2, <1>4 DEF RefundInv, TypeOK
  <2>. QED BY <1>5, <1>6, <2>1 DEF Drafts
<1>8. p = refund[r].pack /\ x.sent /\ draft'.open
  BY <1>5, <1>7 DEF p
<1>9. /\ x.policy = "full" => g.state = "revoked"
      /\ x.policy # "full" => g.state = ViewGrant[p].state /\ g.left = ViewGrant[p].left - x.units
  BY <1>4, <1>5, Zenon
<1>. QED BY <1>1, <1>2, <1>4, <1>5, <1>7, <1>8, <1>9, TakenInDraft, ZenonT(60)

\* A rollback leaves the tables, and doubt about all that Stripe was asked for.
LEMMA RollbackKeeps ==
  ASSUME RefundInv, NEW done, draft.refunds \subseteq done, done \subseteq draft.refunds \cup draft.todo,
         RolledBack(done), UNCHANGED <<shop, grant, used, spentSince, refund>>, faults' \in Nat,
         money' \in [Refunds -> MoneyRows], \A q \in Refunds \ done : money'[q] = money[q]
  PROVE  RefundInv'
<1>1. draft' = NoDraft /\ doubtful' = doubtful \cup {q \in done : money'[q] # NoMoney}
  BY DEF RolledBack
<1>2. done \subseteq Refunds /\ \A q \in done : refund[q].state = "pending"
  BY DEF RefundInv, TypeOK, Drafting
<1>3. TypeOK'
  BY <1>1, <1>2, FreshDraft DEF RefundInv, TypeOK, Drafts, MoneyRows, shop
<1>4. Bought' /\ Drafting'
  BY <1>1, FreshDraft DEF RefundInv, Bought, Drafting, shop
<1>5. ViewRefund' = refund' /\ ViewGrant' = grant'
  BY <1>1, <1>3, FreshDraft DEF TypeOK, ViewRefund, ViewGrant, Seen, FreeRefund, FreePack
<1>6. Taken(refund, grant, used)'
  BY DEF RefundInv, Taken
<1>7. Taken(ViewRefund, ViewGrant, used)'
  BY <1>5, <1>6 DEF Taken
<1>8. ASSUME NEW q \in Refunds, q \notin doubtful'
      PROVE  /\ money'[q].status \in {"pending", "succeeded"} =>
                  refund[q].sent /\ refund[q].state \in {"pending", "succeeded"}
             /\ refund[q].state = "succeeded" => money'[q].status = "succeeded"
  <2>1. CASE q \in done
    <3>1. money'[q] = NoMoney /\ refund[q].state = "pending"
      BY <1>1, <1>2, <1>8, <2>1
    <3>. QED BY <3>1 DEF NoMoney
  <2>2. CASE q \notin done
    BY <1>1, <1>8, <2>2 DEF RefundInv, RefundsAreOnRecord
  <2>. QED BY <2>1, <2>2
<1>9. RefundsAreOnRecord' /\ OnRecord(ViewRefund)'
  BY <1>5, <1>8 DEF RefundsAreOnRecord, OnRecord
<1>. QED BY <1>3, <1>4, <1>6, <1>7, <1>9 DEF RefundInv

\* One refund after the other.
LEMMA ProcessKeeps ==
  ASSUME RefundInv, NEW r \in Refunds, ProcessRefund(r)
  PROVE  RefundInv'
<1>1. draft.open /\ r \in draft.todo /\ UNCHANGED <<shop, grant, used, spentSince, refund>>
  BY DEF ProcessRefund
<1>2. refund[r].state = "pending" /\ ~refund[r].sent /\ r \notin draft.refunds
  BY <1>1 DEF RefundInv, Drafting
<1>3. money \in [Refunds -> MoneyRows] /\ faults \in Nat /\ TypeOK
  BY DEF RefundInv, TypeOK, MoneyRows
<1>4. CASE Refused(r)
  <2>1. draft' = Written(r, "failed", FALSE) /\ money' = money /\ faults' = faults /\ doubtful' = doubtful
    BY <1>4 DEF Refused
  <2>2. money' = [money EXCEPT ![r] = money[r]] /\ money[r] \in MoneyRows
    BY <1>3, <2>1
  <2>3. ~(r \notin doubtful /\ money[r].status \in {"pending", "succeeded"})
    BY <1>2 DEF RefundInv, RefundsAreOnRecord
  <2>. QED BY <1>1, <1>3, <2>1, <2>2, <2>3, WriteKeeps
<1>5. ASSUME NEW m \in Executed(r), AnswerLost(r, m) PROVE RefundInv'
  <2>1. m \in MoneyRows
    BY <1>3, <1>5, ExecutedMoney DEF AnswerLost
  <2>2. /\ draft' = Written(r, "failed", FALSE) /\ money' = [money EXCEPT ![r] = m]
        /\ faults' \in Nat /\ doubtful' = doubtful \cup {r}
    BY <1>3, <1>5 DEF AnswerLost
  <2>. QED BY <1>1, <2>1, <2>2, WriteKeeps
<1>6. ASSUME NEW m \in Executed(r), Send(r, m) PROVE RefundInv'
  <2>1. m \in MoneyRows /\ money' = [money EXCEPT ![r] = m] /\ faults' = faults
    BY <1>3, <1>6, ExecutedMoney DEF Send
  <2>2. CASE m.status # "succeeded"
    <3>1. draft' = Written(r, "pending", TRUE) /\ doubtful' = doubtful
      BY <1>6, <2>2 DEF Send
    <3>. QED BY <1>1, <1>3, <2>1, <3>1, WriteKeeps
  <2>3. CASE m.status = "succeeded" /\ Revocable(r, Seen(refund[r].pack))
    <3>1. /\ draft' = [Written(r, "succeeded", TRUE) EXCEPT
                         !.packs = @ \cup {refund[r].pack},
                         !.grant[refund[r].pack] = Revoked(r, Seen(refund[r].pack))]
          /\ doubtful' = doubtful
      BY <1>6, <2>3 DEF Send
    <3>. QED BY <1>1, <2>1, <2>3, <3>1, SuccessKeeps
  <2>4. CASE m.status = "succeeded" /\ ~Revocable(r, Seen(refund[r].pack))
    <3>1. RolledBack(draft.refunds \cup {r})
      BY <1>6, <2>4 DEF Send
    <3>2. /\ money' \in [Refunds -> MoneyRows]
          /\ \A q \in Refunds \ (draft.refunds \cup {r}) : money'[q] = money[q]
      BY <1>3, <2>1
    <3>3. faults' \in Nat
      BY <1>3, <2>1
    <3>. HIDE DEF MoneyRows
    <3>. QED BY <1>1, <3>1, <3>2, <3>3, RollbackKeeps
  <2>. QED BY <2>2, <2>3, <2>4
<1>. QED BY <1>4, <1>5, <1>6 DEF ProcessRefund

\* The process dies.
LEMMA DieKeeps == RefundInv /\ Die => RefundInv'
<1>. SUFFICES ASSUME RefundInv, Die PROVE RefundInv'
  OBVIOUS
<1>1. /\ RolledBack(draft.refunds) /\ UNCHANGED <<shop, grant, used, spentSince, refund>> /\ faults' \in Nat
      /\ money' = money /\ money \in [Refunds -> MoneyRows]
  BY DEF Die, RefundInv, TypeOK, MoneyRows
<1>. QED BY <1>1, RollbackKeeps

\* After the commit the tables are what the sweep saw.
LEMMA CommitKeeps == RefundInv /\ Commit => RefundInv'
<1>. SUFFICES ASSUME RefundInv, Commit PROVE RefundInv'
  OBVIOUS
<1>1. /\ refund' = ViewRefund /\ grant' = ViewGrant /\ draft' = NoDraft
      /\ UNCHANGED <<shop, used, spentSince, money, faults, doubtful>>
  BY DEF Commit, ViewRefund, ViewGrant
<1>2. TypeOK'
  BY <1>1, ViewTypes, FreshDraft DEF RefundInv, TypeOK, Drafts, shop
<1>3. ViewRefund' = refund' /\ ViewGrant' = grant'
  BY <1>1, <1>2, FreshDraft DEF TypeOK, ViewRefund, ViewGrant, Seen, FreeRefund, FreePack
<1>4. \A p \in Packs : ViewGrant[p].state = "none" <=> grant[p].state = "none"
  BY DEF RefundInv, Drafting, ViewGrant, Seen, FreePack
<1>5. \A r \in Refunds : /\ ViewRefund[r].pack = refund[r].pack
                         /\ refund[r].state = "none" => ViewRefund[r].state = "none"
  BY DEF RefundInv, Drafting, ViewRefund, FreeRefund
<1>6. \A r \in Refunds : refund[r].state = "none" => r \notin draft.refunds
  BY DEF RefundInv, Drafting
<1>7. Bought'
  BY <1>1, <1>4, <1>5, <1>6 DEF RefundInv, Bought, shop, ViewRefund, FreeRefund
<1>8. Drafting'
  BY <1>1, FreshDraft DEF Drafting
<1>9. Taken(refund, grant, used)' /\ Taken(ViewRefund, ViewGrant, used)'
  BY <1>1, <1>3 DEF RefundInv, Taken
<1>10. RefundsAreOnRecord' /\ OnRecord(ViewRefund)'
  BY <1>1, <1>3 DEF RefundInv, OnRecord, RefundsAreOnRecord
<1>. QED BY <1>2, <1>7, <1>8, <1>9, <1>10 DEF RefundInv

\* RefundInv is inductive.
LEMMA NextRefunds == RefundInv /\ [Next]_vars => RefundInv'
<1>1. RefundInv /\ UNCHANGED vars => RefundInv'
  <2>. SUFFICES ASSUME RefundInv, UNCHANGED vars PROVE RefundInv'
    OBVIOUS
  <2>1. ViewRefund' = ViewRefund /\ ViewGrant' = ViewGrant
    BY ViewFollows DEF RefundInv, vars
  <2>. QED BY <2>1 DEF RefundInv, TypeOK, Bought, Drafting, Taken, RefundsAreOnRecord, OnRecord, vars, shop
<1>2. RefundInv /\ Next => RefundInv'
  BY ShopKeeps, CheckoutEventKeeps, UseKeeps, RequestKeeps, DecideKeeps, ProcessKeeps, RefundEventKeeps,
     ResolveKeeps, StartKeeps, CommitKeeps, DieKeeps, RefundAssumption DEF Next
<1>. QED BY <1>1, <1>2

-----------------------------------------------------------------------------
(* What a refund in full is of *)

\* A pack that a refund is of, and that nobody has drawn on since, is unused.
UnspentIsUnused ==
  \A r \in Refunds : refund[r].pack \in Packs /\ r \notin spentSince => used[refund[r].pack] = 0

\* A request is for a pack with nothing missing, so with nothing used: balances are
\* what was neither used nor refunded.
LEMMA RequestedIsUnused ==
  ASSUME RefundInv, NEW r \in Refunds, NEW p \in Packs, Request(r, p)
  PROVE  used[p] = 0
<1>1. grant[p].state = "active" /\ grant[p].left = Units /\ used[p] \in Nat /\ Units \in Nat
  BY RefundAssumption DEF Request, RefundInv, TypeOK
<1>2. grant[p].left + used[p] + Total(Parts(refund, p), NumRefunds) = Units
  BY <1>1 DEF RefundInv, Taken
<1>3. Total(Parts(refund, p), NumRefunds) \in Nat
  <2>1. \A i \in 1 .. NumRefunds : Parts(refund, p)[i] \in Nat
    BY RefundAssumption DEF RefundInv, TypeOK, RefundRows, Parts, Part, Refunds
  <2>. QED BY <2>1, TotalNat, RefundAssumption
<1>. QED BY <1>1, <1>2, <1>3

LEMMA UnspentKeeps == RefundInv /\ UnspentIsUnused /\ [Next]_vars => UnspentIsUnused'
<1>. SUFFICES ASSUME RefundInv, UnspentIsUnused, [Next]_vars PROVE UnspentIsUnused'
  OBVIOUS
<1>1. refund \in [Refunds -> RefundRows] /\ used \in [Packs -> 0 .. Units] /\ Units \in Nat
  BY RefundAssumption DEF RefundInv, TypeOK
<1>2. CASE /\ \A q \in Refunds : refund'[q].pack = refund[q].pack
           /\ UNCHANGED <<used, spentSince>>
  BY <1>2 DEF UnspentIsUnused
<1>3. ASSUME NEW r \in Refunds, NEW p \in Packs, Request(r, p) PROVE UnspentIsUnused'
  <2>1. /\ \A q \in Refunds : refund'[q].pack = IF q = r THEN p ELSE refund[q].pack
        /\ UNCHANGED <<used, spentSince>>
    BY <1>1, <1>3 DEF Request
  <2>. QED BY <1>3, <2>1, RequestedIsUnused DEF UnspentIsUnused
<1>4. ASSUME NEW p \in Packs, Spend(p) PROVE UnspentIsUnused'
  <2>1. /\ used' = [used EXCEPT ![p] = @ + 1] /\ refund' = refund
        /\ spentSince' = spentSince \cup {q \in Refunds : refund[q].pack = p}
    BY <1>4 DEF Spend
  <2>. QED BY <1>1, <2>1 DEF UnspentIsUnused
<1>5. ASSUME NEW p \in Packs, GiveBack(p) PROVE UnspentIsUnused'
  <2>1. used' = [used EXCEPT ![p] = @ - 1] /\ used[p] > 0 /\ UNCHANGED <<refund, spentSince>>
    BY <1>5 DEF GiveBack
  <2>. QED BY <1>1, <2>1 DEF UnspentIsUnused
<1>6. ASSUME Commit PROVE UnspentIsUnused'
  <2>1. \A q \in Refunds : refund'[q].pack = refund[q].pack
    BY <1>6 DEF Commit, FreeRefund, RefundInv, Drafting
  <2>. QED BY <1>2, <1>6, <2>1 DEF Commit
<1>7. ASSUME NEW r \in Refunds, NEW policy, NEW units, Decide(r, policy, units) PROVE UnspentIsUnused'
  BY <1>1, <1>2, <1>7 DEF Decide, RefundRows
<1>8. ASSUME NEW r \in Refunds, RefundEvent(r) PROVE UnspentIsUnused'
  BY <1>1, <1>2, <1>8 DEF RefundEvent, RefundRows
<1>9. ASSUME UNCHANGED <<refund, used, spentSince>> PROVE UnspentIsUnused'
  BY <1>2, <1>9
<1>10. ASSUME NEW p \in Packs, Checkout(p) \/ CheckoutEvent(p) \/ Expire(p)
                \/ \E status \in {"complete", "expired"} : SessionEnds(p, status)
       PROVE  UnspentIsUnused'
  BY <1>9, <1>10 DEF Checkout, CheckoutEvent, Expire, SessionEnds
<1>11. ASSUME NEW r \in Refunds, ProcessRefund(r) \/ \E status \in {"succeeded", "failed"} : Resolve(r, status)
       PROVE  UnspentIsUnused'
  BY <1>9, <1>11 DEF ProcessRefund, Resolve
<1>12. ASSUME StartSweep \/ Die \/ UNCHANGED vars PROVE UnspentIsUnused'
  BY <1>9, <1>12 DEF StartSweep, Die, vars
<1>. QED BY <1>3, <1>4, <1>5, <1>6, <1>7, <1>8, <1>10, <1>11, <1>12 DEF Next

-----------------------------------------------------------------------------
(* Theorems *)

\* Balances stay within a pack, and Stripe is never asked for more than a price.
THEOREM TypeCorrect == Spec => []TypeOK
<1>1. RefundInv => TypeOK
  BY DEF RefundInv
<1>. QED BY <1>1, InitRefunds, NextRefunds, PTL DEF Spec

\* Whatever customers, operators, sweeps and events do: a refund in full ends the
\* pack, and is of an unused one unless the pack was drawn on since the request; a
\* usable pack has left what was neither used nor refunded.
THEOREM UnitsAreTaken == Spec => []RefundsTakeTheirUnits
<1>1. RefundInv /\ UnspentIsUnused => RefundsTakeTheirUnits
  <2>. SUFFICES ASSUME RefundInv, UnspentIsUnused PROVE RefundsTakeTheirUnits
    OBVIOUS
  <2>1. \A p : RevokedUnits(p) = Total(Parts(refund, p), NumRefunds)
    BY DEF RevokedUnits, Parts, Part
  <2>2. \A r \in Refunds : PaidInFull(r) => refund[r].pack \in Packs
    BY DEF RefundInv, Bought, PaidInFull
  <2>. QED BY <2>1, <2>2 DEF RefundInv, Taken, RefundsTakeTheirUnits, PaidInFull, UnspentIsUnused
<1>2. Init => UnspentIsUnused
  BY DEF Init, UnspentIsUnused
<1>. QED BY <1>1, <1>2, InitRefunds, NextRefunds, UnspentKeeps, PTL DEF Spec

\* The books and Stripe agree, but for answers that were lost or rolled back.
THEOREM BooksAgree == Spec => []RefundsAreOnRecord
<1>1. RefundInv => RefundsAreOnRecord
  BY DEF RefundInv
<1>. QED BY <1>1, InitRefunds, NextRefunds, PTL DEF Spec
=============================================================================
