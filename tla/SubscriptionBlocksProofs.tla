---------------------- MODULE SubscriptionBlocksProofs ----------------------
(***************************************************************************)
(* For any number of grants, handlers and deliveries: dunning never leaves *)
(* a bought pack frozen without an open dispute, and, as long as the       *)
(* transactions do not overlap, recovery leaves nothing of the             *)
(* subscription frozen, and the newest status wins.  The former rests on   *)
(* the idempotency keys: a grant that was thawed is never frozen again     *)
(* (FreezesOnce), the very reason the second dunning cycle does nothing.   *)
(* The latter rests on what Stripe does: one change of the subscription    *)
(* per timestamp, and none after the end (StatusesInOrder).                *)
(***************************************************************************)
EXTENDS SubscriptionBlocks, TLAPS

Words == {"none", "active", "past_due", "canceled", "won", "lost"}
Events == [type : {"failed", "status", "opened", "closed"}, at : Nat, what : Words,
           grant : Packs \cup {NoGrant}]
Rows == [status : Words, synced : Int, graceEnds : Int, blocked : BOOLEAN]

BlockTypes ==
  /\ now \in Nat
  /\ sent \subseteq Events
  /\ \A e \in sent : e.type \in {"opened", "closed"} => e.grant \in Packs
  /\ sub \in Rows
  /\ DOMAIN grantState = Grants
  /\ DOMAIN dispute = Packs
  /\ DOMAIN busy = Handlers
  /\ \A h \in Handlers : busy[h] # Idle => busy[h].event \in sent

PackInv == BlockTypes /\ FrozenPackIsDisputed

-----------------------------------------------------------------------------
(* Types and packs *)

LEMMA InitPacks == Init => PackInv
<1>. SUFFICES ASSUME Init PROVE PackInv
  OBVIOUS
<1>1. BlockTypes
  <2>1. sub \in Rows
    BY DEF Init, Rows, Words, Never
  <2>2. \A h \in Handlers : busy[h] = Idle
    BY DEF Init
  <2>. QED BY <2>1, <2>2 DEF Init, BlockTypes
<1>2. FrozenPackIsDisputed
  BY DEF Init, FrozenPackIsDisputed, Grants
<1>. QED BY <1>1, <1>2 DEF PackInv

\* What Stripe does changes no table.
ProviderMoves ==
  \/ RenewalFails \/ PaymentRecovers \/ SubscriptionEnds
  \/ \E g \in Packs : DisputeStarts(g) \/ \E outcome \in {"won", "lost"} : DisputeEnds(g, outcome)
  \/ Tick

LEMMA SendTypes ==
  ASSUME BlockTypes, NEW events, NEW status, Send(events, status),
         \A e \in events : /\ e \in Events
                           /\ e.type \in {"opened", "closed"} => e.grant \in Packs
  PROVE  BlockTypes' /\ sent \subseteq sent' /\ UNCHANGED <<tables, busy, sweeping, handled>>
BY DEF Send, BlockTypes, tables

LEMMA ProviderTypes ==
  ASSUME BlockTypes, ProviderMoves
  PROVE  BlockTypes' /\ sent \subseteq sent' /\ UNCHANGED <<tables, busy, sweeping, handled>>
<1>1. CASE Tick
  BY <1>1 DEF Tick, BlockTypes, tables
<1>2. \A type \in {"failed", "status"}, what \in Words :
        Event(type, now, what, NoGrant) \in Events /\ Event(type, now, what, NoGrant).type = type
  BY DEF Event, Events, BlockTypes
<1>3. \A type \in {"opened", "closed"}, what \in Words, g \in Packs :
        Event(type, now, what, g) \in Events /\ Event(type, now, what, g).grant \in Packs
  BY DEF Event, Events, BlockTypes
<1>4. CASE RenewalFails
  <2>1. Send({Event("failed", now, "none", NoGrant), Event("status", now, "past_due", NoGrant)}, "past_due")
    BY <1>4 DEF RenewalFails
  <2>. QED BY <1>2, <2>1, SendTypes DEF Words
<1>5. CASE PaymentRecovers
  <2>1. Send({Event("status", now, "active", NoGrant)}, "active")
    BY <1>5 DEF PaymentRecovers
  <2>. QED BY <1>2, <2>1, SendTypes DEF Words
<1>6. CASE SubscriptionEnds
  <2>1. Send({Event("status", now, "canceled", NoGrant)}, "canceled")
    BY <1>6 DEF SubscriptionEnds
  <2>. QED BY <1>2, <2>1, SendTypes DEF Words
<1>7. ASSUME NEW g \in Packs, DisputeStarts(g)
      PROVE  BlockTypes' /\ sent \subseteq sent' /\ UNCHANGED <<tables, busy, sweeping, handled>>
  <2>1. Send({Event("opened", now, "none", g)}, truth)
    BY <1>7 DEF DisputeStarts
  <2>. QED BY <1>3, <2>1, SendTypes DEF Words
<1>8. ASSUME NEW g \in Packs, NEW outcome \in {"won", "lost"}, DisputeEnds(g, outcome)
      PROVE  BlockTypes' /\ sent \subseteq sent' /\ UNCHANGED <<tables, busy, sweeping, handled>>
  <2>1. Send({Event("closed", now, outcome, g)}, truth) /\ outcome \in Words
    BY <1>8 DEF DisputeEnds, Words
  <2>. QED BY <1>3, <2>1, SendTypes
<1>. QED BY <1>1, <1>4, <1>5, <1>6, <1>7, <1>8 DEF ProviderMoves

\* A handler works on an event that was sent.
LEMMA FinishEvent ==
  ASSUME BlockTypes, NEW h \in Handlers, Finish(h)
  PROVE  /\ busy[h] # Idle
         /\ busy[h].event \in sent
         /\ busy[h].event.at \in Nat /\ busy[h].event.what \in Words
         /\ busy[h].event.type \in {"opened", "closed"} => busy[h].event.grant \in Packs
<1>1. busy[h] # Idle
  BY DEF Finish, Idle, NoEvent, Event
<1>. QED BY <1>1 DEF BlockTypes, Events

LEMMA FinishTypes ==
  ASSUME BlockTypes, NEW h \in Handlers, Finish(h)
  PROVE  BlockTypes'
<1>. DEFINE e == busy[h].event
<1>1. e \in sent /\ e.at \in Nat /\ e.what \in Words
  BY FinishEvent
<1>2. sub' \in Rows
  <2>1. CASE PaymentFailed(e)
    BY <1>1, <2>1, BlocksAssumption DEF PaymentFailed, BlockTypes, Rows
  <2>2. CASE StatusChanged(e, busy[h].seen)
    <3>1. CASE sub' = sub
      BY <3>1 DEF BlockTypes
    <3>2. CASE sub' = [sub EXCEPT !.status = e.what, !.synced = e.at]
      <4>. HIDE DEF e
      <4>1. sub \in Rows
        BY DEF BlockTypes
      <4>2. sub' = [status |-> e.what, synced |-> e.at, graceEnds |-> sub.graceEnds, blocked |-> sub.blocked]
        BY <3>2, <4>1 DEF Rows
      <4>. QED BY <1>1, <4>1, <4>2 DEF Rows
    <3>3. CASE sub' = [status |-> e.what, synced |-> e.at, graceEnds |-> Never, blocked |-> FALSE]
      <4>. HIDE DEF e
      <4>. QED BY <1>1, <3>3 DEF Rows, Never
    <3>. QED BY <2>2, <3>1, <3>2, <3>3 DEF StatusChanged
  <2>3. CASE DisputeOpened(e) \/ DisputeClosed(e)
    BY <2>3 DEF DisputeOpened, DisputeClosed, BlockTypes
  <2>. QED BY <2>1, <2>2, <2>3 DEF Finish
<1>3. DOMAIN grantState' = Grants /\ DOMAIN dispute' = Packs
  BY DEF Finish, PaymentFailed, StatusChanged, Recover, DisputeOpened, DisputeClosed, BlockTypes
<1>4. DOMAIN busy' = Handlers /\ \A k \in Handlers : busy'[k] # Idle => busy'[k].event \in sent
  BY DEF Finish, BlockTypes
<1>. QED BY <1>2, <1>3, <1>4 DEF Finish, provider, BlockTypes

LEMMA NextTypes == BlockTypes /\ [Next]_vars => BlockTypes'
<1>1. ASSUME BlockTypes, ProviderMoves PROVE BlockTypes'
  BY <1>1, ProviderTypes
<1>2. ASSUME BlockTypes, NEW h \in Handlers, Finish(h) PROVE BlockTypes'
  BY <1>2, FinishTypes
<1>3. ASSUME BlockTypes, NEW h \in Handlers, NEW e \in sent, Receive(h, e) PROVE BlockTypes'
  BY <1>3 DEF Receive, BlockTypes, provider, tables
<1>4. ASSUME BlockTypes, SweepReads \/ UNCHANGED vars PROVE BlockTypes'
  BY <1>4 DEF SweepReads, BlockTypes, provider, tables, vars
<1>5. ASSUME BlockTypes, SweepWrites PROVE BlockTypes'
  BY <1>5 DEF SweepWrites, FreezeIncluded, BlockTypes, provider, Rows
<1>6. ASSUME BlockTypes, NEW g \in Grants, ExpireGrant(g) PROVE BlockTypes'
  BY <1>6 DEF ExpireGrant, BlockTypes, provider
<1>. QED BY <1>1, <1>2, <1>3, <1>4, <1>5, <1>6 DEF Next, ProviderMoves

LEMMA NextPacks == PackInv /\ [Next]_vars => PackInv'
<1>. SUFFICES ASSUME PackInv, [Next]_vars PROVE FrozenPackIsDisputed'
  BY NextTypes DEF PackInv
<1>. USE DEF PackInv
<1>1. CASE UNCHANGED <<grantState, dispute>>
  BY <1>1 DEF FrozenPackIsDisputed
<1>2. ASSUME NEW h \in Handlers, Finish(h) PROVE FrozenPackIsDisputed'
  <2>. DEFINE e == busy[h].event
  <2>1. CASE PaymentFailed(e)
    BY <1>1, <2>1 DEF PaymentFailed
  <2>2. CASE StatusChanged(e, busy[h].seen)
    BY <2>2 DEF StatusChanged, Recover, FrozenPackIsDisputed, Grants
  <2>3. CASE e.type = "opened" /\ DisputeOpened(e)
    <3>1. e.grant \in Packs
      BY <1>2, <2>3, FinishEvent
    <3>. QED BY <2>3, <3>1 DEF DisputeOpened, FrozenPackIsDisputed, BlockTypes, Grants
  <2>4. CASE e.type = "closed" /\ DisputeClosed(e)
    <3>1. e.grant \in Packs
      BY <1>2, <2>4, FinishEvent
    <3>. QED BY <2>4, <3>1 DEF DisputeClosed, FrozenPackIsDisputed, BlockTypes, Grants
  <2>. QED BY <1>2, <2>1, <2>2, <2>3, <2>4 DEF Finish
<1>3. CASE SweepWrites
  BY <1>3, BlocksAssumption DEF SweepWrites, FreezeIncluded, FrozenPackIsDisputed, Grants
<1>4. ASSUME NEW g \in Grants, ExpireGrant(g) PROVE FrozenPackIsDisputed'
  BY <1>4 DEF ExpireGrant, FrozenPackIsDisputed, BlockTypes
<1>5. ProviderMoves \/ SweepReads \/ UNCHANGED vars \/ (\E h \in Handlers, e \in sent : Receive(h, e))
        => UNCHANGED <<grantState, dispute>>
  BY ProviderTypes DEF SweepReads, Receive, vars, tables
<1>. QED BY <1>1, <1>2, <1>3, <1>4, <1>5 DEF Next, ProviderMoves

\* Whatever overlaps, a pack is frozen only while its dispute is open.
THEOREM PacksAreNotDunned == Spec => []FrozenPackIsDisputed
<1>1. PackInv => FrozenPackIsDisputed
  BY DEF PackInv
<1>. QED BY <1>1, InitPacks, NextPacks, PTL DEF Spec

-----------------------------------------------------------------------------
(* One transaction at a time *)

OneAtATime ==
  /\ sweeping \in BOOLEAN
  /\ \A h \in Handlers : busy[h] # Idle =>
       /\ busy[h].seen = sub
       /\ ~sweeping
       /\ \A k \in Handlers \ {h} : busy[k] = Idle

Thawed(g) == <<"unfreeze", g>> \in keys \/ <<"expire", g>> \in keys

\* A grant is frozen under its one key and, once thawed, never again.
FreezesOnce ==
  \A g \in Included :
    /\ grantState[g] = "frozen" => <<"freeze", g>> \in keys /\ ~Thawed(g)
    /\ Thawed(g) => <<"freeze", g>> \in keys

SerialInv == BlockTypes /\ OneAtATime /\ FreezesOnce /\ FrozenIncludedIsBlocked

LEMMA InitSerial == Init => SerialInv
<1>. SUFFICES ASSUME Init PROVE SerialInv
  OBVIOUS
<1>1. BlockTypes
  BY InitPacks DEF PackInv
<1>2. OneAtATime
  BY DEF Init, OneAtATime
<1>3. FreezesOnce /\ FrozenIncludedIsBlocked
  BY DEF Init, FreezesOnce, Thawed, FrozenIncludedIsBlocked, Grants
<1>. QED BY <1>1, <1>2, <1>3 DEF SerialInv

LEMMA NextOneAtATime == ~Overlap /\ SerialInv /\ [Next]_vars => OneAtATime'
<1>. SUFFICES ASSUME ~Overlap, SerialInv, [Next]_vars PROVE OneAtATime'
  OBVIOUS
<1>. USE DEF SerialInv
<1>1. CASE UNCHANGED <<sub, busy, sweeping>>
  BY <1>1 DEF OneAtATime
<1>2. ASSUME NEW h \in Handlers, NEW e \in sent, Receive(h, e) PROVE OneAtATime'
  BY <1>2 DEF Receive, NothingRuns, OneAtATime, BlockTypes, tables
<1>3. ASSUME NEW h \in Handlers, Finish(h) PROVE OneAtATime'
  <2>1. \A k \in Handlers : busy'[k] = Idle
    BY <1>3, FinishEvent DEF Finish, OneAtATime, BlockTypes
  <2>. QED BY <1>3, <2>1 DEF Finish, OneAtATime
<1>4. CASE SweepReads
  BY <1>4 DEF SweepReads, NothingRuns, OneAtATime, tables
<1>5. CASE SweepWrites
  BY <1>5 DEF SweepWrites, OneAtATime
<1>6. ASSUME NEW g \in Grants, ExpireGrant(g) PROVE UNCHANGED <<sub, busy, sweeping>>
  BY <1>6 DEF ExpireGrant
<1>7. ProviderMoves \/ UNCHANGED vars => UNCHANGED <<sub, busy, sweeping>>
  BY ProviderTypes DEF vars, tables
<1>. QED BY <1>1, <1>2, <1>3, <1>4, <1>5, <1>6, <1>7 DEF Next, ProviderMoves

\* Recovery finds the key of every grant it may thaw unused.
LEMMA RecoverThaws ==
  ASSUME BlockTypes, FreezesOnce, NEW at, Recover(at), NEW g \in Included
  PROVE  /\ grantState'[g] # "frozen"
         /\ Thawed(g)' => <<"freeze", g>> \in keys'
<1>. DEFINE kind(h) == IF Expiry[h] <= at THEN "expire" ELSE "unfreeze"
<1>1. g \in Grants
  BY DEF Grants
<1>2. CASE grantState[g] = "frozen"
  <2>1. g \in Frozen /\ <<kind(g), g>> \notin keys
    BY <1>1, <1>2 DEF FreezesOnce, Thawed, Frozen
  <2>2. grantState'[g] \in {"expired", "active"}
    BY <1>1, <2>1 DEF Recover
  <2>3. <<"freeze", g>> \in keys'
    BY <1>2 DEF FreezesOnce, Recover
  <2>. QED BY <2>2, <2>3
<1>3. CASE grantState[g] # "frozen"
  <2>1. g \notin Frozen
    BY <1>3 DEF Frozen
  <2>2. grantState'[g] = grantState[g]
    BY <1>1, <2>1 DEF Recover
  <2>3. Thawed(g)' => Thawed(g)
    BY <2>1 DEF Recover, Thawed
  <2>4. keys \subseteq keys'
    BY DEF Recover
  <2>. QED BY <1>3, <2>2, <2>3, <2>4 DEF FreezesOnce
<1>. QED BY <1>2, <1>3

LEMMA FinishThaws ==
  ASSUME SerialInv, NEW h \in Handlers, Finish(h)
  PROVE  FreezesOnce' /\ FrozenIncludedIsBlocked'
<1>. DEFINE e == busy[h].event
<1>. USE DEF SerialInv
<1>1. CASE PaymentFailed(e)
  <2>1. sub'.blocked = sub.blocked
    BY <1>1 DEF PaymentFailed, BlockTypes, Rows
  <2>. QED BY <1>1, <2>1 DEF PaymentFailed, FreezesOnce, Thawed, FrozenIncludedIsBlocked
<1>2. CASE StatusChanged(e, busy[h].seen)
  <2>1. busy[h].seen = sub
    BY FinishEvent DEF OneAtATime
  <2>2. CASE Applies(e, sub) /\ e.what = "active" /\ sub.blocked
    <3>1. Recover(e.at)
      BY <1>2, <2>1, <2>2 DEF StatusChanged
    <3>2. \A g \in Included : grantState'[g] # "frozen" /\ (Thawed(g)' => <<"freeze", g>> \in keys')
      BY <3>1, RecoverThaws
    <3>. QED BY <3>2 DEF FreezesOnce, FrozenIncludedIsBlocked
  <2>3. CASE ~(Applies(e, sub) /\ e.what = "active" /\ sub.blocked)
    <3>1. UNCHANGED <<grantState, keys>>
      BY <1>2, <2>1, <2>3 DEF StatusChanged
    <3>2. sub.blocked => sub'.blocked
      BY <1>2, <2>1, <2>3 DEF StatusChanged, BlockTypes, Rows
    <3>. QED BY <3>1, <3>2 DEF FreezesOnce, Thawed, FrozenIncludedIsBlocked
  <2>. QED BY <2>2, <2>3
<1>3. CASE e.type \in {"opened", "closed"} /\ (DisputeOpened(e) \/ DisputeClosed(e))
  <2>1. e.grant \in Packs
    BY <1>3, FinishEvent
  <2>2. \A g \in Included : grantState'[g] = grantState[g]
    BY <1>3, <2>1, BlocksAssumption DEF DisputeOpened, DisputeClosed, BlockTypes, Grants
  <2>3. UNCHANGED <<sub, keys>>
    BY <1>3 DEF DisputeOpened, DisputeClosed
  <2>. QED BY <2>2, <2>3 DEF FreezesOnce, Thawed, FrozenIncludedIsBlocked
<1>. QED BY <1>1, <1>2, <1>3 DEF Finish

LEMMA SweepThaws ==
  ASSUME SerialInv, SweepWrites
  PROVE  FreezesOnce' /\ FrozenIncludedIsBlocked'
<1>. USE DEF SerialInv
<1>1. sub'.blocked
  BY DEF SweepWrites, BlockTypes, Rows
<1>2. ASSUME NEW g \in Included
      PROVE  /\ grantState'[g] = "frozen" => <<"freeze", g>> \in keys' /\ ~Thawed(g)'
             /\ Thawed(g)' => <<"freeze", g>> \in keys'
  <2>1. (Thawed(g)' <=> Thawed(g)) /\ keys \subseteq keys'
    BY DEF SweepWrites, FreezeIncluded, Thawed
  <2>2. CASE grantState[g] = "frozen"
    BY <2>1, <2>2 DEF FreezesOnce
  <2>3. CASE grantState[g] # "frozen" /\ grantState'[g] = "frozen"
    <3>1. grantState[g] = "active" /\ <<"freeze", g>> \notin keys
      BY <2>3 DEF SweepWrites, FreezeIncluded, Grants
    <3>2. <<"freeze", g>> \in keys'
      BY <3>1 DEF SweepWrites, FreezeIncluded
    <3>. QED BY <2>1, <3>1, <3>2 DEF FreezesOnce
  <2>4. CASE grantState'[g] # "frozen"
    BY <2>1, <2>4 DEF FreezesOnce
  <2>. QED BY <2>2, <2>3, <2>4
<1>. QED BY <1>1, <1>2 DEF FreezesOnce, FrozenIncludedIsBlocked

LEMMA NextSerial == ~Overlap /\ SerialInv /\ [Next]_vars => SerialInv'
<1>. SUFFICES ASSUME ~Overlap, SerialInv, [Next]_vars PROVE FreezesOnce' /\ FrozenIncludedIsBlocked'
  BY NextTypes, NextOneAtATime DEF SerialInv
<1>1. CASE UNCHANGED <<grantState, keys, sub>>
  BY <1>1 DEF SerialInv, FreezesOnce, Thawed, FrozenIncludedIsBlocked
<1>2. ASSUME NEW g \in Grants, ExpireGrant(g) PROVE FreezesOnce' /\ FrozenIncludedIsBlocked'
  <2>1. \A i \in Included : grantState'[i] = "frozen" => grantState[i] = "frozen"
    BY <1>2 DEF ExpireGrant, SerialInv, BlockTypes, Grants
  <2>2. UNCHANGED <<sub, keys>>
    BY <1>2 DEF ExpireGrant
  <2>. QED BY <2>1, <2>2 DEF SerialInv, FreezesOnce, Thawed, FrozenIncludedIsBlocked
<1>3. ProviderMoves \/ SweepReads \/ UNCHANGED vars \/ (\E h \in Handlers, e \in sent : Receive(h, e))
        => UNCHANGED <<grantState, keys, sub>>
  BY ProviderTypes DEF SweepReads, Receive, vars, tables, SerialInv
<1>. QED BY <1>1, <1>2, <1>3, FinishThaws, SweepThaws DEF Next, ProviderMoves

\* One transaction at a time, recovery leaves nothing of the subscription frozen,
\* in whatever order and however often the events come.  Overlapping it does not
\* (blocks_race).
THEOREM SerialRecoveryThaws == ~Overlap => (Spec => []FrozenIncludedIsBlocked)
<1>. SUFFICES ASSUME ~Overlap PROVE Spec => []FrozenIncludedIsBlocked
  OBVIOUS
<1>1. SerialInv /\ [Next]_vars => SerialInv'
  BY NextSerial
<1>2. SerialInv => FrozenIncludedIsBlocked
  BY DEF SerialInv
<1>. QED BY <1>1, <1>2, InitSerial, PTL DEF Spec

-----------------------------------------------------------------------------
(* What events may say *)

Meanings ==
  \A e \in sent : /\ e.at <= now
                  /\ e.type = "status" => e.what \in Statuses
                  /\ e.type = "closed" => e.what \in {"won", "lost"}

FullTypes == BlockTypes /\ TypeOK /\ Meanings

LEMMA InitTypes == Init => FullTypes
<1>. SUFFICES ASSUME Init PROVE FullTypes
  OBVIOUS
<1>1. BlockTypes
  BY InitPacks DEF PackInv
<1>2. TypeOK
  <2>1. sub \in [status : Statuses, synced : 0 .. now, graceEnds : Int, blocked : BOOLEAN]
    BY DEF Init, Statuses, Never
  <2>. QED BY <2>1 DEF Init, TypeOK, Statuses
<1>3. Meanings
  BY DEF Init, Meanings
<1>. QED BY <1>1, <1>2, <1>3 DEF FullTypes

LEMMA SendMeans ==
  ASSUME FullTypes, NEW events, NEW status \in Statuses, Send(events, status),
         \A e \in events : /\ e.at = now
                           /\ e.type = "status" => e.what \in Statuses
                           /\ e.type = "closed" => e.what \in {"won", "lost"}
  PROVE  TypeOK' /\ Meanings'
<1>1. sent' = sent \cup events /\ truth' = status /\ UNCHANGED <<now, tables, busy, sweeping, handled>>
  BY DEF Send
<1>2. now \in Nat
  BY DEF FullTypes, BlockTypes
<1>. QED BY <1>1, <1>2 DEF FullTypes, TypeOK, Meanings, tables

LEMMA ProviderMeans ==
  ASSUME FullTypes, ProviderMoves
  PROVE  TypeOK' /\ Meanings'
<1>1. CASE Tick
  <2>1. now' = now + 1 /\ now \in Nat /\ UNCHANGED <<truth, sent, tables, sweeping, handled>>
    BY <1>1 DEF Tick, FullTypes, BlockTypes
  <2>2. Meanings'
    BY <2>1 DEF FullTypes, Meanings, BlockTypes, Events
  <2>3. sub \in [status : Statuses, synced : 0 .. now', graceEnds : Int, blocked : BOOLEAN]
    BY <2>1 DEF FullTypes, TypeOK
  <2>4. \A e \in sent : e.at \in 0 .. now'
    BY <2>1 DEF FullTypes, TypeOK
  <2>. QED BY <2>1, <2>2, <2>3, <2>4 DEF FullTypes, TypeOK, tables
<1>2. \A type, what, g : /\ Event(type, now, what, g).at = now
                        /\ Event(type, now, what, g).type = type
                        /\ Event(type, now, what, g).what = what
  BY DEF Event
<1>3. CASE RenewalFails
  <2>1. Send({Event("failed", now, "none", NoGrant), Event("status", now, "past_due", NoGrant)}, "past_due")
    BY <1>3 DEF RenewalFails
  <2>2. \A e \in {Event("failed", now, "none", NoGrant), Event("status", now, "past_due", NoGrant)} :
          e.at = now /\ (e.type = "status" => e.what \in Statuses) /\ e.type # "closed"
    BY <1>2 DEF Statuses
  <2>. QED BY <2>1, <2>2, SendMeans DEF Statuses
<1>4. CASE PaymentRecovers
  <2>1. Send({Event("status", now, "active", NoGrant)}, "active")
    BY <1>4 DEF PaymentRecovers
  <2>. QED BY <1>2, <2>1, SendMeans DEF Statuses
<1>5. CASE SubscriptionEnds
  <2>1. Send({Event("status", now, "canceled", NoGrant)}, "canceled")
    BY <1>5 DEF SubscriptionEnds
  <2>. QED BY <1>2, <2>1, SendMeans DEF Statuses
<1>6. truth \in Statuses
  BY DEF FullTypes, TypeOK
<1>7. ASSUME NEW g \in Packs, DisputeStarts(g) PROVE TypeOK' /\ Meanings'
  <2>1. Send({Event("opened", now, "none", g)}, truth)
    BY <1>7 DEF DisputeStarts
  <2>. QED BY <1>2, <1>6, <2>1, SendMeans
<1>8. ASSUME NEW g \in Packs, NEW outcome \in {"won", "lost"}, DisputeEnds(g, outcome) PROVE TypeOK' /\ Meanings'
  <2>1. Send({Event("closed", now, outcome, g)}, truth)
    BY <1>8 DEF DisputeEnds
  <2>. QED BY <1>2, <1>6, <2>1, SendMeans
<1>. QED BY <1>1, <1>3, <1>4, <1>5, <1>7, <1>8 DEF ProviderMoves

LEMMA FinishMeans ==
  ASSUME FullTypes, NEW h \in Handlers, Finish(h)
  PROVE  TypeOK' /\ Meanings'
<1>. DEFINE e == busy[h].event
<1>1. /\ e \in sent /\ e.at \in 0 .. now
      /\ e.type = "status" => e.what \in Statuses
      /\ e.type = "closed" => e.what \in {"won", "lost"}
      /\ e.type \in {"opened", "closed"} => e.grant \in Packs /\ e.grant \in Grants
  BY FinishEvent DEF FullTypes, TypeOK, Meanings, Grants
<1>2. UNCHANGED <<truth, sent, now, sweeping>> /\ handled' \subseteq sent
  BY <1>1 DEF Finish, provider, FullTypes, TypeOK
<1>3. /\ sub' \in [status : Statuses, synced : 0 .. now, graceEnds : Int, blocked : BOOLEAN]
      /\ grantState' \in [Grants -> {"active", "frozen", "expired", "revoked"}]
      /\ dispute' \in [Packs -> {"none", "open", "won", "lost"}]
  <2>. HIDE DEF e
  <2>1. /\ sub \in [status : Statuses, synced : 0 .. now, graceEnds : Int, blocked : BOOLEAN]
        /\ grantState \in [Grants -> {"active", "frozen", "expired", "revoked"}]
        /\ dispute \in [Packs -> {"none", "open", "won", "lost"}]
    BY DEF FullTypes, TypeOK
  <2>2. CASE PaymentFailed(e)
    BY <1>1, <2>1, <2>2, BlocksAssumption DEF PaymentFailed
  <2>3. CASE e.type = "status" /\ StatusChanged(e, busy[h].seen)
    <3>1. dispute' = dispute
      BY <2>3 DEF StatusChanged
    <3>2. grantState' \in [Grants -> {"active", "frozen", "expired", "revoked"}]
      BY <2>1, <2>3 DEF StatusChanged, Recover
    <3>3. CASE sub' = sub
      BY <2>1, <3>1, <3>2, <3>3
    <3>4. CASE sub' = [sub EXCEPT !.status = e.what, !.synced = e.at]
      <4>1. sub' = [status |-> e.what, synced |-> e.at, graceEnds |-> sub.graceEnds, blocked |-> sub.blocked]
        BY <2>1, <3>4
      <4>. QED BY <1>1, <2>1, <2>3, <3>1, <3>2, <4>1
    <3>5. CASE sub' = [status |-> e.what, synced |-> e.at, graceEnds |-> Never, blocked |-> FALSE]
      BY <1>1, <2>1, <2>3, <3>1, <3>2, <3>5 DEF Never
    <3>. QED BY <2>3, <3>3, <3>4, <3>5 DEF StatusChanged
  <2>4. CASE e.type = "opened" /\ DisputeOpened(e)
    BY <1>1, <2>1, <2>4 DEF DisputeOpened
  <2>5. CASE e.type = "closed" /\ DisputeClosed(e)
    BY <1>1, <2>1, <2>5 DEF DisputeClosed
  <2>6. \/ PaymentFailed(e)
        \/ e.type = "status" /\ StatusChanged(e, busy[h].seen)
        \/ e.type = "opened" /\ DisputeOpened(e)
        \/ e.type = "closed" /\ DisputeClosed(e)
    BY DEF Finish, e
  <2>. QED BY <2>2, <2>3, <2>4, <2>5, <2>6
<1>. QED BY <1>2, <1>3 DEF FullTypes, TypeOK, Meanings

LEMMA NextFullTypes == FullTypes /\ [Next]_vars => FullTypes'
<1>. SUFFICES ASSUME FullTypes, [Next]_vars PROVE TypeOK' /\ Meanings'
  BY NextTypes DEF FullTypes
<1>1. ASSUME NEW h \in Handlers, NEW e \in sent, Receive(h, e) PROVE TypeOK' /\ Meanings'
  BY <1>1 DEF Receive, FullTypes, TypeOK, Meanings, provider, tables
<1>2. CASE SweepReads \/ UNCHANGED vars
  BY <1>2 DEF SweepReads, FullTypes, TypeOK, Meanings, provider, tables, vars
<1>3. CASE SweepWrites
  <2>1. /\ sub' = [sub EXCEPT !.blocked = TRUE] /\ FreezeIncluded /\ sweeping' = FALSE
        /\ UNCHANGED <<truth, sent, now, dispute, handled>>
    BY <1>3 DEF SweepWrites, provider
  <2>2. grantState' \in [Grants -> {"active", "frozen", "expired", "revoked"}]
    BY <2>1 DEF FreezeIncluded, FullTypes, TypeOK
  <2>. QED BY <2>1, <2>2 DEF FullTypes, TypeOK, Meanings
<1>4. ASSUME NEW g \in Grants, ExpireGrant(g) PROVE TypeOK' /\ Meanings'
  BY <1>4 DEF ExpireGrant, FullTypes, TypeOK, Meanings, provider
<1>. QED BY <1>1, <1>2, <1>3, <1>4, ProviderMeans, FinishMeans DEF Next, ProviderMoves

\* The row's status and sync time are those of events, and a grant is in one of
\* its four states, whatever overlaps.
THEOREM TypeCorrect == Spec => []TypeOK
<1>1. FullTypes => TypeOK
  BY DEF FullTypes
<1>. QED BY <1>1, InitTypes, NextFullTypes, PTL DEF Spec

-----------------------------------------------------------------------------
(* The newest status *)

StatusEvents(S) == {e \in S : e.type = "status"}

\* Stripe changes a subscription once per timestamp and not after its end.
StatusesInOrder ==
  \A e \in StatusEvents(sent) :
    /\ \A f \in StatusEvents(sent) : f.at = e.at => f = e
    /\ e.what = "canceled" => truth = "canceled" /\ \A f \in StatusEvents(sent) : f.at <= e.at

\* The row is in step with the newest of what was handled.
RowIsNewest ==
  \/ StatusEvents(handled) = {} /\ sub.status = "active" /\ sub.synced = 0
  \/ \E e \in StatusEvents(handled) :
       sub.status = e.what /\ sub.synced = e.at /\ \A f \in StatusEvents(handled) : f.at <= e.at

NewestInv == FullTypes /\ OneAtATime /\ StatusesInOrder /\ RowIsNewest

LEMMA InitNewest == Init => NewestInv
<1>. SUFFICES ASSUME Init PROVE NewestInv
  OBVIOUS
<1>1. FullTypes /\ OneAtATime
  BY InitTypes, InitSerial DEF SerialInv
<1>2. StatusesInOrder /\ RowIsNewest
  BY DEF Init, StatusesInOrder, RowIsNewest, StatusEvents
<1>. QED BY <1>1, <1>2 DEF NewestInv

\* A change of the subscription is later than all that were sent before.
LEMMA ChangeInOrder ==
  ASSUME NewestInv, Quiet, truth # "canceled", NEW status \in Statuses,
         NEW events, Send(events, status),
         \A e \in events : e.type = "status" => e = Event("status", now, status, NoGrant)
  PROVE  StatusesInOrder'
<1>. DEFINE n == Event("status", now, status, NoGrant)
<1>1. sent' = sent \cup events /\ truth' = status
  BY DEF Send
<1>2. n.at = now /\ n.what = status /\ now \in Nat
  BY DEF Event, NewestInv, FullTypes, BlockTypes
<1>3. \A e \in StatusEvents(sent) : e.at < now /\ e.at \in Nat /\ e.what # "canceled"
  BY DEF StatusEvents, Quiet, NewestInv, FullTypes, BlockTypes, Events, StatusesInOrder
<1>4. \A e \in StatusEvents(sent)' : e \in StatusEvents(sent) \/ e = n
  BY <1>1 DEF StatusEvents
<1>. HIDE DEF n
<1>5. SUFFICES ASSUME NEW e \in StatusEvents(sent)', NEW f \in StatusEvents(sent)'
               PROVE  /\ f.at = e.at => f = e
                      /\ e.what = "canceled" => truth' = "canceled" /\ f.at <= e.at
  BY <1>1, <1>2, <1>3, <1>4 DEF StatusesInOrder
<1>6. CASE e = n
  <2>1. CASE f = n
    BY <1>1, <1>2, <1>6, <2>1
  <2>2. CASE f \in StatusEvents(sent)
    BY <1>1, <1>2, <1>3, <1>6, <2>2
  <2>. QED BY <1>4, <2>1, <2>2
<1>7. CASE e \in StatusEvents(sent)
  BY <1>2, <1>3, <1>4, <1>7 DEF NewestInv, StatusesInOrder
<1>. QED BY <1>4, <1>6, <1>7

LEMMA ProviderInOrder ==
  ASSUME NewestInv, ProviderMoves
  PROVE  StatusesInOrder'
<1>1. \A type, at, what, g : Event(type, at, what, g).type = type
  BY DEF Event
<1>2. CASE Tick
  BY <1>2 DEF Tick, NewestInv, StatusesInOrder, StatusEvents
<1>3. CASE RenewalFails
  <2>1. Send({Event("failed", now, "none", NoGrant), Event("status", now, "past_due", NoGrant)}, "past_due")
    BY <1>3 DEF RenewalFails
  <2>2. \A e \in {Event("failed", now, "none", NoGrant), Event("status", now, "past_due", NoGrant)} :
          e.type = "status" => e = Event("status", now, "past_due", NoGrant)
    BY <1>1
  <2>3. Quiet /\ truth # "canceled"
    BY <1>3 DEF RenewalFails
  <2>. QED BY <2>1, <2>2, <2>3, ChangeInOrder DEF Statuses
<1>4. CASE PaymentRecovers
  <2>1. Quiet /\ truth # "canceled" /\ Send({Event("status", now, "active", NoGrant)}, "active")
    BY <1>4 DEF PaymentRecovers
  <2>. QED BY <2>1, ChangeInOrder DEF Statuses
<1>5. CASE SubscriptionEnds
  <2>1. Quiet /\ truth # "canceled" /\ Send({Event("status", now, "canceled", NoGrant)}, "canceled")
    BY <1>5 DEF SubscriptionEnds
  <2>. QED BY <2>1, ChangeInOrder DEF Statuses
<1>6. ASSUME NEW g \in Packs, DisputeStarts(g) \/ \E outcome \in {"won", "lost"} : DisputeEnds(g, outcome)
      PROVE  StatusesInOrder'
  <2>1. PICK e : e.type # "status" /\ Send({e}, truth)
    BY <1>1, <1>6 DEF DisputeStarts, DisputeEnds
  <2>2. truth' = truth /\ StatusEvents(sent)' = StatusEvents(sent)
    BY <2>1 DEF Send, StatusEvents
  <2>. QED BY <2>2 DEF NewestInv, StatusesInOrder
<1>. QED BY <1>2, <1>3, <1>4, <1>5, <1>6 DEF ProviderMoves

LEMMA FinishNewest ==
  ASSUME NewestInv, NEW h \in Handlers, Finish(h)
  PROVE  RowIsNewest'
<1>. DEFINE e == busy[h].event
<1>1. e \in sent /\ busy[h].seen = sub
  BY FinishEvent DEF NewestInv, FullTypes, OneAtATime
<1>2. CASE e.type # "status"
  <2>1. StatusEvents(handled)' = StatusEvents(handled)
    BY <1>2 DEF Finish, StatusEvents
  <2>2. sub'.status = sub.status /\ sub'.synced = sub.synced
    BY <1>2 DEF Finish, PaymentFailed, DisputeOpened, DisputeClosed, NewestInv, FullTypes, BlockTypes, Rows
  <2>. QED BY <2>1, <2>2 DEF NewestInv, RowIsNewest
<1>3. CASE e.type = "status"
  <2>1. StatusChanged(e, sub) /\ handled' = handled \cup {e}
    BY <1>1, <1>3 DEF Finish
  <2>2. StatusEvents(handled)' = StatusEvents(handled) \cup {e}
    BY <1>3, <2>1 DEF StatusEvents
  <2>3. \A f \in StatusEvents(handled) \cup {e} : f \in StatusEvents(sent) /\ f.at \in Nat
    BY <1>1, <1>3 DEF NewestInv, FullTypes, TypeOK, BlockTypes, Events, StatusEvents
  <2>4. sub.synced \in Nat
    BY DEF NewestInv, FullTypes, TypeOK, BlockTypes
  <2>. HIDE DEF e
  <2>5. CASE Applies(e, sub)
    <3>1. sub'.status = e.what /\ sub'.synced = e.at
      <4>1. \/ sub' = [status |-> e.what, synced |-> e.at, graceEnds |-> Never, blocked |-> FALSE]
            \/ sub' = [sub EXCEPT !.status = e.what, !.synced = e.at]
        BY <2>1, <2>5 DEF StatusChanged
      <4>2. sub \in Rows
        BY DEF NewestInv, FullTypes, BlockTypes
      <4>3. CASE sub' = [sub EXCEPT !.status = e.what, !.synced = e.at]
        BY <4>2, <4>3 DEF Rows
      <4>4. CASE sub' = [status |-> e.what, synced |-> e.at, graceEnds |-> Never, blocked |-> FALSE]
        BY <4>4
      <4>. QED BY <4>1, <4>3, <4>4
    <3>2. \A f \in StatusEvents(handled) : f.at <= sub.synced
      BY DEF NewestInv, RowIsNewest
    <3>3. \A f \in StatusEvents(handled) \cup {e} : f.at <= e.at
      BY <2>3, <2>4, <2>5, <3>2 DEF Applies
    <3>. QED BY <2>2, <3>1, <3>3 DEF RowIsNewest
  <2>6. CASE ~Applies(e, sub)
    <3>1. sub' = sub
      BY <2>1, <2>6 DEF StatusChanged
    <3>2. PICK w \in StatusEvents(handled) :
            sub.status = w.what /\ sub.synced = w.at /\ \A f \in StatusEvents(handled) : f.at <= w.at
      BY <2>3, <2>6 DEF NewestInv, RowIsNewest, Applies
    <3>3. e.at <= w.at
      <4>1. CASE sub.status = "canceled"
        BY <2>3, <3>2, <4>1 DEF NewestInv, StatusesInOrder
      <4>2. CASE e.at < sub.synced
        BY <2>3, <3>2, <4>2
      <4>. QED BY <2>3, <2>4, <2>6, <4>1, <4>2 DEF Applies
    <3>. QED BY <2>2, <3>1, <3>2, <3>3 DEF RowIsNewest
  <2>. QED BY <2>5, <2>6
<1>. QED BY <1>2, <1>3

LEMMA NextNewest ==
  ASSUME ~Overlap, NewestInv, SerialInv, [Next]_vars
  PROVE  NewestInv'
<1>1. FullTypes' /\ OneAtATime'
  BY NextFullTypes, NextOneAtATime DEF NewestInv
<1>2. StatusesInOrder'
  <2>1. ProviderMoves \/ UNCHANGED <<truth, sent>>
    BY DEF Next, ProviderMoves, Finish, Receive, SweepReads, SweepWrites, ExpireGrant, provider, vars
  <2>. QED BY <2>1, ProviderInOrder DEF NewestInv, StatusesInOrder, StatusEvents
<1>3. RowIsNewest'
  <2>1. CASE ProviderMoves
    BY <2>1, ProviderTypes DEF tables, NewestInv, FullTypes, RowIsNewest, StatusEvents
  <2>2. CASE SweepWrites
    <3>1. sub'.status = sub.status /\ sub'.synced = sub.synced /\ handled' = handled
      BY <2>2 DEF SweepWrites, NewestInv, FullTypes, BlockTypes, Rows
    <3>. QED BY <3>1 DEF NewestInv, RowIsNewest, StatusEvents
  <2>3. CASE UNCHANGED <<sub, handled>>
    BY <2>3 DEF NewestInv, RowIsNewest, StatusEvents
  <2>. QED
    BY <2>1, <2>2, <2>3, FinishNewest DEF Next, ProviderMoves, Receive, SweepReads, ExpireGrant, tables, vars
<1>. QED BY <1>1, <1>2, <1>3 DEF NewestInv

\* One transaction at a time, the row has the status of the newest event that was
\* handled, however events are reordered and repeated.
THEOREM NewestStatusRules == ~Overlap => (Spec => []NewestStatusWins)
<1>. SUFFICES ASSUME ~Overlap PROVE Spec => []NewestStatusWins
  OBVIOUS
<1>1. Init => SerialInv /\ NewestInv
  BY InitSerial, InitNewest
<1>2. SerialInv /\ NewestInv /\ [Next]_vars => SerialInv' /\ NewestInv'
  BY NextSerial, NextNewest
<1>3. NewestInv => NewestStatusWins
  BY DEF NewestInv, RowIsNewest, StatusEvents, NewestStatusWins
<1>. QED BY <1>1, <1>2, <1>3, PTL DEF Spec
=============================================================================
