---------------------- MODULE CreditTransactionsProofs ----------------------
(***************************************************************************)
(* Why one row lock is enough for a reservation, for any number of         *)
(* transactions, grants and reservations: from lockReservation to COMMIT   *)
(* the row keeps the state its holder found (RowLockInv), so a call that   *)
(* closes or widens it does so to a row nobody closed meanwhile.           *)
(*                                                                         *)
(* The grants enjoy no such invariant: a release reads them unlocked, and  *)
(* a settlement with a lock that only walks respect.  When nothing but     *)
(* walks runs, they do (WalkInv), and then balances stay in lockstep with  *)
(* the ledger.  When other calls run too, what still holds is what a close *)
(* drafts (EntriesInv): it says of every unit of the reservation where it  *)
(* goes, so that the ledger's entries, if not the balances, implement      *)
(* CreditAccount.                                                          *)
(***************************************************************************)
EXTENDS CreditTransactions, SumLemmas, TLAPS

\* What a call must have found in its reservation to hold the lock.
FoundState(j) == IF j.op = "reserve" THEN "none" ELSE "reserved"

HoldsRow(t) ==
  /\ rowLock[job[t].row] = t
  /\ resState[job[t].row] = FoundState(job[t])

PCs == {"idle", "replay", "row", "select", "lock", "read", "write", "done"}

RowTypes ==
  /\ pc \in [Txns -> PCs]
  /\ \A t \in Txns : pc[t] \notin {"idle", "done"} => job[t] \in Jobs
  /\ rowLock \in [Reservations -> Txns \cup {Nobody}]
  /\ DOMAIN resState = Reservations
  /\ allocated \in [Reservations -> [Grants -> Nat]]
  /\ DOMAIN consumed = Reservations
  /\ DOMAIN job = Txns

\* A transaction past lockReservation holds the row it found.
KeepsRow(t) ==
  /\ pc[t] = "row" => job[t].op \in Draws \cup Closes
  /\ pc[t] \in {"select", "lock"} => job[t].op \in Draws /\ HoldsRow(t)
  /\ pc[t] \in {"read", "write"} /\ job[t].op \in Closes => HoldsRow(t)

RowLockInv == RowTypes /\ \A t \in Txns : KeepsRow(t)

-----------------------------------------------------------------------------
(* What holds of every step *)

LEMMA CallTypes ==
  ASSUME NEW j \in Jobs
  PROVE  /\ j.op \in Draws \cup Closes \cup GrantOps
         /\ j.units \in Nat
         /\ j.op \in Draws \cup Closes => j.row \in Reservations
BY TransactionsAssumption DEF Calls, Draws, Closes, GrantOps

\* A transaction that touches neither the row of another nor its lock leaves what
\* the other knows of its row true.
LEMMA OthersKeepRows ==
  ASSUME RowLockInv, NEW t \in Txns, NEW u \in Txns \ {t},
         pc'[u] = pc[u], job'[u] = job[u],
         \A r \in Reservations : rowLock[r] = u => rowLock'[r] = u /\ resState'[r] = resState[r]
  PROVE  KeepsRow(u)'
<1>1. CASE \/ pc[u] \in {"select", "lock"}
           \/ pc[u] \in {"read", "write"} /\ job[u].op \in Closes
  <2>1. /\ job[u] \in Jobs
        /\ job[u].op \in Draws \cup Closes
        /\ HoldsRow(u)
    BY <1>1 DEF RowLockInv, RowTypes, KeepsRow
  <2>2. job[u].row \in Reservations
    BY <2>1, CallTypes
  <2>3. HoldsRow(u)'
    BY <2>1, <2>2 DEF HoldsRow, FoundState
  <2>. QED BY <2>3 DEF RowLockInv, KeepsRow
<1>2. CASE ~(\/ pc[u] \in {"select", "lock"}
             \/ pc[u] \in {"read", "write"} /\ job[u].op \in Closes)
  BY <1>2 DEF RowLockInv, KeepsRow
<1>. QED BY <1>1, <1>2

LEMMA InitRows == Init => RowLockInv
<1>. SUFFICES ASSUME Init PROVE RowLockInv
  OBVIOUS
<1>1. RowTypes
  BY TransactionsAssumption DEF Init, RowTypes, PCs
<1>2. \A t \in Txns : KeepsRow(t)
  BY DEF Init, KeepsRow
<1>. QED BY <1>1, <1>2 DEF RowLockInv

-----------------------------------------------------------------------------
(* Every step keeps it *)

\* A step that ends its transaction and changes no row but the one it has locked.
LEMMA EndRows ==
  ASSUME RowLockInv, NEW t \in Txns, End(t),
         DOMAIN resState' = Reservations,
         allocated' \in [Reservations -> [Grants -> Nat]],
         DOMAIN consumed' = Reservations,
         \A r \in Reservations : resState'[r] # resState[r] => rowLock[r] = t
  PROVE  RowLockInv'
<1>1. RowTypes'
  BY DEF RowLockInv, RowTypes, End, PCs
<1>2. KeepsRow(t)'
  BY DEF RowLockInv, RowTypes, KeepsRow, End
<1>3. ASSUME NEW u \in Txns \ {t} PROVE KeepsRow(u)'
  <2>1. pc'[u] = pc[u] /\ job'[u] = job[u]
    BY DEF End, RowLockInv, RowTypes
  <2>2. \A r \in Reservations : rowLock[r] = u => rowLock'[r] = u /\ resState'[r] = resState[r]
    BY DEF End
  <2>. QED BY <2>1, <2>2, OthersKeepRows
<1>. QED BY <1>1, <1>2, <1>3 DEF RowLockInv

LEMMA RollbackRows ==
  ASSUME RowLockInv, NEW t \in Txns, Rollback(t)
  PROVE  RowLockInv'
BY EndRows DEF Rollback, tables, RowLockInv, RowTypes

\* A step within a transaction, once past lockReservation: no row, no row lock.
LEMMA InnerRows ==
  ASSUME RowLockInv, NEW t \in Txns, NEW to \in PCs,
         pc' = [pc EXCEPT ![t] = to],
         \/ to \in {"select", "lock"} /\ pc[t] \in {"select", "lock"}
         \/ to \in {"read", "write"} /\ pc[t] \in {"read", "write"},
         UNCHANGED <<tables, job, rowLock>>
  PROVE  RowLockInv'
<1>1. RowTypes'
  BY DEF RowLockInv, RowTypes, tables, PCs
<1>2. KeepsRow(t)'
  BY DEF RowLockInv, RowTypes, KeepsRow, HoldsRow, FoundState, tables
<1>3. ASSUME NEW u \in Txns \ {t} PROVE KeepsRow(u)'
  BY OthersKeepRows DEF RowLockInv, RowTypes, tables
<1>. QED BY <1>1, <1>2, <1>3 DEF RowLockInv

LEMMA BeginRows ==
  ASSUME RowLockInv, NEW t \in Txns, NEW j \in Jobs, Begin(t, j)
  PROVE  RowLockInv'
<1>1. PICK to \in {"replay", "read", "row"} :
        /\ pc' = [pc EXCEPT ![t] = to]
        /\ to = "read" => j.op \in GrantOps
        /\ to = "row" => j.op \notin GrantOps
  BY DEF Begin
<1>2. RowTypes'
  BY <1>1 DEF Begin, RowLockInv, RowTypes, tables, PCs
<1>3. KeepsRow(t)'
  <2>1. pc'[t] = to /\ job'[t] = j
    BY <1>1 DEF Begin, RowLockInv, RowTypes
  <2>2. to = "row" => j.op \in Draws \cup Closes
    BY <1>1, CallTypes
  <2>3. to = "read" => j.op \notin Closes
    BY <1>1 DEF GrantOps, Closes
  <2>. QED BY <1>1, <2>1, <2>2, <2>3 DEF KeepsRow
<1>4. ASSUME NEW u \in Txns \ {t} PROVE KeepsRow(u)'
  BY <1>1, OthersKeepRows DEF Begin, RowLockInv, RowTypes, tables
<1>. QED BY <1>2, <1>3, <1>4 DEF RowLockInv

LEMMA LockRowRows ==
  ASSUME RowLockInv, NEW t \in Txns, LockRow(t)
  PROVE  RowLockInv'
<1>1. CASE Rollback(t)
  BY <1>1, RollbackRows
<1>2. CASE ~Rollback(t)
  <2>1. /\ pc[t] = "row"
        /\ rowLock[job[t].row] = Nobody
        /\ MayProceed(job[t])
        /\ rowLock' = [rowLock EXCEPT ![job[t].row] = t]
        /\ pc' = [pc EXCEPT ![t] = IF job[t].op \in Draws THEN "select" ELSE "read"]
        /\ UNCHANGED <<tables, job>>
    BY <1>2 DEF LockRow
  <2>2. /\ job[t] \in Jobs
        /\ job[t].op \in Draws \cup Closes
    BY <2>1 DEF RowLockInv, RowTypes, KeepsRow
  <2>3. job[t].row \in Reservations
    BY <2>2, CallTypes
  <2>4. RowTypes'
    BY <2>1, <2>2 DEF RowLockInv, RowTypes, tables, PCs
  <2>5. HoldsRow(t)'
    BY <2>1, <2>3 DEF HoldsRow, FoundState, MayProceed, RowLockInv, RowTypes, tables
  <2>6. KeepsRow(t)'
    BY <2>1, <2>2, <2>5 DEF KeepsRow, RowLockInv, RowTypes
  <2>7. ASSUME NEW u \in Txns \ {t} PROVE KeepsRow(u)'
    <3>1. pc'[u] = pc[u] /\ job'[u] = job[u]
      BY <2>1 DEF RowLockInv, RowTypes
    <3>2. \A r \in Reservations : rowLock[r] = u => rowLock'[r] = u /\ resState'[r] = resState[r]
      BY <2>1, TransactionsAssumption DEF RowLockInv, RowTypes, tables
    <3>. QED BY <3>1, <3>2, OthersKeepRows
  <2>. QED BY <2>4, <2>6, <2>7 DEF RowLockInv
<1>. QED BY <1>1, <1>2

\* Which step of a call writes reservations, and that it has the row locked.
DrawCommits(t) ==
  LET r == job[t].row IN
  /\ job[t] \in Jobs /\ job[t].op \in Draws /\ r \in Reservations
  /\ HoldsRow(t)
  /\ job[t].key \notin keys
  /\ \E take \in Walks(t) : Commit(t, Drawn(t, take))
                            /\ allocated' = [allocated EXCEPT ![r] = [g \in Grants |-> @[g] + take[g]]]
  /\ resState' = [resState EXCEPT ![r] = "reserved"]
  /\ UNCHANGED consumed

CloseCommits(t) ==
  LET r == job[t].row IN
  /\ job[t] \in Jobs /\ job[t].op \in Closes /\ r \in Reservations
  /\ HoldsRow(t)
  /\ Close(t) /\ End(t)
  /\ \E state \in {"settled", "released"} : resState' = [resState EXCEPT ![r] = state]
  /\ \E used : consumed' = [consumed EXCEPT ![r] = used]
  /\ UNCHANGED allocated

LEMMA DrawHasRow ==
  ASSUME RowLockInv, NEW t \in Txns, Draw(t), ~Rollback(t)
  PROVE  DrawCommits(t)
<1>1. job[t] \in Jobs /\ job[t].op \in Draws /\ HoldsRow(t)
  BY DEF Draw, RowLockInv, RowTypes, KeepsRow
<1>2. job[t].row \in Reservations
  BY <1>1, CallTypes
<1>. QED BY <1>1, <1>2 DEF Draw, DrawCommits

LEMMA CloseHasRow ==
  ASSUME RowLockInv, NEW t \in Txns, Close(t)
  PROVE  CloseCommits(t)
<1>1. job[t] \in Jobs /\ job[t].op \in Closes /\ HoldsRow(t)
  BY DEF Close, RowLockInv, RowTypes, KeepsRow
<1>2. job[t].row \in Reservations
  BY <1>1, CallTypes
<1>. QED BY <1>1, <1>2 DEF Close, Commit, CloseCommits

LEMMA WalkTypes ==
  ASSUME NEW t, job[t] \in Jobs, NEW take \in Walks(t)
  PROVE  take \in [Grants -> Nat] /\ Total(take, NumGrants) = job[t].units
<1>1. job[t].units \in Nat
  BY CallTypes
<1>. QED BY <1>1 DEF Walks

LEMMA DrawRows ==
  ASSUME RowLockInv, NEW t \in Txns, DrawCommits(t)
  PROVE  RowLockInv'
<1>1. PICK take \in Walks(t) :
        allocated' = [allocated EXCEPT ![job[t].row] = [g \in Grants |-> @[g] + take[g]]]
  BY DEF DrawCommits
<1>2. take \in [Grants -> Nat]
  BY WalkTypes DEF DrawCommits
<1>3. allocated' \in [Reservations -> [Grants -> Nat]]
  BY <1>1, <1>2 DEF RowLockInv, RowTypes, DrawCommits
<1>4. End(t) /\ DOMAIN resState' = Reservations /\ DOMAIN consumed' = Reservations
  BY DEF DrawCommits, Commit, RowLockInv, RowTypes
<1>5. \A r \in Reservations : resState'[r] # resState[r] => rowLock[r] = t
  BY DEF DrawCommits, HoldsRow, RowLockInv, RowTypes
<1>. QED BY <1>3, <1>4, <1>5, EndRows

LEMMA CloseRows ==
  ASSUME RowLockInv, NEW t \in Txns, CloseCommits(t)
  PROVE  RowLockInv'
<1>1. /\ End(t)
      /\ DOMAIN resState' = Reservations
      /\ DOMAIN consumed' = Reservations
      /\ allocated' \in [Reservations -> [Grants -> Nat]]
  BY DEF CloseCommits, RowLockInv, RowTypes
<1>2. \A r \in Reservations : resState'[r] # resState[r] => rowLock[r] = t
  BY DEF CloseCommits, HoldsRow, RowLockInv, RowTypes
<1>. QED BY <1>1, <1>2, EndRows

\* The steps that write no reservation.
Quiet(t) ==
  \/ \E j \in Jobs : Begin(t, j)
  \/ Rollback(t)
  \/ LockRow(t) \/ Select(t) \/ LockGrant(t) \/ Visit(t) \/ Inspect(t) \/ Write(t)
  \/ Forfeit(t) \/ Post(t)

LEMMA StepKinds ==
  ASSUME RowLockInv, Next
  PROVE  \E t \in Txns : Quiet(t) \/ DrawCommits(t) \/ CloseCommits(t)
<1>1. PICK t \in Txns : (\E j \in Jobs : Begin(t, j)) \/ Step(t) \/ Crash(t) \/ DeadlockVictim(t)
  BY DEF Next
<1>2. CASE Draw(t) /\ ~Rollback(t)
  BY <1>2, DrawHasRow
<1>3. CASE Close(t)
  BY <1>3, CloseHasRow
<1>4. CASE ~(Draw(t) /\ ~Rollback(t)) /\ ~Close(t)
  BY <1>1, <1>4 DEF Step, Quiet, Crash, DeadlockVictim, Replay
<1>. QED BY <1>2, <1>3, <1>4

LEMMA QuietTables ==
  ASSUME NEW t \in Txns, Quiet(t)
  PROVE  UNCHANGED <<resState, allocated, consumed>>
<1>1. CASE \E j \in Jobs : Begin(t, j)
  BY <1>1 DEF Begin, tables
<1>2. CASE Rollback(t)
  BY <1>2 DEF Rollback, tables
<1>3. CASE LockRow(t) \/ Select(t) \/ LockGrant(t)
  BY <1>3 DEF LockRow, Select, LockGrant, Rollback, tables
<1>4. CASE Visit(t) \/ Inspect(t) \/ Write(t) \/ Forfeit(t)
  BY <1>4 DEF Visit, Inspect, Write, Forfeit, Rollback, tables
<1>5. CASE Post(t)
  BY <1>5 DEF Post, Rollback, tables
<1>. QED BY <1>1, <1>2, <1>3, <1>4, <1>5 DEF Quiet

LEMMA QuietRows ==
  ASSUME RowLockInv, NEW t \in Txns, Quiet(t)
  PROVE  RowLockInv'
<1>1. CASE \E j \in Jobs : Begin(t, j)
  BY <1>1, BeginRows
<1>2. CASE Rollback(t)
  BY <1>2, RollbackRows
<1>3. CASE LockRow(t)
  BY <1>3, LockRowRows
<1>4. CASE Select(t)
  BY <1>4, InnerRows DEF Select, PCs
<1>5. CASE LockGrant(t)
  <2>1. pc' = [pc EXCEPT ![t] = "lock"] /\ pc[t] = "lock" /\ UNCHANGED <<tables, job, rowLock>>
    BY <1>5 DEF LockGrant, RowLockInv, RowTypes
  <2>. QED BY <2>1, InnerRows DEF PCs
<1>6. CASE Visit(t)
  <2>1. PICK to \in {"read", "write"} : pc' = [pc EXCEPT ![t] = to]
    BY <1>6 DEF Visit
  <2>. QED BY <1>6, <2>1, InnerRows DEF Visit, PCs
<1>7. CASE Inspect(t) /\ ~Rollback(t)
  <2>1. pc' = [pc EXCEPT ![t] = "write"] /\ pc[t] = "read" /\ UNCHANGED <<tables, job, rowLock>>
    BY <1>7 DEF Inspect
  <2>. QED BY <2>1, InnerRows DEF PCs
<1>8. CASE Write(t) \/ Forfeit(t)
  <2>1. pc' = [pc EXCEPT ![t] = "read"] /\ pc[t] = "write" /\ UNCHANGED <<tables, job, rowLock>>
    BY <1>8 DEF Write, Forfeit
  <2>. QED BY <2>1, InnerRows DEF PCs
<1>9. CASE Post(t) /\ ~Rollback(t)
  <2>1. End(t) /\ UNCHANGED <<resState, allocated, consumed>>
    BY <1>9 DEF Post, Commit
  <2>. QED BY <2>1, EndRows DEF RowLockInv, RowTypes
<1>. QED BY <1>1, <1>2, <1>3, <1>4, <1>5, <1>6, <1>7, <1>8, <1>9 DEF Quiet

LEMMA NextRows == RowLockInv /\ [Next]_vars => RowLockInv'
<1>1. ASSUME RowLockInv, UNCHANGED vars PROVE RowLockInv'
  BY <1>1 DEF vars, tables, locals, RowLockInv, RowTypes, KeepsRow, HoldsRow, FoundState
<1>2. ASSUME RowLockInv, Next PROVE RowLockInv'
  BY <1>2, StepKinds, QuietRows, DrawRows, CloseRows
<1>. QED BY <1>1, <1>2

-----------------------------------------------------------------------------
(* Theorems *)

\* Between lockReservation and COMMIT a reservation keeps the state its holder
\* found, however many calls compete for it.
THEOREM RowLocksHold == Spec => []RowLockInv
BY InitRows, NextRows, PTL DEF Spec

\* A widening commits a key nobody had committed, and widens by what its call asks.
THEOREM WideningsHaveKeys == Spec => WidenedOncePerKey
<1>. DEFINE Marked(r) == \E k \in keys' \ keys : \E j \in Jobs :
                           /\ j.key = k /\ j.op = "extend"
                           /\ Total(allocated'[r], NumGrants) = Total(allocated[r], NumGrants) + j.units
            Once == \A r \in Reservations :
                      resState[r] = "reserved" /\ allocated'[r] # allocated[r] => Marked(r)
<1>1. ASSUME RowLockInv, Next PROVE Once
  <2>1. PICK t \in Txns : Quiet(t) \/ DrawCommits(t) \/ CloseCommits(t)
    BY <1>1, StepKinds
  <2>2. CASE Quiet(t) \/ CloseCommits(t)
    BY <2>2, QuietTables DEF CloseCommits
  <2>3. CASE DrawCommits(t)
    <3>. SUFFICES ASSUME NEW r \in Reservations, resState[r] = "reserved", allocated'[r] # allocated[r]
                  PROVE  Marked(r)
      OBVIOUS
    <3>1. PICK take \in Walks(t) :
            /\ Commit(t, Drawn(t, take))
            /\ allocated' = [allocated EXCEPT ![job[t].row] = [g \in Grants |-> @[g] + take[g]]]
      BY <2>3 DEF DrawCommits
    <3>2. job[t].row = r /\ allocated'[r] = [g \in Grants |-> allocated[r][g] + take[g]]
      BY <1>1, <2>3, <3>1 DEF DrawCommits, RowLockInv, RowTypes
    <3>3. job[t] \in Jobs /\ job[t].op = "extend"
      BY <2>3, <3>2 DEF DrawCommits, HoldsRow, FoundState, Draws
    <3>4. take \in [Grants -> Nat] /\ Total(take, NumGrants) = job[t].units
      BY <3>3, WalkTypes
    <3>5. IsSumOf(allocated'[r], allocated[r], take, NumGrants)
      <4>1. allocated[r] \in [Grants -> Nat]
        BY <1>1 DEF RowLockInv, RowTypes
      <4>2. ASSUME NEW i \in Grants
            PROVE  allocated[r][i] \in Int /\ take[i] \in Int /\ allocated'[r][i] = allocated[r][i] + take[i]
        BY <3>2, <3>4, <4>1
      <4>. QED BY <4>2 DEF IsSumOf, Grants
    <3>6. Total(allocated'[r], NumGrants) = Total(allocated[r], NumGrants) + job[t].units
      BY <3>4, <3>5, TotalAdd, TransactionsAssumption
    <3>7. job[t].key \in keys' \ keys
      BY <2>3, <3>1 DEF DrawCommits, Commit
    <3>. QED BY <3>3, <3>6, <3>7
  <2>. QED BY <2>1, <2>2, <2>3
<1>2. RowLockInv /\ [Next]_vars => [Once]_vars
  BY <1>1
<1>. QED BY <1>2, RowLocksHold, PTL DEF Spec, WidenedOncePerKey

-----------------------------------------------------------------------------
(* Allocation walks among themselves *)

WalksOnly == \A j \in Jobs : j.op \in Draws

\* What a walk has read is what is there, because it holds the lock.
ReadsAreCurrent ==
  \A t \in Txns : \A g \in DOMAIN read[t] :
    g \in Grants /\ grantLock[g] = t /\ read[t][g] = remaining[g]

WalkInv ==
  /\ RowLockInv
  /\ DOMAIN read = Txns
  /\ grantLock \in [Grants -> Txns \cup {Nobody}]
  /\ remaining \in [Grants -> Int]
  /\ posted \in [Grants -> Int]
  /\ todo \in [Txns -> SUBSET Grants]
  /\ \A t \in Txns : pc[t] \notin {"read", "write"}
  /\ ReadsAreCurrent
  /\ LedgerLockstep

LEMMA InitWalks == Init => WalkInv
<1>. SUFFICES ASSUME Init PROVE WalkInv
  OBVIOUS
<1>1. RowLockInv
  BY InitRows
<1>2. ReadsAreCurrent
  BY DEF Init, ReadsAreCurrent, NothingRead
<1>3. /\ remaining \in [Grants -> Int]
      /\ posted \in [Grants -> Int]
      /\ LedgerLockstep
  BY TransactionsAssumption DEF Init, LedgerLockstep
<1>4. /\ DOMAIN read = Txns
      /\ grantLock \in [Grants -> Txns \cup {Nobody}]
      /\ todo \in [Txns -> SUBSET Grants]
      /\ \A t \in Txns : pc[t] \notin {"read", "write"}
  BY DEF Init
<1>. QED BY <1>1, <1>2, <1>3, <1>4 DEF WalkInv

\* A transaction that ends, having changed no balance another has read.
LEMMA EndWalks ==
  ASSUME WalkInv, RowLockInv', NEW t \in Txns, End(t),
         \A g \in Grants : remaining'[g] # remaining[g] => grantLock[g] = t
  PROVE  /\ DOMAIN read' = Txns
         /\ grantLock' \in [Grants -> Txns \cup {Nobody}]
         /\ todo' \in [Txns -> SUBSET Grants]
         /\ \A u \in Txns : pc'[u] \notin {"read", "write"}
         /\ ReadsAreCurrent'
<1>1. /\ DOMAIN read' = Txns
      /\ grantLock' \in [Grants -> Txns \cup {Nobody}]
      /\ todo' \in [Txns -> SUBSET Grants]
  BY DEF End, WalkInv
<1>2. \A u \in Txns : pc'[u] \notin {"read", "write"}
  BY DEF End, WalkInv, RowLockInv, RowTypes
<1>3. ReadsAreCurrent'
  <2>. SUFFICES ASSUME NEW u \in Txns, NEW g \in DOMAIN read'[u]
                PROVE  g \in Grants /\ grantLock'[g] = u /\ read'[u][g] = remaining'[g]
    BY DEF ReadsAreCurrent
  <2>1. u # t /\ read'[u] = read[u]
    BY DEF End, WalkInv, NothingRead
  <2>2. g \in Grants /\ grantLock[g] = u /\ read[u][g] = remaining[g]
    BY <2>1 DEF WalkInv, ReadsAreCurrent
  <2>3. grantLock'[g] = u /\ remaining'[g] = remaining[g]
    BY <2>1, <2>2 DEF End
  <2>. QED BY <2>1, <2>2, <2>3
<1>. QED BY <1>1, <1>2, <1>3

LEMMA RollbackWalks ==
  ASSUME WalkInv, RowLockInv', NEW t \in Txns, Rollback(t)
  PROVE  WalkInv'
<1>1. UNCHANGED <<remaining, posted>> /\ End(t)
  BY DEF Rollback, tables
<1>. QED BY <1>1, EndWalks DEF WalkInv, LedgerLockstep

LEMMA LockGrantWalks ==
  ASSUME WalkInv, RowLockInv', NEW t \in Txns, LockGrant(t)
  PROVE  WalkInv'
<1>1. PICK h \in Grants :
        /\ grantLock[h] = Nobody
        /\ grantLock' = [grantLock EXCEPT ![h] = t]
        /\ read' = IF grantState[h] # "active" THEN read
                   ELSE [read EXCEPT ![t] =
                          [i \in DOMAIN @ \cup {h} |-> IF i = h THEN remaining[h] ELSE @[i]]]
  BY DEF LockGrant, WalkInv
<1>2. UNCHANGED <<pc, remaining, posted>>
  BY DEF LockGrant, tables
<1>3. ReadsAreCurrent'
  <2>. SUFFICES ASSUME NEW u \in Txns, NEW g \in DOMAIN read'[u]
                PROVE  g \in Grants /\ grantLock'[g] = u /\ read'[u][g] = remaining'[g]
    BY DEF ReadsAreCurrent
  <2>1. CASE g \in DOMAIN read[u]
    <3>1. g \in Grants /\ grantLock[g] = u /\ read[u][g] = remaining[g]
      BY <2>1 DEF WalkInv, ReadsAreCurrent
    <3>2. g # h
      BY <1>1, <3>1, TransactionsAssumption
    <3>3. read'[u][g] = read[u][g]
      BY <1>1, <2>1, <3>2 DEF WalkInv
    <3>. QED BY <1>1, <1>2, <3>1, <3>2, <3>3 DEF WalkInv
  <2>2. CASE g \notin DOMAIN read[u]
    <3>1. u = t /\ g = h /\ read'[u][g] = remaining[h]
      BY <1>1, <2>2 DEF WalkInv
    <3>. QED BY <1>1, <1>2, <3>1 DEF WalkInv
  <2>. QED BY <2>1, <2>2
<1>4. grantLock' \in [Grants -> Txns \cup {Nobody}] /\ DOMAIN read' = Txns
  BY <1>1 DEF WalkInv
<1>5. todo' \in [Txns -> SUBSET Grants]
  BY DEF LockGrant, WalkInv
<1>. QED BY <1>2, <1>3, <1>4, <1>5 DEF WalkInv, LedgerLockstep

LEMMA WrittenFields ==
  /\ NoWrite.writes = FALSE /\ NoWrite.delta = 0
  /\ \A state, units, delta : /\ Update(state, units, delta).writes = TRUE
                             /\ Update(state, units, delta).units = units
                             /\ Update(state, units, delta).delta = delta
BY DEF NoWrite, Update

LEMMA DrawWalks ==
  ASSUME WalkInv, RowLockInv', NEW t \in Txns, DrawCommits(t)
  PROVE  WalkInv'
<1>1. PICK take \in Walks(t) : Commit(t, Drawn(t, take))
  BY DEF DrawCommits
<1>2. /\ take \in [Grants -> Nat]
      /\ \A g \in Grants : take[g] > 0 => g \in DOMAIN read[t]
  BY WalkTypes DEF DrawCommits, Walks
<1>3. \A g \in Grants : take[g] > 0 => grantLock[g] = t /\ read[t][g] = remaining[g]
  BY <1>2 DEF WalkInv, ReadsAreCurrent
<1>4. ASSUME NEW g \in Grants
      PROVE  /\ take[g] = 0 => Drawn(t, take)[g] = NoWrite
             /\ take[g] # 0 => Drawn(t, take)[g] = Update("active", read[t][g] - take[g], -take[g])
  BY DEF Drawn
<1>5. \A g \in Grants : remaining'[g] = remaining[g] - take[g]
  <2>. SUFFICES ASSUME NEW g \in Grants PROVE remaining'[g] = remaining[g] - take[g]
    OBVIOUS
  <2>1. remaining'[g] = IF Drawn(t, take)[g].writes THEN Drawn(t, take)[g].units ELSE remaining[g]
    BY <1>1 DEF Commit
  <2>2. remaining[g] \in Int /\ take[g] \in Nat
    BY <1>2 DEF WalkInv
  <2>3. CASE take[g] = 0
    <3>1. remaining'[g] = remaining[g]
      BY <1>4, <2>1, <2>3, WrittenFields
    <3>. QED BY <2>2, <2>3, <3>1
  <2>4. CASE take[g] # 0
    <3>1. remaining'[g] = read[t][g] - take[g]
      BY <1>4, <2>1, <2>4, WrittenFields
    <3>. QED BY <1>3, <2>2, <2>4, <3>1
  <2>. QED BY <2>3, <2>4
<1>6. \A g \in Grants : posted'[g] = posted[g] - take[g]
  <2>. SUFFICES ASSUME NEW g \in Grants PROVE posted'[g] = posted[g] - take[g]
    OBVIOUS
  <2>1. posted'[g] = posted[g] + Drawn(t, take)[g].delta
    BY <1>1 DEF Commit
  <2>2. posted[g] \in Int /\ take[g] \in Nat
    BY <1>2 DEF WalkInv
  <2>3. Drawn(t, take)[g].delta = -take[g]
    BY <1>4, <2>2, WrittenFields
  <2>. QED BY <2>1, <2>2, <2>3
<1>7. /\ remaining' \in [Grants -> Int]
      /\ posted' \in [Grants -> Int]
      /\ LedgerLockstep'
  <2>1. remaining' = [g \in Grants |-> remaining'[g]] /\ posted' = [g \in Grants |-> posted'[g]]
    BY <1>1 DEF Commit
  <2>2. \A g \in Grants : remaining[g] \in Int /\ posted[g] = remaining[g] /\ take[g] \in Nat
    BY <1>2 DEF WalkInv, LedgerLockstep
  <2>. QED BY <1>5, <1>6, <2>1, <2>2 DEF LedgerLockstep
<1>8. \A g \in Grants : remaining'[g] # remaining[g] => grantLock[g] = t
  BY <1>2, <1>3, <1>5 DEF WalkInv
<1>9. End(t)
  BY <1>1 DEF Commit
<1>. QED BY <1>7, <1>8, <1>9, EndWalks DEF WalkInv

\* A step that reads and locks no grant.
LEMMA IdleWalks ==
  ASSUME WalkInv, RowLockInv', NEW t \in Txns, NEW to \in PCs \ {"read", "write"},
         pc' = [pc EXCEPT ![t] = to],
         todo' \in [Txns -> SUBSET Grants],
         UNCHANGED <<tables, read, grantLock>>
  PROVE  WalkInv'
<1>1. \A u \in Txns : pc'[u] \notin {"read", "write"}
  BY DEF WalkInv, RowLockInv, RowTypes
<1>2. ReadsAreCurrent' /\ LedgerLockstep'
  BY DEF WalkInv, ReadsAreCurrent, LedgerLockstep, tables
<1>. QED BY <1>1, <1>2 DEF WalkInv, tables

LEMMA QuietWalks ==
  ASSUME WalksOnly, WalkInv, RowLockInv', NEW t \in Txns, Quiet(t)
  PROVE  WalkInv'
<1>1. ASSUME NEW j \in Jobs, Begin(t, j) PROVE WalkInv'
  <2>1. j.op \notin GrantOps
    BY DEF WalksOnly, Draws, GrantOps
  <2>2. PICK to \in {"replay", "row"} : pc' = [pc EXCEPT ![t] = to]
    BY <1>1, <2>1 DEF Begin
  <2>3. todo' \in [Txns -> SUBSET Grants]
    BY <1>1, <2>1 DEF Begin, WalkInv
  <2>. QED BY <1>1, <2>2, <2>3, IdleWalks DEF Begin, PCs
<1>2. CASE Rollback(t)
  BY <1>2, RollbackWalks
<1>3. CASE LockRow(t) /\ ~Rollback(t)
  <2>1. job[t].op \in Draws
    BY <1>3 DEF LockRow, WalkInv, RowLockInv, RowTypes, WalksOnly
  <2>2. /\ pc' = [pc EXCEPT ![t] = "select"]
        /\ todo' = [todo EXCEPT ![t] = {}]
        /\ UNCHANGED <<tables, read, grantLock>>
    BY <1>3, <2>1 DEF LockRow, Draws, Closes
  <2>3. todo' \in [Txns -> SUBSET Grants]
    BY <2>2 DEF WalkInv
  <2>. QED BY <2>2, <2>3, IdleWalks DEF PCs
<1>4. CASE Select(t)
  <2>1. todo' \in [Txns -> SUBSET Grants]
    BY <1>4 DEF Select, WalkInv
  <2>. QED BY <1>4, <2>1, IdleWalks DEF Select, PCs
<1>5. CASE LockGrant(t)
  BY <1>5, LockGrantWalks
<1>6. ~(Visit(t) \/ Inspect(t) \/ Write(t) \/ Forfeit(t) \/ Post(t))
  BY DEF Visit, Inspect, Write, Forfeit, Post, WalkInv
<1>. QED BY <1>1, <1>2, <1>3, <1>4, <1>5, <1>6 DEF Quiet

LEMMA NextWalks == WalksOnly /\ WalkInv /\ [Next]_vars => WalkInv'
<1>1. ASSUME WalkInv, UNCHANGED vars PROVE WalkInv'
  <2>1. RowLockInv'
    BY <1>1, NextRows DEF WalkInv
  <2>. QED BY <1>1, <2>1 DEF vars, tables, locals, WalkInv, ReadsAreCurrent, LedgerLockstep
<1>2. ASSUME WalksOnly, WalkInv, Next PROVE WalkInv'
  <2>1. RowLockInv'
    BY <1>2, NextRows DEF WalkInv
  <2>2. PICK t \in Txns : Quiet(t) \/ DrawCommits(t) \/ CloseCommits(t)
    BY <1>2, StepKinds DEF WalkInv
  <2>3. ~CloseCommits(t)
    BY <1>2 DEF CloseCommits, WalksOnly, Draws, Closes
  <2>. QED BY <1>2, <2>1, <2>2, <2>3, QuietWalks, DrawWalks
<1>. QED BY <1>1, <1>2

\* Concurrent reservations and extensions, retried and crashed at will, keep
\* every balance in lockstep with its ledger: lockActiveCreditGrantsByEarliestExpiry
\* is enough among themselves.  With settlements it is not (transactions_lost_update).
THEOREM WalksKeepLockstep == WalksOnly => (Spec => []LedgerLockstep)
<1>. SUFFICES ASSUME WalksOnly PROVE Spec => []LedgerLockstep
  OBVIOUS
<1>1. WalkInv /\ [Next]_vars => WalkInv'
  BY NextWalks
<1>2. WalkInv => LedgerLockstep
  BY DEF WalkInv
<1>. QED BY <1>1, <1>2, InitWalks, PTL DEF Spec

-----------------------------------------------------------------------------
(* Types *)

States == {"active", "frozen", "revoked"}
Drafts == [writes : BOOLEAN, state : States, units : Nat, delta : Int, used : Nat, gone : Nat]

Types == TypeOK /\ DOMAIN read = Txns
TypeInv == RowLockInv /\ Types

LEMMA DraftTypes ==
  /\ NoWrite \in Drafts
  /\ \A state \in States, units \in Nat, delta \in Int : Update(state, units, delta) \in Drafts
  /\ \A w \in Drafts, n \in Nat : [w EXCEPT !.used = n] \in Drafts /\ [w EXCEPT !.gone = n] \in Drafts
  /\ \A w \in Drafts, m \in Nat, n \in Nat : [w EXCEPT !.used = m, !.gone = n] \in Drafts
<1>1. NoWrite \in Drafts
  BY DEF NoWrite, Drafts, States
<1>2. ASSUME NEW state \in States, NEW units \in Nat, NEW delta \in Int
      PROVE  Update(state, units, delta) \in Drafts
  <2>1. \A w \in Drafts :
          [w EXCEPT !.writes = TRUE, !.state = state, !.units = units, !.delta = delta] \in Drafts
    BY DEF Drafts
  <2>. QED BY <1>1, <2>1 DEF Update
<1>3. ASSUME NEW w \in Drafts, NEW m \in Nat, NEW n \in Nat
      PROVE  /\ [w EXCEPT !.used = n] \in Drafts /\ [w EXCEPT !.gone = n] \in Drafts
             /\ [w EXCEPT !.used = m, !.gone = n] \in Drafts
  BY DEF Drafts
<1>. QED BY <1>1, <1>2, <1>3

LEMMA ShareTypes ==
  ASSUME NEW t \in Txns, NEW g, sharers \in [Grants -> SUBSET Txns], UNCHANGED sharers \/ Share(t, g)
  PROVE  /\ sharers' \in [Grants -> SUBSET Txns]
         /\ \A h \in Grants : sharers'[h] \subseteq sharers[h] \cup {t}
<1>1. CASE UNCHANGED sharers
  BY <1>1
<1>2. CASE Share(t, g)
  <2>1. sharers' = [h \in Grants |-> IF h = g THEN sharers[g] \cup {t} ELSE sharers[h]]
    BY <1>2 DEF Share
  <2>. QED BY <2>1
<1>. QED BY <1>1, <1>2

LEMMA InitTypes == Init => Types
<1>. SUFFICES ASSUME Init PROVE Types
  OBVIOUS
<1>1. NoDraft \in [Grants -> Drafts]
  BY DraftTypes DEF NoDraft
<1>2. draft \in [Txns -> [Grants -> Drafts]]
  BY <1>1 DEF Init
<1>3. DOMAIN read = Txns /\ \A t \in Txns : DOMAIN read[t] = {}
  BY DEF Init, NothingRead
<1>4. remaining \in [Grants -> Nat] /\ posted \in [Grants -> Int] /\ allocated \in [Reservations -> [Grants -> Nat]]
  BY TransactionsAssumption DEF Init
<1>. QED BY <1>2, <1>3, <1>4 DEF Init, Types, TypeOK, Drafts, States

\* A transaction that ends forgets its locals and gives back its locks.
LEMMA EndTypes ==
  ASSUME Types, NEW t \in Txns, End(t)
  PROVE  /\ pc' \in [Txns -> {"idle", "replay", "row", "select", "lock", "read", "write", "done"}]
         /\ job' \in [Txns -> Jobs \cup {NoJob}]
         /\ todo' \in [Txns -> SUBSET Grants]
         /\ need' \in [Txns -> Nat]
         /\ DOMAIN read' = Txns
         /\ \A u \in Txns : DOMAIN read'[u] \subseteq Grants /\ \A g \in DOMAIN read'[u] : read'[u][g] \in Nat
         /\ draft' \in [Txns -> [Grants -> Drafts]]
         /\ rowLock' \in [Reservations -> Txns \cup {Nobody}]
         /\ grantLock' \in [Grants -> Txns \cup {Nobody}]
         /\ sharers' \in [Grants -> SUBSET Txns]
<1>1. NoDraft \in [Grants -> Drafts]
  BY DraftTypes DEF NoDraft
<1>2. draft' \in [Txns -> [Grants -> Drafts]]
  BY <1>1 DEF End, Types, TypeOK, Drafts, States
<1>3. /\ DOMAIN read' = Txns
      /\ \A u \in Txns : DOMAIN read'[u] \subseteq Grants /\ \A g \in DOMAIN read'[u] : read'[u][g] \in Nat
  <2>1. DOMAIN NothingRead = {}
    BY DEF NothingRead
  <2>. QED BY <2>1 DEF End, Types, TypeOK
<1>4. /\ pc' \in [Txns -> {"idle", "replay", "row", "select", "lock", "read", "write", "done"}]
      /\ job' \in [Txns -> Jobs \cup {NoJob}]
      /\ todo' \in [Txns -> SUBSET Grants]
      /\ need' \in [Txns -> Nat]
  BY DEF End, Types, TypeOK
<1>5. /\ rowLock' \in [Reservations -> Txns \cup {Nobody}]
      /\ grantLock' \in [Grants -> Txns \cup {Nobody}]
      /\ sharers' \in [Grants -> SUBSET Txns]
  BY DEF End, Types, TypeOK
<1>. QED BY <1>2, <1>3, <1>4, <1>5

LEMMA RollbackTypes ==
  ASSUME Types, NEW t \in Txns, Rollback(t)
  PROVE  Types'
<1>1. End(t) /\ UNCHANGED tables
  BY DEF Rollback
<1>. QED BY <1>1, EndTypes DEF Types, TypeOK, tables, Drafts, States

LEMMA CommitTypes ==
  ASSUME Types, NEW t \in Txns, job[t] \in Jobs, NEW writes \in [Grants -> Drafts], Commit(t, writes),
         resState' \in [Reservations -> {"none", "reserved", "settled", "released"}],
         allocated' \in [Reservations -> [Grants -> Nat]],
         consumed' \in [Reservations -> [Grants -> Nat]]
  PROVE  Types'
<1>1. End(t)
  BY DEF Commit
<1>2. \A g \in Grants : /\ writes[g].state \in States /\ writes[g].units \in Nat
                        /\ writes[g].delta \in Int /\ writes[g].gone \in Nat
  BY DEF Drafts
<1>3. /\ grantState' \in [Grants -> States] /\ remaining' \in [Grants -> Nat]
      /\ posted' \in [Grants -> Int] /\ writtenOff' \in [Grants -> Nat]
  BY <1>2 DEF Commit, Types, TypeOK, States
<1>4. keys' \subseteq {j.key : j \in Jobs}
  BY DEF Commit, Types, TypeOK
<1>. QED BY <1>1, <1>3, <1>4, EndTypes DEF Types, TypeOK, Drafts, States

LEMMA BeginTypes ==
  ASSUME Types, NEW t \in Txns, NEW j \in Jobs, Begin(t, j)
  PROVE  Types'
<1>1. j.units \in Nat /\ (j.op \in GrantOps => j.row \in Grants)
  BY TransactionsAssumption DEF Calls
<1>2. /\ job' \in [Txns -> Jobs \cup {NoJob}]
      /\ need' \in [Txns -> Nat]
      /\ todo' \in [Txns -> SUBSET Grants]
      /\ pc' \in [Txns -> {"idle", "replay", "row", "select", "lock", "read", "write", "done"}]
  BY <1>1 DEF Begin, Types, TypeOK
<1>. QED BY <1>2 DEF Begin, Types, TypeOK, tables

LEMMA LockRowTypes ==
  ASSUME Types, RowLockInv, NEW t \in Txns, LockRow(t)
  PROVE  Types'
<1>1. CASE Rollback(t)
  BY <1>1, RollbackTypes
<1>2. CASE ~Rollback(t)
  <2>1. /\ rowLock' = [rowLock EXCEPT ![job[t].row] = t]
        /\ pc' = [pc EXCEPT ![t] = IF job[t].op \in Draws THEN "select" ELSE "read"]
        /\ todo' = [todo EXCEPT ![t] =
             IF job[t].op \in Closes THEN {g \in Grants : allocated[job[t].row][g] > 0} ELSE {}]
        /\ UNCHANGED <<tables, job, need, read, draft, grantLock, sharers>>
    BY <1>2 DEF LockRow
  <2>2. /\ rowLock' \in [Reservations -> Txns \cup {Nobody}]
        /\ pc' \in [Txns -> {"idle", "replay", "row", "select", "lock", "read", "write", "done"}]
        /\ todo' \in [Txns -> SUBSET Grants]
    BY <2>1 DEF Types, TypeOK
  <2>. QED BY <2>1, <2>2 DEF Types, TypeOK, tables
<1>. QED BY <1>1, <1>2

LEMMA SelectTypes ==
  ASSUME Types, NEW t \in Txns, Select(t) \/ Write(t) \/ Forfeit(t)
  PROVE  Types'
<1>1. CASE Select(t)
  <2>1. /\ pc' \in [Txns -> {"idle", "replay", "row", "select", "lock", "read", "write", "done"}]
        /\ todo' \in [Txns -> SUBSET Grants]
    BY <1>1 DEF Select, Types, TypeOK
  <2>. QED BY <1>1, <2>1 DEF Select, Types, TypeOK, tables
<1>2. CASE Write(t)
  <2>1. /\ pc' \in [Txns -> {"idle", "replay", "row", "select", "lock", "read", "write", "done"}]
        /\ todo' \in [Txns -> SUBSET Grants]
        /\ grantLock' \in [Grants -> Txns \cup {Nobody}]
    BY <1>2 DEF Write, Types, TypeOK
  <2>. QED BY <1>2, <2>1 DEF Write, Types, TypeOK, tables
<1>3. CASE Forfeit(t)
  <2>1. /\ pc' \in [Txns -> {"idle", "replay", "row", "select", "lock", "read", "write", "done"}]
        /\ todo' \in [Txns -> SUBSET Grants]
        /\ sharers' \in [Grants -> SUBSET Txns]
    BY <1>3 DEF Forfeit, Share, Types, TypeOK
  <2>. QED BY <1>3, <2>1 DEF Forfeit, Types, TypeOK, tables
<1>. QED BY <1>1, <1>2, <1>3

LEMMA LockGrantTypes ==
  ASSUME Types, NEW t \in Txns, LockGrant(t)
  PROVE  Types'
<1>1. PICK g \in todo[t] :
        /\ grantLock' = [grantLock EXCEPT ![g] = t]
        /\ todo' = [todo EXCEPT ![t] = todo[t] \ {g}]
        /\ read' = IF grantState[g] # "active" THEN read
                   ELSE [read EXCEPT ![t] =
                          [h \in DOMAIN read[t] \cup {g} |-> IF h = g THEN remaining[g] ELSE read[t][h]]]
        /\ UNCHANGED <<tables, pc, job, need, draft, rowLock, sharers>>
  BY DEF LockGrant
<1>2. g \in Grants
  BY DEF Types, TypeOK
<1>3. /\ todo' \in [Txns -> SUBSET Grants]
      /\ grantLock' \in [Grants -> Txns \cup {Nobody}]
  BY <1>1, <1>2 DEF Types, TypeOK
<1>4. /\ DOMAIN read' = Txns
      /\ \A u \in Txns : DOMAIN read'[u] \subseteq Grants /\ \A h \in DOMAIN read'[u] : read'[u][h] \in Nat
  <2>1. CASE read' = read
    BY <2>1 DEF Types, TypeOK
  <2>2. CASE read' = [read EXCEPT ![t] =
               [h \in DOMAIN read[t] \cup {g} |-> IF h = g THEN remaining[g] ELSE read[t][h]]]
    <3>1. /\ DOMAIN read' = Txns
          /\ read'[t] = [h \in DOMAIN read[t] \cup {g} |-> IF h = g THEN remaining[g] ELSE read[t][h]]
          /\ \A u \in Txns \ {t} : read'[u] = read[u]
      BY <2>2 DEF Types
    <3>2. DOMAIN read'[t] \subseteq Grants /\ \A h \in DOMAIN read'[t] : read'[t][h] \in Nat
      BY <1>2, <3>1 DEF Types, TypeOK
    <3>. QED BY <3>1, <3>2 DEF Types, TypeOK
  <2>. QED BY <1>1, <2>1, <2>2
<1>. QED BY <1>1, <1>3, <1>4 DEF Types, TypeOK, tables

LEMMA DrawTypes ==
  ASSUME Types, RowLockInv, NEW t \in Txns, DrawCommits(t)
  PROVE  Types'
<1>1. PICK take \in Walks(t) :
        /\ Commit(t, Drawn(t, take))
        /\ allocated' = [allocated EXCEPT ![job[t].row] = [g \in Grants |-> @[g] + take[g]]]
  BY DEF DrawCommits
<1>2. take \in [Grants -> Nat]
  BY WalkTypes DEF DrawCommits
<1>3. \A g \in Grants : take[g] > 0 => read[t][g] \in Nat /\ take[g] <= read[t][g]
  BY DEF Walks, Types, TypeOK
<1>4. Drawn(t, take) \in [Grants -> Drafts]
  <2>. SUFFICES ASSUME NEW g \in Grants
                PROVE  (IF take[g] = 0 THEN NoWrite
                        ELSE Update("active", read[t][g] - take[g], -take[g])) \in Drafts
    BY DEF Drawn
  <2>1. CASE take[g] = 0
    BY <2>1, DraftTypes
  <2>2. CASE take[g] # 0
    <3>1. read[t][g] - take[g] \in Nat /\ -take[g] \in Int
      BY <1>2, <1>3, <2>2
    <3>2. Update("active", read[t][g] - take[g], -take[g]) \in Drafts
      BY <3>1, DraftTypes DEF States
    <3>. QED BY <2>2, <3>2
  <2>. QED BY <2>1, <2>2
<1>5. allocated' \in [Reservations -> [Grants -> Nat]]
  BY <1>1, <1>2 DEF RowLockInv, RowTypes, DrawCommits
<1>6. resState' \in [Reservations -> {"none", "reserved", "settled", "released"}]
  BY DEF DrawCommits, Types, TypeOK
<1>7. consumed' \in [Reservations -> [Grants -> Nat]] /\ job[t] \in Jobs
  BY DEF DrawCommits, Types, TypeOK
<1>. QED BY <1>1, <1>4, <1>5, <1>6, <1>7, CommitTypes

\* Settlement consumes no more of a grant than was allocated and is needed.
LEMMA VisitTypes ==
  ASSUME Types, RowLockInv, NEW t \in Txns, Visit(t)
  PROVE  Types'
<1>. DEFINE part(g) == allocated[job[t].row][g]
            used(g) == Consumed(t, g)
            left(g) == part(g) - used(g)
            back(g) == left(g) > 0 /\ grantState[g] = "active"
<1>1. PICK g \in todo[t] :
        /\ Share(t, g) \/ UNCHANGED sharers
        /\ need' = [need EXCEPT ![t] = need[t] - used(g)]
        /\ draft' = [draft EXCEPT ![t][g] =
             IF back(g) THEN [Update("active", remaining[g] + left(g), left(g)) EXCEPT !.used = used(g)]
             ELSE [NoWrite EXCEPT !.used = used(g), !.gone = left(g)]]
        /\ pc' = [pc EXCEPT ![t] = IF left(g) > 0 THEN "write" ELSE "read"]
        /\ todo' = [todo EXCEPT ![t] = IF left(g) > 0 THEN todo[t] ELSE todo[t] \ {g}]
        /\ UNCHANGED <<tables, job, read, rowLock, grantLock>>
  BY DEF Visit
<1>2. g \in Grants /\ job[t].row \in Reservations
  <2>1. job[t] \in Jobs /\ job[t].op \in Closes
    BY DEF Visit, RowLockInv, RowTypes
  <2>. QED BY <2>1, CallTypes DEF Types, TypeOK
<1>3. part(g) \in Nat /\ need[t] \in Nat /\ remaining[g] \in Nat
  BY <1>2 DEF Types, TypeOK
<1>4. used(g) \in Nat /\ used(g) <= part(g) /\ used(g) <= need[t]
  BY <1>3 DEF Smaller, Consumed
<1>5. left(g) \in Nat /\ need[t] - used(g) \in Nat /\ remaining[g] + left(g) \in Nat
  BY <1>3, <1>4
<1>. HIDE DEF used, left, back, part
<1>6. draft' \in [Txns -> [Grants -> Drafts]]
  <2>1. Update("active", remaining[g] + left(g), left(g)) \in Drafts
    <3>1. "active" \in States /\ left(g) \in Int
      BY <1>5 DEF States
    <3>. QED BY <3>1, <1>5, DraftTypes
  <2>2. /\ [Update("active", remaining[g] + left(g), left(g)) EXCEPT !.used = used(g)] \in Drafts
        /\ [NoWrite EXCEPT !.used = used(g), !.gone = left(g)] \in Drafts
    BY <1>4, <1>5, <2>1, DraftTypes
  <2>3. PICK w \in Drafts : draft' = [draft EXCEPT ![t][g] = w]
    BY <1>1, <2>2
  <2>4. draft \in [Txns -> [Grants -> Drafts]]
    BY DEF Types, TypeOK, Drafts, States
  <2>. QED BY <1>2, <2>3, <2>4
<1>7. /\ need' \in [Txns -> Nat]
      /\ pc' \in [Txns -> {"idle", "replay", "row", "select", "lock", "read", "write", "done"}]
      /\ todo' \in [Txns -> SUBSET Grants]
  BY <1>1, <1>5 DEF Types, TypeOK
<1>10. sharers' \in [Grants -> SUBSET Txns]
  BY <1>1, ShareTypes DEF Types, TypeOK
<1>8. UNCHANGED <<tables, job, read, rowLock, grantLock>>
  BY <1>1
<1>9. /\ grantState' \in [Grants -> {"active", "frozen", "revoked"}]
      /\ remaining' \in [Grants -> Nat] /\ posted' \in [Grants -> Int] /\ writtenOff' \in [Grants -> Nat]
      /\ resState' \in [Reservations -> {"none", "reserved", "settled", "released"}]
      /\ allocated' \in [Reservations -> [Grants -> Nat]] /\ consumed' \in [Reservations -> [Grants -> Nat]]
      /\ keys' \subseteq {j.key : j \in Jobs}
      /\ job' \in [Txns -> Jobs \cup {NoJob}]
      /\ DOMAIN read' = Txns
      /\ \A u \in Txns : DOMAIN read'[u] \subseteq Grants /\ \A h \in DOMAIN read'[u] : read'[u][h] \in Nat
      /\ rowLock' \in [Reservations -> Txns \cup {Nobody}] /\ grantLock' \in [Grants -> Txns \cup {Nobody}]
  BY <1>8 DEF Types, TypeOK, tables
<1>. QED BY <1>6, <1>7, <1>9, <1>10 DEF Types, TypeOK, Drafts, States

\* What an operation is about to write was allowed by what it read.
LEMMA InspectTypes ==
  ASSUME Types, RowLockInv, NEW t \in Txns, Inspect(t)
  PROVE  Types'
<1>1. CASE Rollback(t)
  BY <1>1, RollbackTypes
<1>2. CASE ~Rollback(t)
  <2>1. job[t] \in Jobs /\ job[t].op \in {"freeze", "revoke", "adjust"} /\ job[t].units \in Nat
    <3>1. job[t] \in Jobs
      BY DEF Inspect, RowLockInv, RowTypes
    <3>. QED BY <3>1, CallTypes DEF Inspect, GrantOps
  <2>2. PICK g, off, state :
          /\ g \in todo[t]
          /\ draft' = [draft EXCEPT ![t][g] = [Update(state, remaining[g] - off, -off) EXCEPT !.gone = off]]
          /\ \/ job[t].op = "freeze" /\ off = 0 /\ state = "frozen"
             \/ job[t].op = "revoke" /\ off = remaining[g] /\ state = "revoked"
             \/ job[t].op = "adjust" /\ off = job[t].units /\ off <= remaining[g] /\ state = grantState[g]
          /\ pc' = [pc EXCEPT ![t] = "write"]
          /\ UNCHANGED <<tables, job, todo, need, read, rowLock, grantLock, sharers>>
    <3>1. CASE job[t].op = "freeze"
      BY <1>2, <3>1 DEF Inspect
    <3>2. CASE job[t].op = "revoke"
      BY <1>2, <3>2 DEF Inspect
    <3>3. CASE job[t].op = "adjust"
      BY <1>2, <3>3 DEF Inspect
    <3>. QED BY <2>1, <3>1, <3>2, <3>3
  <2>3. g \in Grants /\ remaining[g] \in Nat /\ grantState[g] \in States
    BY <2>2 DEF Types, TypeOK, States
  <2>4. off \in Nat /\ remaining[g] - off \in Nat /\ -off \in Int /\ state \in States
    BY <2>1, <2>2, <2>3 DEF States
  <2>5. [Update(state, remaining[g] - off, -off) EXCEPT !.gone = off] \in Drafts
    BY <2>4, DraftTypes
  <2>6. draft \in [Txns -> [Grants -> Drafts]]
    BY DEF Types, TypeOK, Drafts, States
  <2>7. draft' \in [Txns -> [Grants -> Drafts]]
    BY <2>2, <2>3, <2>5, <2>6
  <2>8. pc' \in [Txns -> {"idle", "replay", "row", "select", "lock", "read", "write", "done"}]
    BY <2>2 DEF Types, TypeOK
  <2>. QED BY <2>2, <2>7, <2>8 DEF Types, TypeOK, tables, Drafts, States
<1>. QED BY <1>1, <1>2

LEMMA CloseTypes ==
  ASSUME Types, RowLockInv, NEW t \in Txns, Close(t)
  PROVE  Types'
<1>1. job[t] \in Jobs /\ job[t].row \in Reservations
  BY CloseHasRow DEF CloseCommits
<1>2. draft[t] \in [Grants -> Drafts]
  BY DEF Types, TypeOK, Drafts, States
<1>3. consumed' \in [Reservations -> [Grants -> Nat]]
  <2>1. [g \in Grants |-> draft[t][g].used] \in [Grants -> Nat]
    BY <1>2 DEF Drafts
  <2>. QED BY <2>1 DEF Close, Types, TypeOK
<1>4. /\ resState' \in [Reservations -> {"none", "reserved", "settled", "released"}]
      /\ allocated' \in [Reservations -> [Grants -> Nat]]
      /\ Commit(t, draft[t])
  BY DEF Close, Types, TypeOK
<1>. QED BY <1>1, <1>2, <1>3, <1>4, CommitTypes

LEMMA PostTypes ==
  ASSUME Types, RowLockInv, NEW t \in Txns, Post(t)
  PROVE  Types'
<1>1. CASE Rollback(t)
  BY <1>1, RollbackTypes
<1>2. CASE ~Rollback(t)
  <2>1. Commit(t, draft[t]) /\ UNCHANGED <<resState, allocated, consumed>> /\ job[t] \in Jobs
    BY <1>2 DEF Post, RowLockInv, RowTypes
  <2>2. draft[t] \in [Grants -> Drafts]
    BY DEF Types, TypeOK, Drafts, States
  <2>. QED BY <2>1, <2>2, CommitTypes DEF Types, TypeOK
<1>. QED BY <1>1, <1>2

LEMMA NextTypes == TypeInv /\ [Next]_vars => TypeInv'
<1>. SUFFICES ASSUME TypeInv, [Next]_vars PROVE Types'
  BY NextRows DEF TypeInv
<1>1. CASE UNCHANGED vars
  BY <1>1 DEF vars, tables, locals, TypeInv, Types, TypeOK
<1>2. ASSUME NEW t \in Txns, (\E j \in Jobs : Begin(t, j)) \/ Step(t) \/ Crash(t) \/ DeadlockVictim(t)
      PROVE  Types'
  <2>1. CASE Rollback(t)
    BY <2>1, RollbackTypes DEF TypeInv
  <2>2. CASE Draw(t) /\ ~Rollback(t)
    BY <2>2, DrawHasRow, DrawTypes DEF TypeInv
  <2>3. CASE \E j \in Jobs : Begin(t, j)
    BY <2>3, BeginTypes DEF TypeInv
  <2>4. CASE \/ LockRow(t) \/ Select(t) \/ LockGrant(t) \/ Visit(t) \/ Inspect(t)
             \/ Write(t) \/ Forfeit(t) \/ Close(t) \/ Post(t)
    BY <2>4, LockRowTypes, SelectTypes, LockGrantTypes, VisitTypes, InspectTypes, CloseTypes, PostTypes DEF TypeInv
  <2>. QED BY <1>2, <2>1, <2>2, <2>3, <2>4 DEF Step, Replay, Crash, DeadlockVictim
<1>. QED BY <1>1, <1>2 DEF Next

\* No balance goes below zero in any committed state, whatever the interleaving:
\* what a statement writes was computed from a balance that allowed it.
THEOREM TypeCorrect == Spec => []TypeOK
<1>1. Init => TypeInv
  BY InitRows, InitTypes DEF TypeInv
<1>2. TypeInv => TypeOK
  BY DEF TypeInv, Types
<1>. QED BY <1>1, <1>2, NextTypes, PTL DEF Spec

-----------------------------------------------------------------------------
(* Walks do not wait in a ring *)

\* What a transaction other than a settlement or a release has locked: of the
\* grants a walk still waits for, each comes after those it has; an operation on a
\* grant locks only that; and no entry names a grant before its transaction has it.
LocksUpwards(t) ==
  /\ pc[t] = "idle" => job[t].op \notin Closes
  /\ pc[t] \in {"read", "write"} => job[t].op \notin Draws
  /\ job[t].op \in GrantOps => todo[t] \subseteq {job[t].row}
  /\ job[t].op \notin Closes =>
       \A h \in Grants :
         /\ t \notin sharers[h]
         /\ grantLock[h] = t => \/ pc[t] = "lock" /\ \A g \in todo[t] : h < g
                                \/ pc[t] = "read" /\ todo[t] = {}

RingInv == TypeInv /\ \A t \in Txns : LocksUpwards(t)

\* A ring would need a grant further up at each of its members.
LEMMA NoRing == RingInv => NoDeadlock
<1>. SUFFICES ASSUME RingInv,
                     NEW ring \in SUBSET {t \in Txns : job[t].op \notin Closes}, ring # {},
                     \A u \in ring : \E v \in ring : WaitsFor(u, v)
              PROVE  FALSE
  BY DEF NoDeadlock
<1>. DEFINE WaitsAt(u, g) == g \in todo[u] /\ g \in Grants /\ grantLock[g] \in ring
            Gaps == {n \in Nat : \E u \in ring : \E g \in Grants : WaitsAt(u, g) /\ n = NumGrants - g}
<1>1. ASSUME NEW u \in ring PROVE \E g \in Grants : WaitsAt(u, g)
  <2>1. PICK v \in ring : WaitsFor(u, v)
    OBVIOUS
  <2>2. PICK g \in todo[u] : grantLock[g] = v \/ v \in sharers[g]
    BY <2>1 DEF WaitsFor, Names
  <2>3. g \in Grants
    BY DEF RingInv, TypeInv, Types, TypeOK
  <2>4. v \notin sharers[g]
    BY <2>3 DEF RingInv, LocksUpwards
  <2>. QED BY <2>2, <2>3, <2>4
<1>2. ASSUME NEW g \in Grants PROVE NumGrants - g \in Nat
  BY TransactionsAssumption DEF Grants
<1>3. PICK m \in Gaps : \A n \in Gaps : m <= n
  <2>1. Gaps # {} /\ Gaps \subseteq Nat
    BY <1>1, <1>2
  <2>. HIDE DEF Gaps
  <2>. QED BY <2>1, LeastNumber
<1>4. PICK u \in ring, g \in Grants : WaitsAt(u, g) /\ m = NumGrants - g
  OBVIOUS
<1>5. PICK h \in Grants : WaitsAt(grantLock[g], h)
  BY <1>1, <1>4
<1>6. g < h
  BY <1>4, <1>5 DEF RingInv, LocksUpwards
<1>7. NumGrants - h \in Gaps
  BY <1>2, <1>4, <1>5
<1>8. NumGrants - h < NumGrants - g
  BY <1>6, TransactionsAssumption DEF Grants
<1>9. m <= NumGrants - h /\ m \in Nat /\ NumGrants - h \in Nat
  BY <1>2, <1>3, <1>7
<1>. QED BY <1>4, <1>8, <1>9

\* What a step of t has to leave alone for the others: their locks are theirs.
LEMMA OthersUpwards ==
  ASSUME RingInv, NEW t \in Txns, NEW u \in Txns \ {t},
         pc'[u] = pc[u], job'[u] = job[u], todo'[u] = todo[u],
         \A h \in Grants : /\ u \in sharers'[h] => u \in sharers[h]
                           /\ grantLock'[h] = u => grantLock[h] = u
  PROVE  LocksUpwards(u)'
BY DEF RingInv, LocksUpwards

LEMMA EndUpwards ==
  ASSUME RingInv, NEW t \in Txns, End(t)
  PROVE  \A u \in Txns : LocksUpwards(u)'
<1>1. LocksUpwards(t)'
  <2>1. pc'[t] = "done" /\ job'[t] = NoJob /\ todo'[t] = {}
    BY DEF End, RingInv, TypeInv, Types, TypeOK
  <2>2. \A h \in Grants : t \notin sharers'[h] /\ grantLock'[h] # t
    BY TransactionsAssumption DEF End
  <2>. QED BY <2>1, <2>2 DEF LocksUpwards
<1>2. ASSUME NEW u \in Txns \ {t} PROVE LocksUpwards(u)'
  <2>1. pc'[u] = pc[u] /\ job'[u] = job[u] /\ todo'[u] = todo[u]
    BY DEF End, RingInv, TypeInv, Types, TypeOK
  <2>2. \A h \in Grants : (u \in sharers'[h] => u \in sharers[h]) /\ (grantLock'[h] = u => grantLock[h] = u)
    BY TransactionsAssumption DEF End
  <2>. QED BY <2>1, <2>2, OthersUpwards
<1>. QED BY <1>1, <1>2

\* A step within a call, and what it must do for t itself.
LEMMA StepUpwards ==
  ASSUME RingInv, NEW t \in Txns, NEW to, NEW j, NEW left, NEW g,
         pc' = [pc EXCEPT ![t] = to], job' = [job EXCEPT ![t] = j], todo' = [todo EXCEPT ![t] = left],
         UNCHANGED grantLock \/ grantLock' = [grantLock EXCEPT ![g] = t],
         UNCHANGED sharers \/ Share(t, g),
         LocksUpwards(t)'
  PROVE  \A u \in Txns : LocksUpwards(u)'
<1>1. ASSUME NEW u \in Txns \ {t} PROVE LocksUpwards(u)'
  <2>1. pc'[u] = pc[u] /\ job'[u] = job[u] /\ todo'[u] = todo[u]
    BY DEF RingInv, TypeInv, Types, TypeOK
  <2>2. TypeOK
    BY DEF RingInv, TypeInv, Types
  <2>3. ASSUME NEW h \in Grants, u \in sharers'[h] PROVE u \in sharers[h]
    <3>1. sharers'[h] \subseteq sharers[h] \cup {t}
      BY <2>2, ShareTypes DEF TypeOK
    <3>. QED BY <2>3, <3>1
  <2>4. ASSUME NEW h \in Grants, grantLock'[h] = u PROVE grantLock[h] = u
    BY <2>2, <2>4 DEF TypeOK
  <2>. QED BY <2>1, <2>3, <2>4, OthersUpwards
<1>. QED BY <1>1

LEMMA BeginUpwards ==
  ASSUME RingInv, NEW t \in Txns, NEW j \in Jobs, Begin(t, j)
  PROVE  \A u \in Txns : LocksUpwards(u)'
<1>1. PICK to \in {"replay", "read", "row"}, left \in SUBSET {j.row} :
        /\ pc' = [pc EXCEPT ![t] = to]
        /\ todo' = [todo EXCEPT ![t] = left]
        /\ to = "read" => j.op \in GrantOps
  BY DEF Begin
<1>2. /\ job' = [job EXCEPT ![t] = j] /\ UNCHANGED <<grantLock, sharers>>
      /\ pc[t] = "idle"
  BY DEF Begin
<1>3. \A h \in Grants : t \notin sharers[h] /\ grantLock[h] # t
  BY <1>2 DEF RingInv, LocksUpwards
<1>4. pc'[t] = to /\ job'[t] = j /\ todo'[t] = left
  BY <1>1, <1>2 DEF RingInv, TypeInv, Types, TypeOK
<1>5. LocksUpwards(t)'
  BY <1>1, <1>2, <1>3, <1>4 DEF LocksUpwards, GrantOps, Draws
<1>. QED BY <1>1, <1>2, <1>5, StepUpwards

LEMMA LockRowUpwards ==
  ASSUME RingInv, NEW t \in Txns, LockRow(t), ~Rollback(t)
  PROVE  \A u \in Txns : LocksUpwards(u)'
<1>1. PICK to, left :
        /\ pc' = [pc EXCEPT ![t] = to]
        /\ todo' = [todo EXCEPT ![t] = left]
        /\ to = IF job[t].op \in Draws THEN "select" ELSE "read"
  BY DEF LockRow
<1>2. pc[t] = "row" /\ UNCHANGED <<job, grantLock, sharers>>
  BY DEF LockRow
<1>3. job' = [job EXCEPT ![t] = job[t]]
  BY <1>2 DEF RingInv, TypeInv, Types, TypeOK
<1>4. pc'[t] = to /\ todo'[t] = left
  BY <1>1 DEF RingInv, TypeInv, Types, TypeOK
<1>5. job[t].op \in Draws \cup Closes
  BY <1>2 DEF RingInv, TypeInv, RowLockInv, KeepsRow
<1>6. LocksUpwards(t)'
  <2>1. job[t].op \notin GrantOps
    BY <1>5 DEF Draws, Closes, GrantOps
  <2>2. job[t].op \notin Closes => \A h \in Grants : t \notin sharers[h] /\ grantLock[h] # t
    BY <1>2 DEF RingInv, LocksUpwards
  <2>. QED BY <1>1, <1>2, <1>4, <2>1, <2>2 DEF LocksUpwards
<1>. QED BY <1>1, <1>2, <1>3, <1>6, StepUpwards

LEMMA LockGrantUpwards ==
  ASSUME RingInv, NEW t \in Txns, LockGrant(t)
  PROVE  \A u \in Txns : LocksUpwards(u)'
<1>1. PICK g \in todo[t] :
        /\ \A h \in todo[t] : g <= h
        /\ grantLock' = [grantLock EXCEPT ![g] = t]
        /\ todo' = [todo EXCEPT ![t] = todo[t] \ {g}]
  BY DEF LockGrant
<1>2. pc[t] = "lock" /\ UNCHANGED <<pc, job, sharers>>
  BY DEF LockGrant
<1>3. pc' = [pc EXCEPT ![t] = pc[t]] /\ job' = [job EXCEPT ![t] = job[t]]
  BY <1>2 DEF RingInv, TypeInv, Types, TypeOK
<1>4. todo[t] \subseteq Grants /\ g \in Grants /\ todo'[t] = todo[t] \ {g}
  BY <1>1 DEF RingInv, TypeInv, Types, TypeOK
<1>5. job[t].op \in Draws /\ job[t].op \notin Closes \cup GrantOps
  BY <1>2 DEF RingInv, TypeInv, RowLockInv, KeepsRow, Draws, Closes, GrantOps
<1>6. ASSUME NEW h \in Grants, grantLock'[h] = t, NEW i \in todo'[t]
      PROVE  h < i
  <2>1. CASE h = g
    <3>1. g <= i /\ g \in Int /\ i \in Int /\ i # g
      BY <1>1, <1>4, <1>6, TransactionsAssumption DEF Grants
    <3>. QED BY <2>1, <3>1
  <2>2. CASE h # g
    <3>1. grantLock[h] = t /\ i \in todo[t]
      BY <1>1, <1>4, <1>6, <2>2 DEF RingInv, TypeInv, Types, TypeOK
    <3>. QED BY <1>2, <1>5, <3>1 DEF RingInv, LocksUpwards
  <2>. QED BY <2>1, <2>2
<1>7. LocksUpwards(t)'
  BY <1>2, <1>5, <1>6 DEF LocksUpwards, RingInv
<1>. QED BY <1>1, <1>3, <1>2, <1>7, StepUpwards

\* A settlement or a release may do with grants as it likes.
LEMMA CloserUpwards ==
  ASSUME RingInv, NEW t \in Txns, Visit(t) \/ Forfeit(t) \/ (Write(t) /\ job[t].op \in Closes)
  PROVE  \A u \in Txns : LocksUpwards(u)'
<1>. DEFINE Moves(to, left, g) ==
              /\ to \in {"read", "write"}
              /\ pc' = [pc EXCEPT ![t] = to]
              /\ todo' = [todo EXCEPT ![t] = left]
              /\ UNCHANGED grantLock \/ grantLock' = [grantLock EXCEPT ![g] = t]
              /\ UNCHANGED sharers \/ Share(t, g)
              /\ UNCHANGED job
              /\ job[t].op \in Closes
<1>1. PICK to, left, g : Moves(to, left, g)
  <2>1. CASE Visit(t)
    <3>1. PICK g, n :
            /\ UNCHANGED sharers \/ Share(t, g)
            /\ pc' = [pc EXCEPT ![t] = IF n > 0 THEN "write" ELSE "read"]
            /\ todo' = [todo EXCEPT ![t] = IF n > 0 THEN todo[t] ELSE todo[t] \ {g}]
      BY <2>1 DEF Visit
    <3>2. Moves(IF n > 0 THEN "write" ELSE "read", IF n > 0 THEN todo[t] ELSE todo[t] \ {g}, g)
      BY <2>1, <3>1 DEF Visit
    <3>. HIDE DEF Moves
    <3>. QED BY <3>2
  <2>2. CASE Forfeit(t)
    <3>1. PICK g \in todo[t] : Share(t, g) /\ todo' = [todo EXCEPT ![t] = todo[t] \ {g}]
      BY <2>2 DEF Forfeit
    <3>2. Moves("read", todo[t] \ {g}, g)
      BY <2>2, <3>1 DEF Forfeit
    <3>. HIDE DEF Moves
    <3>. QED BY <3>2
  <2>3. CASE Write(t) /\ job[t].op \in Closes
    <3>1. PICK g \in todo[t] : /\ grantLock' = [grantLock EXCEPT ![g] = t]
                               /\ todo' = [todo EXCEPT ![t] = todo[t] \ {g}]
      BY <2>3 DEF Write
    <3>2. Moves("read", todo[t] \ {g}, g)
      BY <2>3, <3>1 DEF Write
    <3>. HIDE DEF Moves
    <3>. QED BY <3>2
  <2>. QED BY <2>1, <2>2, <2>3
<1>2. job' = [job EXCEPT ![t] = job[t]] /\ pc'[t] = to
  BY <1>1 DEF RingInv, TypeInv, Types, TypeOK
<1>3. LocksUpwards(t)'
  BY <1>1, <1>2 DEF LocksUpwards, Closes, Draws, GrantOps
<1>. QED BY <1>1, <1>2, <1>3, StepUpwards

\* An operation on a grant comes to it with nothing locked, and waits for no other.
LEMMA GrantOpUpwards ==
  ASSUME RingInv, NEW t \in Txns,
         (Inspect(t) /\ ~Rollback(t)) \/ (Write(t) /\ job[t].op \notin Closes)
  PROVE  \A u \in Txns : LocksUpwards(u)'
<1>1. CASE Inspect(t) /\ ~Rollback(t)
  <2>1. /\ pc' = [pc EXCEPT ![t] = "write"]
        /\ UNCHANGED <<job, todo, grantLock, sharers>>
        /\ pc[t] = "read" /\ todo[t] # {} /\ job[t].op \in GrantOps
    BY <1>1 DEF Inspect
  <2>2. job' = [job EXCEPT ![t] = job[t]] /\ todo' = [todo EXCEPT ![t] = todo[t]] /\ pc'[t] = "write"
    BY <2>1 DEF RingInv, TypeInv, Types, TypeOK
  <2>3. job[t].op \notin Closes \cup Draws
    BY <2>1 DEF GrantOps, Closes, Draws
  <2>4. LocksUpwards(t)'
    BY <2>1, <2>2, <2>3 DEF RingInv, LocksUpwards
  <2>. QED BY <2>1, <2>2, <2>4, StepUpwards
<1>2. CASE Write(t) /\ job[t].op \notin Closes
  <2>1. PICK g \in todo[t] :
          /\ pc' = [pc EXCEPT ![t] = "read"]
          /\ grantLock' = [grantLock EXCEPT ![g] = t]
          /\ todo' = [todo EXCEPT ![t] = todo[t] \ {g}]
          /\ UNCHANGED <<job, sharers>>
          /\ pc[t] = "write"
    BY <1>2 DEF Write
  <2>2. /\ job' = [job EXCEPT ![t] = job[t]] /\ pc'[t] = "read" /\ todo'[t] = todo[t] \ {g}
        /\ job[t] \in Jobs
    BY <2>1 DEF RingInv, TypeInv, Types, TypeOK, RowLockInv, RowTypes
  <2>3. job[t].op \in GrantOps /\ job[t].op \notin Draws
    BY <1>2, <2>1, <2>2, CallTypes DEF RingInv, LocksUpwards
  <2>4. todo'[t] = {}
    BY <2>2, <2>3 DEF RingInv, LocksUpwards
  <2>5. LocksUpwards(t)'
    BY <1>2, <2>1, <2>2, <2>3, <2>4 DEF RingInv, LocksUpwards
  <2>. QED BY <2>1, <2>2, <2>5, StepUpwards
<1>. QED BY <1>1, <1>2

LEMMA NextUpwards == RingInv /\ [Next]_vars => RingInv'
<1>. SUFFICES ASSUME RingInv, [Next]_vars PROVE \A u \in Txns : LocksUpwards(u)'
  BY NextTypes DEF RingInv
<1>1. CASE UNCHANGED vars
  BY <1>1 DEF vars, locals, RingInv, LocksUpwards
<1>2. CASE Next
  <2>1. PICK t \in Txns : Quiet(t) \/ DrawCommits(t) \/ CloseCommits(t)
    BY <1>2, StepKinds DEF RingInv, TypeInv
  <2>2. CASE \E j \in Jobs : Begin(t, j)
    BY <2>2, BeginUpwards
  <2>3. CASE Rollback(t) \/ DrawCommits(t) \/ CloseCommits(t) \/ Post(t)
    <3>1. End(t)
      BY <2>3 DEF Rollback, DrawCommits, Commit, CloseCommits, Post
    <3>. QED BY <3>1, EndUpwards
  <2>4. CASE (LockRow(t) /\ ~Rollback(t)) \/ LockGrant(t)
    BY <2>4, LockRowUpwards, LockGrantUpwards
  <2>5. CASE Select(t)
    <3>1. PICK left : /\ pc' = [pc EXCEPT ![t] = "lock"]
                      /\ todo' = [todo EXCEPT ![t] = left]
                      /\ UNCHANGED <<job, grantLock, sharers>>
                      /\ pc[t] = "select"
      BY <2>5 DEF Select
    <3>2. job' = [job EXCEPT ![t] = job[t]] /\ pc'[t] = "lock" /\ todo'[t] = left
      BY <3>1 DEF RingInv, TypeInv, Types, TypeOK
    <3>3. job[t].op \in Draws /\ job[t].op \notin Closes \cup GrantOps
      BY <3>1 DEF RingInv, TypeInv, RowLockInv, KeepsRow, Draws, Closes, GrantOps
    <3>4. LocksUpwards(t)'
      BY <3>1, <3>2, <3>3 DEF RingInv, LocksUpwards
    <3>. QED BY <3>1, <3>2, <3>4, StepUpwards
  <2>6. CASE Visit(t) \/ Forfeit(t) \/ Write(t) \/ (Inspect(t) /\ ~Rollback(t))
    BY <2>6, CloserUpwards, GrantOpUpwards
  <2>. QED BY <2>1, <2>2, <2>3, <2>4, <2>5, <2>6 DEF Quiet
<1>. QED BY <1>1, <1>2

\* However many calls compete for however many grants, no ring of reservations,
\* extensions and operations on grants waits for itself: ORDER BY expires_at, id
\* before FOR UPDATE.  Every deadlock has a settlement or a release in it.
THEOREM WalksDoNotDeadlock == Spec => []NoDeadlock
<1>1. Init => RingInv
  <2>. SUFFICES ASSUME Init PROVE \A t \in Txns : LocksUpwards(t)
    BY InitRows, InitTypes DEF RingInv, TypeInv
  <2>. QED BY TransactionsAssumption DEF Init, LocksUpwards, NoJob, Closes, Draws, GrantOps
<1>. QED BY <1>1, NextUpwards, NoRing, PTL DEF Spec

-----------------------------------------------------------------------------
(* Where every unit of a closed reservation goes is settled before COMMIT *)

\* A row nobody has opened holds nothing, one nobody has closed consumed nothing.
UnopenedRowsAreEmpty ==
  \A r \in Reservations :
    /\ resState[r] = "none" => \A g \in Grants : allocated[r][g] = 0
    /\ resState[r] \in {"none", "reserved"} => \A g \in Grants : consumed[r][g] = 0

\* What t has drafted for a grant says where all units of the allocation go.
Shared(t, g) ==
  LET d == draft[t][g] IN
  d.delta >= 0 /\ d.used + d.delta + d.gone = allocated[job[t].row][g]

\* A draft is empty until its grant is visited; between visit and write there is
\* one that is not, that of the allocation whose turn it is.
DraftsAddUp(t) ==
  /\ pc[t] \notin {"read", "write"} => draft[t] = NoDraft
  /\ pc[t] = "read" => \A g \in todo[t] : draft[t][g] = NoWrite
  /\ pc[t] = "write" =>
       \E g \in todo[t] :
         /\ job[t].op \in Closes => First(t, g)
         /\ draft[t][g] # NoWrite
         /\ \A h \in todo[t] \ {g} : draft[t][h] = NoWrite
  /\ pc[t] \in {"read", "write"} =>
       \A g \in Grants :
         IF job[t].op \in Closes
         THEN (g \in todo[t] /\ draft[t][g] = NoWrite) \/ Shared(t, g)
         ELSE draft[t][g].used = 0 /\ draft[t][g].delta + draft[t][g].gone = 0

\* What a settlement can still consume: the allocations it has not come to.
Ahead(t) ==
  [g \in Grants |->
     IF g \in todo[t] /\ draft[t][g] = NoWrite THEN allocated[job[t].row][g] ELSE 0]
Used(t) == [g \in Grants |-> draft[t][g].used]

\* A settlement will have consumed what its call says, a release nothing.
SettlesInFull(t) ==
  /\ pc[t] = "row" => need[t] = job[t].units
  /\ pc[t] \in {"read", "write"} /\ job[t].op = "settle" =>
       /\ need[t] + Total(Used(t), NumGrants) = job[t].units
       /\ need[t] <= Total(Ahead(t), NumGrants)
  /\ pc[t] \in {"read", "write"} /\ job[t].op = "release" =>
       \A g \in Grants : draft[t][g].used = 0

EntriesInv ==
  /\ TypeInv
  /\ UnopenedRowsAreEmpty
  /\ \A t \in Txns : DraftsAddUp(t) /\ SettlesInFull(t)

LEMMA EmptyDrafts ==
  /\ NoWrite.writes = FALSE /\ NoWrite.delta = 0 /\ NoWrite.used = 0 /\ NoWrite.gone = 0
  /\ \A g \in Grants : NoDraft[g] = NoWrite
BY DEF NoWrite, NoDraft

\* No two allocations of a reservation have the same turn.
LEMMA FirstIsOne ==
  ASSUME NEW t \in Txns, job[t].row \in Reservations, todo[t] \subseteq Grants,
         NEW g \in todo[t], NEW h \in todo[t], First(t, g), First(t, h)
  PROVE  g = h
<1>1. /\ AllocationId[job[t].row][g] \in Nat /\ AllocationId[job[t].row][h] \in Nat
      /\ AllocationId[job[t].row][g] <= AllocationId[job[t].row][h]
      /\ AllocationId[job[t].row][h] <= AllocationId[job[t].row][g]
  BY TransactionsAssumption DEF First
<1>2. AllocationId[job[t].row][g] = AllocationId[job[t].row][h]
  BY <1>1
<1>. QED BY <1>2, TransactionsAssumption

LEMMA InitEntries == Init => EntriesInv
<1>. SUFFICES ASSUME Init PROVE EntriesInv
  OBVIOUS
<1>1. TypeInv
  BY InitRows, InitTypes DEF TypeInv
<1>2. UnopenedRowsAreEmpty
  <2>. SUFFICES ASSUME NEW r \in Reservations, NEW g \in Grants
                PROVE  consumed[r][g] = 0 /\ (resState[r] = "none" => allocated[r][g] = 0)
    BY DEF UnopenedRowsAreEmpty
  <2>1. HeldAtStart[r][g] \in Nat
    BY TransactionsAssumption
  <2>. QED BY <2>1 DEF Init, HasUnits
<1>3. \A t \in Txns : DraftsAddUp(t) /\ SettlesInFull(t)
  BY DEF Init, DraftsAddUp, SettlesInFull
<1>. QED BY <1>1, <1>2, <1>3 DEF EntriesInv

-----------------------------------------------------------------------------
(* What a step need not show *)

\* A call that is closing a row has it to itself.
LEMMA ClosingRow ==
  ASSUME RowLockInv, NEW t \in Txns, pc[t] \in {"read", "write"}, job[t].op \in Closes
  PROVE  /\ job[t] \in Jobs /\ job[t].row \in Reservations /\ job[t].units \in Nat
         /\ rowLock[job[t].row] = t /\ resState[job[t].row] = "reserved"
<1>1. job[t] \in Jobs /\ HoldsRow(t)
  BY DEF RowLockInv, RowTypes, KeepsRow
<1>. QED BY <1>1, CallTypes DEF HoldsRow, FoundState, Closes

LEMMA OthersKeepDrafts ==
  ASSUME EntriesInv, NEW t \in Txns, NEW u \in Txns \ {t},
         pc'[u] = pc[u], job'[u] = job[u], todo'[u] = todo[u], need'[u] = need[u], draft'[u] = draft[u],
         \A r \in Reservations : rowLock[r] = u => allocated'[r] = allocated[r]
  PROVE  DraftsAddUp(u)' /\ SettlesInFull(u)'
<1>1. CASE pc[u] \in {"read", "write"} /\ job[u].op \in Closes
  <2>1. allocated'[job[u].row] = allocated[job[u].row]
    BY <1>1, ClosingRow DEF EntriesInv, TypeInv
  <2>2. Ahead(u)' = Ahead(u) /\ Used(u)' = Used(u)
    BY <2>1 DEF Ahead, Used
  <2>3. \A g \in Grants : Shared(u, g)' <=> Shared(u, g)
    BY <2>1 DEF Shared
  <2>4. DraftsAddUp(u)'
    <3>1. \A g \in todo[u] : First(u, g)' <=> First(u, g)
      BY DEF First
    <3>. QED BY <1>1, <2>3, <3>1 DEF EntriesInv, DraftsAddUp
  <2>5. SettlesInFull(u)'
    BY <1>1, <2>2 DEF EntriesInv, SettlesInFull
  <2>. QED BY <2>4, <2>5
<1>2. CASE ~(pc[u] \in {"read", "write"} /\ job[u].op \in Closes)
  <2>1. DraftsAddUp(u)'
    BY <1>2 DEF EntriesInv, DraftsAddUp
  <2>2. SettlesInFull(u)'
    BY <1>2 DEF EntriesInv, SettlesInFull, Closes
  <2>. QED BY <2>1, <2>2
<1>. QED BY <1>1, <1>2

\* A step within t that commits nothing.
LEMMA InnerEntries ==
  ASSUME EntriesInv, TypeInv', NEW t \in Txns, UNCHANGED tables,
         \A u \in Txns \ {t} : /\ pc'[u] = pc[u] /\ job'[u] = job[u] /\ todo'[u] = todo[u]
                               /\ need'[u] = need[u] /\ draft'[u] = draft[u],
         DraftsAddUp(t)', SettlesInFull(t)'
  PROVE  EntriesInv'
<1>1. UnopenedRowsAreEmpty'
  BY DEF EntriesInv, UnopenedRowsAreEmpty, tables
<1>2. \A u \in Txns \ {t} : DraftsAddUp(u)' /\ SettlesInFull(u)'
  BY OthersKeepDrafts DEF tables
<1>. QED BY <1>1, <1>2 DEF EntriesInv

\* A transaction that ends, having widened no row of another.
LEMMA EndEntries ==
  ASSUME EntriesInv, TypeInv', NEW t \in Txns, End(t), UnopenedRowsAreEmpty',
         \A r \in Reservations : rowLock[r] # t => allocated'[r] = allocated[r]
  PROVE  EntriesInv'
<1>1. TypeInv
  BY DEF EntriesInv
<1>2. pc'[t] = "done" /\ draft'[t] = NoDraft
  BY <1>1 DEF End, TypeInv, Types, TypeOK
<1>3. DraftsAddUp(t)' /\ SettlesInFull(t)'
  BY <1>2 DEF DraftsAddUp, SettlesInFull
<1>4. ASSUME NEW u \in Txns \ {t} PROVE DraftsAddUp(u)' /\ SettlesInFull(u)'
  <2>1. /\ pc'[u] = pc[u] /\ job'[u] = job[u] /\ todo'[u] = todo[u]
        /\ need'[u] = need[u] /\ draft'[u] = draft[u]
    BY <1>1 DEF End, TypeInv, Types, TypeOK
  <2>2. \A r \in Reservations : rowLock[r] = u => allocated'[r] = allocated[r]
    OBVIOUS
  <2>. QED BY <2>1, <2>2, OthersKeepDrafts
<1>. QED BY <1>3, <1>4 DEF EntriesInv

LEMMA RollbackEntries ==
  ASSUME EntriesInv, TypeInv', NEW t \in Txns, Rollback(t)
  PROVE  EntriesInv'
<1>1. UnopenedRowsAreEmpty' /\ allocated' = allocated
  BY DEF Rollback, tables, EntriesInv, UnopenedRowsAreEmpty
<1>. QED BY <1>1, EndEntries DEF Rollback

-----------------------------------------------------------------------------
(* The steps of a call *)

\* Before a call reads or writes a grant it has drafted nothing.
LEMMA EarlyEntries ==
  ASSUME EntriesInv, TypeInv', NEW t \in Txns, UNCHANGED <<tables, draft>>,
         pc[t] \notin {"read", "write"}, pc'[t] \notin {"row", "read", "write"},
         \A u \in Txns \ {t} : /\ pc'[u] = pc[u] /\ job'[u] = job[u] /\ todo'[u] = todo[u] /\ need'[u] = need[u]
  PROVE  EntriesInv'
<1>1. DraftsAddUp(t)' /\ SettlesInFull(t)'
  BY DEF EntriesInv, DraftsAddUp, SettlesInFull
<1>. QED BY <1>1, InnerEntries

LEMMA BeginEntries ==
  ASSUME EntriesInv, TypeInv', NEW t \in Txns, NEW j \in Jobs, Begin(t, j)
  PROVE  EntriesInv'
<1>1. PICK to \in {"replay", "read", "row"} :
        /\ pc' = [pc EXCEPT ![t] = to]
        /\ to = "read" => j.op \in GrantOps
  BY DEF Begin
<1>2. TypeInv
  BY DEF EntriesInv
<1>3. /\ pc'[t] = to /\ job'[t] = j /\ need'[t] = j.units
      /\ \A u \in Txns \ {t} : /\ pc'[u] = pc[u] /\ job'[u] = job[u] /\ todo'[u] = todo[u]
                               /\ need'[u] = need[u]
      /\ UNCHANGED <<tables, draft>>
  BY <1>1, <1>2 DEF Begin, TypeInv, Types, TypeOK
<1>4. draft[t] = NoDraft
  BY DEF Begin, EntriesInv, DraftsAddUp
<1>5. todo'[t] \subseteq Grants
  BY DEF TypeInv, Types, TypeOK
<1>6. to = "read" => j.op \notin Closes
  BY <1>1 DEF GrantOps, Closes
<1>7. DraftsAddUp(t)'
  BY <1>3, <1>4, <1>5, <1>6, EmptyDrafts DEF DraftsAddUp
<1>8. SettlesInFull(t)'
  BY <1>3, <1>6 DEF SettlesInFull, Closes
<1>. QED BY <1>3, <1>7, <1>8, InnerEntries

\* A settlement is refused if it is for more than was allocated.
LEMMA LockRowEntries ==
  ASSUME EntriesInv, TypeInv', NEW t \in Txns, LockRow(t)
  PROVE  EntriesInv'
<1>1. CASE Rollback(t)
  BY <1>1, RollbackEntries
<1>2. CASE ~Rollback(t) /\ job[t].op \in Draws
  <2>1. /\ pc' = [pc EXCEPT ![t] = "select"] /\ pc[t] = "row"
        /\ todo' = [todo EXCEPT ![t] = IF job[t].op \in Closes THEN {g \in Grants : allocated[job[t].row][g] > 0} ELSE {}]
        /\ UNCHANGED <<tables, draft, job, need>>
    BY <1>2 DEF LockRow
  <2>. QED BY <2>1, EarlyEntries DEF EntriesInv, TypeInv, Types, TypeOK
<1>3. CASE ~Rollback(t) /\ job[t].op \notin Draws
  <2>. DEFINE r == job[t].row
  <2>1. /\ pc' = [pc EXCEPT ![t] = "read"] /\ pc[t] = "row"
        /\ MayProceed(job[t])
        /\ todo' = [todo EXCEPT ![t] = IF job[t].op \in Closes THEN {g \in Grants : allocated[r][g] > 0} ELSE {}]
        /\ UNCHANGED <<tables, draft, job, need>>
    BY <1>3 DEF LockRow
  <2>2. TypeInv /\ job[t].op \in Closes
    BY <1>3, <2>1 DEF EntriesInv, TypeInv, RowLockInv, RowTypes, KeepsRow
  <2>3. /\ pc'[t] = "read" /\ todo'[t] = {g \in Grants : allocated[r][g] > 0}
        /\ job'[t] = job[t] /\ need'[t] = need[t] /\ draft'[t] = NoDraft
        /\ \A u \in Txns \ {t} : /\ pc'[u] = pc[u] /\ todo'[u] = todo[u]
    BY <2>1, <2>2 DEF EntriesInv, TypeInv, Types, TypeOK, DraftsAddUp
  <2>4. job[t] \in Jobs
    BY <2>1, <2>2 DEF TypeInv, RowLockInv, RowTypes
  <2>5. r \in Reservations /\ job[t].units \in Nat
    BY <2>2, <2>4, CallTypes
  <2>6. allocated'[r] \in [Grants -> Nat] /\ allocated' = allocated
    BY <2>1, <2>2, <2>5 DEF TypeInv, Types, TypeOK, tables
  <2>7. \A g \in Grants : g \in todo'[t] \/ Shared(t, g)'
    BY <2>3, <2>6, EmptyDrafts DEF Shared
  <2>8. DraftsAddUp(t)'
    BY <2>2, <2>3, <2>7, EmptyDrafts DEF DraftsAddUp
  <2>9. SettlesInFull(t)'
    <3>1. need[t] = job[t].units
      BY <2>1 DEF EntriesInv, SettlesInFull
    <3>2. \A g \in Grants : draft'[t][g].used = 0
      BY <2>3, EmptyDrafts
    <3>3. Total(Used(t)', NumGrants) = 0
      <4>1. \A i \in 1 .. NumGrants : Used(t)'[i] = 0
        BY <3>2 DEF Used, Grants
      <4>. QED BY <4>1, TotalZero, TransactionsAssumption
    <3>4. Ahead(t)' = allocated[r]
      <4>1. ASSUME NEW g \in Grants PROVE Ahead(t)'[g] = allocated[r][g]
        BY <2>3, <2>6, EmptyDrafts DEF Ahead
      <4>2. DOMAIN (Ahead(t)') = Grants /\ Ahead(t)' = [g \in Grants |-> Ahead(t)'[g]]
        BY DEF Ahead
      <4>. QED BY <2>6, <4>1, <4>2
    <3>5. job[t].op = "settle" => job[t].units <= Total(allocated[r], NumGrants)
      BY <2>1 DEF MayProceed
    <3>. QED BY <2>3, <2>5, <3>1, <3>2, <3>3, <3>4, <3>5 DEF SettlesInFull
  <2>. QED BY <2>1, <2>3, <2>8, <2>9, InnerEntries
<1>. QED BY <1>1, <1>2, <1>3

LEMMA WalkEntries ==
  ASSUME EntriesInv, TypeInv', NEW t \in Txns, Select(t) \/ LockGrant(t)
  PROVE  EntriesInv'
<1>1. /\ pc[t] \in {"select", "lock"} /\ pc' = [pc EXCEPT ![t] = "lock"]
      /\ UNCHANGED <<tables, job, need, draft>>
  BY DEF Select, LockGrant, EntriesInv, TypeInv, Types, TypeOK
<1>2. PICK left : todo' = [todo EXCEPT ![t] = left]
  BY DEF Select, LockGrant
<1>. QED BY <1>1, <1>2, EarlyEntries DEF EntriesInv, TypeInv, Types, TypeOK

\* One visit splits what is left of the reservation's part of one grant.
Visits(t, g, used, w) ==
  LET part == allocated[job[t].row][g] IN
  /\ g \in todo[t] /\ g \in Grants
  /\ used = Consumed(t, g)
  /\ need' = [need EXCEPT ![t] = need[t] - used]
  /\ draft' = [draft EXCEPT ![t][g] = w]
  /\ w.used = used /\ w.delta >= 0 /\ w.used + w.delta + w.gone = part
  /\ w.writes \/ w.delta = 0
  /\ \/ pc' = [pc EXCEPT ![t] = "write"] /\ todo' = todo /\ First(t, g) /\ w # NoWrite
     \/ /\ pc' = [pc EXCEPT ![t] = "read"] /\ todo' = [todo EXCEPT ![t] = todo[t] \ {g}]
        /\ ~w.writes

LEMMA VisitParts ==
  ASSUME EntriesInv, NEW t \in Txns, Visit(t)
  PROVE  \E g, used, w : Visits(t, g, used, w)
<1>. DEFINE part(g) == allocated[job[t].row][g]
            used(g) == Consumed(t, g)
            left(g) == part(g) - used(g)
            back(g) == left(g) > 0 /\ grantState[g] = "active"
            written(g) == [Update("active", remaining[g] + left(g), left(g)) EXCEPT !.used = used(g)]
            forfeited(g) == [NoWrite EXCEPT !.used = used(g), !.gone = left(g)]
<1>1. PICK g \in todo[t] :
        /\ First(t, g)
        /\ need' = [need EXCEPT ![t] = need[t] - used(g)]
        /\ draft' = [draft EXCEPT ![t][g] = IF back(g) THEN written(g) ELSE forfeited(g)]
        /\ pc' = [pc EXCEPT ![t] = IF left(g) > 0 THEN "write" ELSE "read"]
        /\ todo' = [todo EXCEPT ![t] = IF left(g) > 0 THEN todo[t] ELSE todo[t] \ {g}]
  BY DEF Visit
<1>2. g \in Grants /\ job[t].row \in Reservations
  BY ClosingRow DEF Visit, EntriesInv, TypeInv, Types, TypeOK
<1>3. part(g) \in Nat /\ need[t] \in Nat
  BY <1>2 DEF EntriesInv, TypeInv, Types, TypeOK
<1>4. used(g) \in Nat /\ left(g) \in Nat /\ used(g) + left(g) = part(g)
  BY <1>3 DEF Consumed, Smaller
<1>5. written(g).writes /\ written(g).used = used(g) /\ written(g).delta = left(g) /\ written(g).gone = 0
  BY DEF Update, NoWrite
<1>6. /\ forfeited(g).used = used(g) /\ forfeited(g).delta = 0 /\ forfeited(g).gone = left(g)
      /\ ~forfeited(g).writes
  BY DEF NoWrite
<1>7. todo \in [Txns -> SUBSET Grants]
  BY DEF EntriesInv, TypeInv, Types, TypeOK
<1>8. part(g) = allocated[job[t].row][g] /\ used(g) = Consumed(t, g)
  OBVIOUS
<1>9. back(g) => left(g) > 0
  OBVIOUS
<1>. HIDE DEF part, used, left, back, written, forfeited
<1>10. PICK w : /\ w = IF back(g) THEN written(g) ELSE forfeited(g)
                /\ draft' = [draft EXCEPT ![t][g] = w]
  BY <1>1
<1>11. /\ w.used = used(g) /\ w.delta >= 0 /\ w.delta + w.gone = left(g)
       /\ w.writes \/ w.delta = 0
       /\ w.writes => back(g)
  <2>1. CASE back(g)
    BY <1>4, <1>5, <1>10, <2>1
  <2>2. CASE ~back(g)
    BY <1>4, <1>6, <1>10, <2>2
  <2>. QED BY <2>1, <2>2
<1>12. w.used + w.delta + w.gone = part(g)
  <2>1. w.delta \in Int /\ w.gone \in Int
    <3>1. CASE back(g)
      BY <1>4, <1>5, <1>10, <3>1
    <3>2. CASE ~back(g)
      BY <1>4, <1>6, <1>10, <3>2
    <3>. QED BY <3>1, <3>2
  <2>. QED BY <1>4, <1>11, <2>1
<1>13. CASE left(g) > 0
  <2>1. todo' = todo /\ pc' = [pc EXCEPT ![t] = "write"]
    BY <1>1, <1>7, <1>13
  <2>2. w # NoWrite
    BY <1>4, <1>11, <1>13, EmptyDrafts
  <2>3. Visits(t, g, used(g), w)
    BY <1>1, <1>2, <1>8, <1>10, <1>11, <1>12, <2>1, <2>2 DEF Visits
  <2>. QED BY <2>3
<1>14. CASE ~(left(g) > 0)
  <2>1. pc' = [pc EXCEPT ![t] = "read"] /\ todo' = [todo EXCEPT ![t] = todo[t] \ {g}]
    BY <1>1, <1>14
  <2>2. ~back(g) /\ ~w.writes
    <3>1. ~back(g)
      BY <1>9, <1>14
    <3>. QED BY <1>6, <1>10, <3>1
  <2>3. Visits(t, g, used(g), w)
    BY <1>1, <1>2, <1>8, <1>10, <1>11, <1>12, <2>1, <2>2 DEF Visits
  <2>. QED BY <2>3
<1>. QED BY <1>13, <1>14

LEMMA VisitEntries ==
  ASSUME EntriesInv, TypeInv', NEW t \in Txns, Visit(t)
  PROVE  EntriesInv'
<1>. DEFINE r == job[t].row
<1>1. PICK g, used, w : Visits(t, g, used, w)
  BY VisitParts
<1>2. /\ pc[t] = "read" /\ job[t].op \in Closes
      /\ UNCHANGED <<tables, job>>
      /\ TypeInv
  BY DEF Visit, EntriesInv
<1>3. /\ job[t].units \in Nat /\ r \in Reservations
      /\ allocated[r] \in [Grants -> Nat] /\ need[t] \in Nat
      /\ draft[t] \in [Grants -> Drafts] /\ todo[t] \subseteq Grants
  BY <1>2, ClosingRow DEF TypeInv, Types, TypeOK, Drafts, States
<1>4. /\ \A u \in Txns \ {t} : /\ pc'[u] = pc[u] /\ job'[u] = job[u] /\ todo'[u] = todo[u]
                               /\ need'[u] = need[u] /\ draft'[u] = draft[u]
      /\ draft'[t] = [draft[t] EXCEPT ![g] = w]
      /\ need'[t] = need[t] - used
      /\ job'[t] = job[t] /\ allocated' = allocated
  BY <1>1, <1>2 DEF Visits, TypeInv, Types, TypeOK, tables
<1>5. /\ g \in todo[t] /\ g \in Grants
      /\ \/ pc'[t] = "write" /\ todo'[t] = todo[t] /\ w # NoWrite /\ First(t, g)
         \/ pc'[t] = "read" /\ todo'[t] = todo[t] \ {g}
  BY <1>1, <1>2 DEF Visits, TypeInv, Types, TypeOK
<1>6. draft'[t][g] = w /\ \A h \in Grants \ {g} : draft'[t][h] = draft[t][h]
  BY <1>3, <1>4, <1>5
<1>7. \A h \in todo[t] : draft[t][h] = NoWrite
  BY <1>2 DEF EntriesInv, DraftsAddUp
<1>8. DraftsAddUp(t)'
  <2>1. Shared(t, g)'
    BY <1>1, <1>4, <1>6 DEF Shared, Visits
  <2>2. ASSUME NEW h \in Grants \ {g}
        PROVE  (h \in todo'[t] /\ draft'[t][h] = NoWrite) \/ Shared(t, h)'
    <3>1. (h \in todo[t] /\ draft[t][h] = NoWrite) \/ Shared(t, h)
      BY <1>2 DEF EntriesInv, DraftsAddUp
    <3>2. h \in todo[t] => h \in todo'[t]
      BY <1>5
    <3>. QED BY <1>4, <1>6, <3>1, <3>2 DEF Shared
  <2>3. pc'[t] = "read" => \A h \in todo'[t] : draft'[t][h] = NoWrite
    BY <1>3, <1>5, <1>6, <1>7
  <2>4. pc'[t] = "write" => /\ First(t, g)' /\ g \in todo'[t] /\ draft'[t][g] # NoWrite
                            /\ \A h \in todo'[t] \ {g} : draft'[t][h] = NoWrite
    BY <1>3, <1>4, <1>5, <1>6, <1>7 DEF First
  <2>. QED BY <1>2, <1>4, <1>5, <2>1, <2>2, <2>3, <2>4 DEF DraftsAddUp
<1>9. SettlesInFull(t)'
  <2>1. CASE job[t].op = "release"
    <3>1. w.used = 0 /\ \A h \in Grants : draft[t][h].used = 0
      BY <1>1, <1>2, <2>1 DEF Visits, Consumed, EntriesInv, SettlesInFull
    <3>. QED BY <1>4, <1>5, <1>6, <2>1, <3>1 DEF SettlesInFull
  <2>2. CASE job[t].op = "settle"
    <3>1. /\ need[t] + Total(Used(t), NumGrants) = job[t].units
          /\ need[t] <= Total(Ahead(t), NumGrants)
      BY <1>2, <2>2 DEF EntriesInv, SettlesInFull
    <3>2. /\ used = Smaller(allocated[r][g], need[t]) /\ w.used = used /\ used \in Nat
          /\ used = allocated[r][g] \/ used = need[t]
      BY <1>1, <1>3, <1>5, <2>2 DEF Visits, Consumed, Smaller
    <3>3. Total(Used(t)', NumGrants) = Total(Used(t), NumGrants) + used /\ Total(Used(t), NumGrants) \in Int
      <4>1. Used(t)[g] = 0
        BY <1>5, <1>7, EmptyDrafts DEF Used
      <4>2. Used(t)'[g] = used /\ \A h \in Grants \ {g} : Used(t)'[h] = Used(t)[h]
        BY <1>5, <1>6, <3>2 DEF Used
      <4>3. \A h \in Grants : Used(t)[h] \in Int
        BY <1>3 DEF Used, Drafts
      <4>4. DiffersAt(Used(t)', Used(t), g, NumGrants)
        BY <1>5, <3>2, <4>2, <4>3 DEF DiffersAt, Grants
      <4>. QED BY <3>2, <4>1, <4>2, <4>4, TotalUpdate, TransactionsAssumption
    <3>4. /\ Total(Ahead(t)', NumGrants) = Total(Ahead(t), NumGrants) - allocated[r][g]
          /\ Total(Ahead(t), NumGrants) \in Int /\ Total(Ahead(t)', NumGrants) \in Nat
      <4>1. Ahead(t)[g] = allocated[r][g]
        BY <1>5, <1>7 DEF Ahead
      <4>2. Ahead(t)'[g] = 0
        <5>1. ~(g \in todo'[t] /\ draft'[t][g] = NoWrite)
          BY <1>5, <1>6, EmptyDrafts
        <5>. QED BY <1>5, <5>1 DEF Ahead
      <4>3. ASSUME NEW h \in Grants \ {g} PROVE Ahead(t)'[h] = Ahead(t)[h]
        <5>1. h \in todo'[t] <=> h \in todo[t]
          BY <1>5
        <5>. QED BY <1>4, <1>6, <5>1 DEF Ahead
      <4>4. \A h \in Grants : Ahead(t)[h] \in Nat
        BY <1>3 DEF Ahead
      <4>5. \A h \in Grants : Ahead(t)'[h] \in Nat
        BY <4>2, <4>3, <4>4
      <4>6. DiffersAt(Ahead(t)', Ahead(t), g, NumGrants)
        BY <1>5, <4>3, <4>4, <4>5 DEF DiffersAt, Grants
      <4>7. Total(Ahead(t)', NumGrants) \in Nat
        <5>1. \A i \in 1 .. NumGrants : Ahead(t)'[i] \in Nat
          BY <4>5 DEF Grants
        <5>. QED BY <5>1, TotalNat, TransactionsAssumption
      <4>8. allocated[r][g] \in Nat
        BY <1>3, <1>5
      <4>9. NumGrants \in Nat
        BY TransactionsAssumption
      <4>10. Total(Ahead(t), NumGrants) \in Int
             /\ Total(Ahead(t)', NumGrants) = Total(Ahead(t), NumGrants) + (Ahead(t)'[g] - Ahead(t)[g])
        BY <4>6, <4>9, TotalUpdate
      <4>. QED BY <4>1, <4>2, <4>7, <4>8, <4>10
    <3>5. need'[t] + Total(Used(t)', NumGrants) = job[t].units
      BY <1>3, <1>4, <3>1, <3>2, <3>3
    <3>6. need'[t] <= Total(Ahead(t)', NumGrants)
      <4>1. allocated[r][g] \in Nat
        BY <1>3, <1>5
      <4>. QED BY <1>3, <1>4, <3>1, <3>2, <3>4, <4>1
    <3>. QED BY <1>4, <1>5, <2>2, <3>5, <3>6 DEF SettlesInFull
  <2>. QED BY <1>2, <2>1, <2>2 DEF Closes
<1>. QED BY <1>2, <1>4, <1>8, <1>9, InnerEntries

\* What an operation on a grant takes off it is gone from it.
LEMMA InspectEntries ==
  ASSUME EntriesInv, TypeInv', NEW t \in Txns, Inspect(t)
  PROVE  EntriesInv'
<1>1. CASE Rollback(t)
  BY <1>1, RollbackEntries
<1>2. CASE ~Rollback(t)
  <2>1. TypeInv /\ pc[t] = "read" /\ job[t].op \in GrantOps
    BY DEF EntriesInv, Inspect
  <2>2. job[t].units \in Nat
    BY <2>1, CallTypes DEF TypeInv, RowLockInv, RowTypes
  <2>3. PICK g, off, state :
          /\ g \in todo[t]
          /\ draft' = [draft EXCEPT ![t][g] = [Update(state, remaining[g] - off, -off) EXCEPT !.gone = off]]
          /\ off = 0 \/ off = remaining[g] \/ off = job[t].units
          /\ pc' = [pc EXCEPT ![t] = "write"]
          /\ UNCHANGED <<tables, job, todo, need>>
    <3>1. CASE job[t].op = "freeze"
      BY <1>2, <3>1 DEF Inspect
    <3>2. CASE job[t].op = "revoke"
      BY <1>2, <3>2 DEF Inspect
    <3>3. CASE job[t].op = "adjust"
      BY <1>2, <3>3 DEF Inspect
    <3>. QED BY <2>1, <3>1, <3>2, <3>3 DEF GrantOps
  <2>. DEFINE w == [Update(state, remaining[g] - off, -off) EXCEPT !.gone = off]
  <2>4. g \in Grants /\ off \in Nat
    BY <2>1, <2>2, <2>3 DEF TypeInv, Types, TypeOK
  <2>5. w.used = 0 /\ w.delta + w.gone = 0 /\ w # NoWrite
    <3>1. w.used = 0 /\ w.delta = -off /\ w.gone = off /\ w.writes
      BY DEF Update, NoWrite
    <3>. HIDE DEF w
    <3>2. w.delta + w.gone = 0
      BY <2>4, <3>1
    <3>3. w # NoWrite
      BY <3>1, EmptyDrafts
    <3>. QED BY <3>1, <3>2, <3>3
  <2>. HIDE DEF w
  <2>6. /\ pc'[t] = "write" /\ job'[t] = job[t] /\ todo'[t] = todo[t]
        /\ draft'[t] = [draft[t] EXCEPT ![g] = w]
        /\ \A u \in Txns \ {t} : /\ pc'[u] = pc[u] /\ job'[u] = job[u] /\ todo'[u] = todo[u]
                                 /\ need'[u] = need[u] /\ draft'[u] = draft[u]
    BY <2>1, <2>3 DEF TypeInv, Types, TypeOK, w
  <2>7. draft'[t][g] = w /\ \A h \in Grants \ {g} : draft'[t][h] = draft[t][h]
    <3>1. DOMAIN draft[t] = Grants
      BY <2>1 DEF TypeInv, Types, TypeOK
    <3>. QED BY <2>4, <2>6, <3>1
  <2>8. job[t].op \notin Closes /\ todo[t] \subseteq Grants
    BY <2>1 DEF GrantOps, Closes, TypeInv, Types, TypeOK
  <2>9. DraftsAddUp(t)'
    <3>1. /\ \A h \in todo[t] : draft[t][h] = NoWrite
          /\ \A h \in Grants : draft[t][h].used = 0 /\ draft[t][h].delta + draft[t][h].gone = 0
      BY <2>1, <2>8 DEF EntriesInv, DraftsAddUp
    <3>2. /\ g \in todo'[t] /\ draft'[t][g] # NoWrite
          /\ \A h \in todo'[t] \ {g} : draft'[t][h] = NoWrite
      BY <2>3, <2>5, <2>6, <2>7, <2>8, <3>1
    <3>3. \A h \in Grants : draft'[t][h].used = 0 /\ draft'[t][h].delta + draft'[t][h].gone = 0
      BY <2>5, <2>7, <3>1
    <3>. QED BY <2>6, <2>8, <3>2, <3>3 DEF DraftsAddUp
  <2>10. SettlesInFull(t)'
    BY <2>6, <2>8 DEF SettlesInFull, Closes
  <2>. QED BY <2>3, <2>6, <2>9, <2>10, InnerEntries
<1>. QED BY <1>1, <1>2

\* The UPDATE is done, or the entry that says what is forfeited: the draft was made
\* before.
LEMMA WriteEntries ==
  ASSUME EntriesInv, TypeInv', NEW t \in Txns, Write(t) \/ Forfeit(t)
  PROVE  EntriesInv'
<1>1. TypeInv /\ pc[t] = "write"
  BY DEF EntriesInv, Write, Forfeit
<1>2. PICK g \in todo[t] :
        /\ draft[t][g].writes \/ (job[t].op \in Closes /\ First(t, g))
        /\ todo' = [todo EXCEPT ![t] = todo[t] \ {g}]
        /\ pc' = [pc EXCEPT ![t] = "read"]
        /\ UNCHANGED <<tables, job, need, draft>>
  <2>1. CASE Write(t)
    BY <2>1 DEF Write
  <2>2. CASE Forfeit(t)
    BY <2>2 DEF Forfeit
  <2>. QED BY <2>1, <2>2
<1>3. /\ pc'[t] = "read" /\ job'[t] = job[t] /\ todo'[t] = todo[t] \ {g}
      /\ need'[t] = need[t] /\ draft'[t] = draft[t] /\ allocated' = allocated
      /\ todo[t] \subseteq Grants
      /\ \A u \in Txns \ {t} : /\ pc'[u] = pc[u] /\ job'[u] = job[u] /\ todo'[u] = todo[u]
                               /\ need'[u] = need[u] /\ draft'[u] = draft[u]
  BY <1>1, <1>2 DEF TypeInv, Types, TypeOK, tables
<1>4. PICK f \in todo[t] :
        /\ job[t].op \in Closes => First(t, f)
        /\ draft[t][f] # NoWrite
        /\ \A h \in todo[t] \ {f} : draft[t][h] = NoWrite
  BY <1>1 DEF EntriesInv, DraftsAddUp
<1>5. f = g
  <2>1. CASE draft[t][g].writes
    BY <1>4, <2>1, EmptyDrafts
  <2>2. CASE job[t].op \in Closes /\ First(t, g)
    BY <1>1, <1>3, <1>4, <2>2, ClosingRow, FirstIsOne DEF TypeInv
  <2>. QED BY <1>2, <2>1, <2>2
<1>6. DraftsAddUp(t)'
  <2>1. \A h \in Grants : Shared(t, h)' <=> Shared(t, h)
    BY <1>3 DEF Shared
  <2>2. \A h \in Grants : h \in todo[t] /\ draft[t][h] = NoWrite => h \in todo'[t]
    BY <1>3, <1>4, <1>5
  <2>. QED BY <1>1, <1>3, <1>4, <1>5, <2>1, <2>2 DEF EntriesInv, DraftsAddUp
<1>7. SettlesInFull(t)'
  <2>1. \A h \in Grants : (h \in todo'[t] /\ draft[t][h] = NoWrite) <=> (h \in todo[t] /\ draft[t][h] = NoWrite)
    BY <1>3, <1>4, <1>5
  <2>2. Ahead(t)' = Ahead(t) /\ Used(t)' = Used(t)
    BY <1>3, <2>1 DEF Ahead, Used
  <2>. QED BY <1>1, <1>3, <2>2 DEF EntriesInv, SettlesInFull
<1>. QED BY <1>2, <1>3, <1>6, <1>7, InnerEntries

-----------------------------------------------------------------------------
(* Commits *)

LEMMA DrawnEntries ==
  ASSUME TypeInv, NEW t \in Txns, DrawCommits(t)
  PROVE  \E take \in [Grants -> Nat] :
           /\ Commit(t, Drawn(t, take))
           /\ allocated' = [allocated EXCEPT ![job[t].row] = [g \in Grants |-> @[g] + take[g]]]
           /\ \A g \in Grants : Drawn(t, take)[g].delta = -take[g] /\ Drawn(t, take)[g].gone = 0
<1>1. PICK take \in Walks(t) :
        /\ Commit(t, Drawn(t, take))
        /\ allocated' = [allocated EXCEPT ![job[t].row] = [g \in Grants |-> @[g] + take[g]]]
  BY DEF DrawCommits
<1>2. take \in [Grants -> Nat]
  BY WalkTypes DEF DrawCommits
<1>3. ASSUME NEW g \in Grants
      PROVE  Drawn(t, take)[g].delta = -take[g] /\ Drawn(t, take)[g].gone = 0
  <2>1. CASE take[g] = 0
    <3>1. Drawn(t, take)[g] = NoWrite
      BY <2>1 DEF Drawn
    <3>2. NoWrite.delta = 0 /\ NoWrite.gone = 0
      BY EmptyDrafts
    <3>3. -take[g] = 0 - take[g]
      BY <1>2
    <3>4. 0 - take[g] = 0
      BY <2>1
    <3>. QED BY <3>1, <3>2, <3>3, <3>4, Zenon
  <2>2. CASE take[g] # 0
    <3>1. Drawn(t, take)[g] = Update("active", read[t][g] - take[g], -take[g])
      BY <2>2 DEF Drawn
    <3>. QED BY <3>1 DEF Update, NoWrite
  <2>. QED BY <2>1, <2>2
<1>. QED BY <1>1, <1>2, <1>3

LEMMA DrawEntries ==
  ASSUME EntriesInv, TypeInv', NEW t \in Txns, DrawCommits(t)
  PROVE  EntriesInv'
<1>1. /\ End(t) /\ rowLock[job[t].row] = t
      /\ \A r \in Reservations \ {job[t].row} : resState'[r] = resState[r] /\ allocated'[r] = allocated[r]
      /\ resState'[job[t].row] = "reserved"
      /\ consumed' = consumed
      /\ resState[job[t].row] \in {"none", "reserved"}
  BY DEF DrawCommits, Commit, HoldsRow, FoundState, EntriesInv, TypeInv, Types, TypeOK
<1>2. UnopenedRowsAreEmpty'
  BY <1>1 DEF EntriesInv, UnopenedRowsAreEmpty
<1>3. \A r \in Reservations : rowLock[r] # t => allocated'[r] = allocated[r]
  BY <1>1
<1>. QED BY <1>1, <1>2, <1>3, EndEntries

LEMMA CloseEntries ==
  ASSUME EntriesInv, TypeInv', NEW t \in Txns, CloseCommits(t)
  PROVE  EntriesInv'
<1>1. /\ End(t) /\ allocated' = allocated
      /\ \A r \in Reservations \ {job[t].row} : resState'[r] = resState[r] /\ consumed'[r] = consumed[r]
      /\ resState'[job[t].row] \in {"settled", "released"}
  BY DEF CloseCommits, EntriesInv, TypeInv, Types, TypeOK
<1>2. UnopenedRowsAreEmpty'
  BY <1>1 DEF EntriesInv, UnopenedRowsAreEmpty
<1>. QED BY <1>1, <1>2, EndEntries

LEMMA PostEntries ==
  ASSUME EntriesInv, TypeInv', NEW t \in Txns, Post(t)
  PROVE  EntriesInv'
<1>1. CASE Rollback(t)
  BY <1>1, RollbackEntries
<1>2. CASE ~Rollback(t)
  <2>1. End(t) /\ UNCHANGED <<resState, allocated, consumed>>
    BY <1>2 DEF Post, Commit
  <2>2. UnopenedRowsAreEmpty'
    BY <2>1 DEF EntriesInv, UnopenedRowsAreEmpty
  <2>. QED BY <2>1, <2>2, EndEntries
<1>. QED BY <1>1, <1>2

LEMMA NextEntries == EntriesInv /\ [Next]_vars => EntriesInv'
<1>. SUFFICES ASSUME EntriesInv, [Next]_vars PROVE EntriesInv'
  OBVIOUS
<1>1. TypeInv' /\ RowLockInv
  BY NextTypes DEF EntriesInv, TypeInv
<1>2. CASE UNCHANGED vars
  <2>1. UNCHANGED <<tables, pc, job, todo, need, draft>>
    BY <1>2 DEF vars, locals
  <2>2. UnopenedRowsAreEmpty'
    BY <2>1 DEF EntriesInv, UnopenedRowsAreEmpty, tables
  <2>3. ASSUME NEW t \in Txns PROVE DraftsAddUp(t)' /\ SettlesInFull(t)'
    BY <2>1 DEF EntriesInv, DraftsAddUp, SettlesInFull, First, Shared, Ahead, Used, tables
  <2>. QED BY <1>1, <2>2, <2>3 DEF EntriesInv
<1>3. CASE Next
  <2>1. PICK t \in Txns : Quiet(t) \/ DrawCommits(t) \/ CloseCommits(t)
    BY <1>1, <1>3, StepKinds
  <2>. QED BY <1>1, <2>1, BeginEntries, RollbackEntries, LockRowEntries, WalkEntries, VisitEntries,
              InspectEntries, WriteEntries, PostEntries, DrawEntries, CloseEntries DEF Quiet
<1>. QED BY <1>2, <1>3

\* What every allocation comes to is decided before the transaction commits.
LEMMA EntriesInvariant == Spec => []EntriesInv
BY InitEntries, NextEntries, PTL DEF Spec

-----------------------------------------------------------------------------
(* Each commit is a step of the account *)

LEMMA DrawIsHold ==
  ASSUME EntriesInv, NEW t \in Txns, DrawCommits(t)
  PROVE  Entries!Hold(job[t].row)
<1>. DEFINE r == job[t].row
<1>1. PICK take \in [Grants -> Nat] :
        /\ Commit(t, Drawn(t, take))
        /\ allocated' = [allocated EXCEPT ![job[t].row] = [g \in Grants |-> @[g] + take[g]]]
        /\ \A g \in Grants : Drawn(t, take)[g].delta = -take[g] /\ Drawn(t, take)[g].gone = 0
  BY DrawnEntries DEF EntriesInv
<1>2. /\ r \in Reservations /\ TypeInv
      /\ resState[r] \in {"none", "reserved"} /\ resState'[r] = "reserved"
      /\ \A q \in Reservations \ {r} : resState'[q] = resState[q] /\ allocated'[q] = allocated[q]
      /\ consumed' = consumed
  BY <1>1 DEF DrawCommits, HoldsRow, FoundState, EntriesInv, TypeInv, Types, TypeOK
<1>3. ASSUME NEW g \in Grants
      PROVE  /\ posted'[g] = posted[g] - take[g] /\ posted[g] \in Int /\ take[g] \in Nat
             /\ allocated'[r][g] = allocated[r][g] + take[g] /\ allocated[r][g] \in Nat
             /\ resState[r] = "none" => allocated[r][g] = 0
  <2>1. posted'[g] = posted[g] + Drawn(t, take)[g].delta /\ posted[g] \in Int /\ take[g] \in Nat
    BY <1>1, <1>2 DEF Commit, TypeInv, Types, TypeOK
  <2>2. allocated'[r][g] = allocated[r][g] + take[g] /\ allocated[r][g] \in Nat
    BY <1>1, <1>2 DEF TypeInv, Types, TypeOK
  <2>3. resState[r] = "none" => allocated[r][g] = 0
    BY <1>2 DEF EntriesInv, UnopenedRowsAreEmpty
  <2>. QED BY <1>1, <2>1, <2>2, <2>3
<1>4. writtenOff' = writtenOff
  <2>1. writtenOff \in [Grants -> Nat] /\ writtenOff' = [g \in Grants |-> writtenOff[g] + Drawn(t, take)[g].gone]
    BY <1>1, <1>2 DEF Commit, TypeInv, Types, TypeOK
  <2>2. \A g \in Grants : writtenOff[g] + Drawn(t, take)[g].gone = writtenOff[g]
    BY <1>1, <2>1
  <2>. QED BY <2>1, <2>2
<1>. HIDE DEF r
<1>5. \A g \in Grants : /\ posted'[g] <= posted[g]
                        /\ Holds'[r][g] - Holds[r][g] = posted[g] - posted'[g]
  BY <1>2, <1>3 DEF Holds, Held
<1>6. \A q \in Reservations \ {r} : Holds'[q] = Holds[q]
  BY <1>2 DEF Holds, Held
<1>7. Entries!Hold(r)
  BY <1>2, <1>4, <1>5, <1>6 DEF Entries!Hold, Entries!OnlyRowChanges, Entries!Grants, Entries!Reservations,
     Grants, Reservations
<1>. QED BY <1>7 DEF r

\* What Close commits, by the shares of its drafts.
LEMMA CloseShares ==
  ASSUME EntriesInv, NEW t \in Txns, CloseCommits(t)
  PROVE  /\ TypeInv
         /\ job[t] \in Jobs /\ job[t].op \in Closes /\ job[t].row \in Reservations
         /\ Commit(t, draft[t]) /\ allocated' = allocated
         /\ resState[job[t].row] = "reserved"
         /\ resState' = [resState EXCEPT ![job[t].row] = IF job[t].op = "settle" THEN "settled" ELSE "released"]
         /\ consumed' = [consumed EXCEPT ![job[t].row] = Used(t)]
         /\ pc[t] = "read" /\ todo[t] = {}
         /\ draft[t] \in [Grants -> Drafts]
         /\ \A g \in Grants : Shared(t, g)
<1>1. /\ TypeInv
      /\ job[t] \in Jobs /\ job[t].op \in Closes /\ job[t].row \in Reservations
      /\ Commit(t, draft[t]) /\ allocated' = allocated
      /\ resState' = [resState EXCEPT ![job[t].row] = IF job[t].op = "settle" THEN "settled" ELSE "released"]
      /\ consumed' = [consumed EXCEPT ![job[t].row] = Used(t)]
      /\ pc[t] = "read" /\ todo[t] = {}
  BY DEF EntriesInv, CloseCommits, Close, Used
<1>2. resState[job[t].row] = "reserved"
  BY <1>1 DEF CloseCommits, HoldsRow, FoundState, Closes
<1>3. \A g \in Grants : Shared(t, g)
  BY <1>1 DEF EntriesInv, DraftsAddUp
<1>4. draft[t] \in [Grants -> Drafts]
  BY <1>1 DEF TypeInv, Types, TypeOK, Drafts, States
<1>. QED BY <1>1, <1>2, <1>3, <1>4

LEMMA CloseIsClose ==
  ASSUME EntriesInv, NEW t \in Txns, CloseCommits(t)
  PROVE  Entries!Close(job[t].row)
<1>. DEFINE r == job[t].row
<1>1. /\ r \in Reservations /\ TypeInv
      /\ resState[r] = "reserved" /\ resState'[r] \in {"settled", "released"}
      /\ \A q \in Reservations \ {r} : resState'[q] = resState[q] /\ consumed'[q] = consumed[q]
      /\ consumed'[r] = Used(t)
      /\ allocated' = allocated
  BY CloseShares DEF TypeInv, Types, TypeOK
<1>2. ASSUME NEW g \in Grants
      PROVE  /\ posted'[g] = posted[g] + draft[t][g].delta /\ posted[g] \in Int
             /\ writtenOff'[g] = writtenOff[g] + draft[t][g].gone /\ writtenOff[g] \in Nat
             /\ consumed[r][g] = 0 /\ consumed'[r][g] = draft[t][g].used
  <2>1. Commit(t, draft[t])
    BY CloseShares
  <2>2. /\ posted'[g] = posted[g] + draft[t][g].delta /\ posted[g] \in Int
        /\ writtenOff'[g] = writtenOff[g] + draft[t][g].gone /\ writtenOff[g] \in Nat
    BY <1>1, <2>1 DEF Commit, TypeInv, Types, TypeOK
  <2>3. consumed[r][g] = 0 /\ consumed'[r][g] = draft[t][g].used
    BY <1>1 DEF EntriesInv, UnopenedRowsAreEmpty, Used
  <2>. QED BY <2>2, <2>3
<1>3. ASSUME NEW g \in Grants
      PROVE  /\ draft[t][g].used \in Nat /\ draft[t][g].gone \in Nat /\ draft[t][g].delta \in Int
             /\ draft[t][g].delta >= 0
             /\ draft[t][g].used + draft[t][g].delta + draft[t][g].gone = allocated[r][g]
  BY CloseShares DEF Drafts, Shared
<1>. HIDE DEF r
<1>4. ASSUME NEW g \in Grants
      PROVE  /\ Holds'[r][g] = 0 /\ Holds[r][g] = allocated[r][g]
             /\ consumed'[r][g] >= consumed[r][g] /\ posted'[g] >= posted[g] /\ writtenOff'[g] >= writtenOff[g]
             /\ (consumed'[r][g] - consumed[r][g]) + (posted'[g] - posted[g]) + (writtenOff'[g] - writtenOff[g])
                  = allocated[r][g]
  <2>1. Holds'[r][g] = 0 /\ Holds[r][g] = allocated[r][g]
    BY <1>1 DEF Holds, Held
  <2>2. /\ consumed'[r][g] >= consumed[r][g] /\ posted'[g] >= posted[g] /\ writtenOff'[g] >= writtenOff[g]
        /\ (consumed'[r][g] - consumed[r][g]) + (posted'[g] - posted[g]) + (writtenOff'[g] - writtenOff[g])
             = allocated[r][g]
    BY <1>2, <1>3
  <2>. QED BY <2>1, <2>2
<1>5. \A q \in Reservations \ {r} : Holds'[q] = Holds[q]
  BY <1>1 DEF Holds, Held
<1>6. Entries!Close(r)
  BY <1>1, <1>4, <1>5 DEF Entries!Close, Entries!OnlyRowChanges, Entries!Grants, Entries!Reservations,
     Grants, Reservations
<1>. QED BY <1>6 DEF r

LEMMA PostIsForfeit ==
  ASSUME EntriesInv, NEW t \in Txns, Post(t), ~Rollback(t)
  PROVE  Entries!Forfeit
<1>1. /\ Commit(t, draft[t]) /\ UNCHANGED <<resState, allocated, consumed>>
      /\ pc[t] = "read" /\ job[t].op \notin Closes /\ TypeInv
  BY DEF Post, GrantOps, Closes, EntriesInv
<1>2. ASSUME NEW g \in Grants
      PROVE  posted'[g] <= posted[g] /\ writtenOff'[g] - writtenOff[g] = posted[g] - posted'[g]
  <2>1. draft[t][g] \in Drafts
    BY <1>1 DEF TypeInv, Types, TypeOK, Drafts, States
  <2>2. draft[t][g].delta \in Int /\ draft[t][g].gone \in Nat
    BY <2>1 DEF Drafts
  <2>3. draft[t][g].delta + draft[t][g].gone = 0
    BY <1>1 DEF EntriesInv, DraftsAddUp
  <2>4. /\ posted'[g] = posted[g] + draft[t][g].delta /\ posted[g] \in Int
        /\ writtenOff'[g] = writtenOff[g] + draft[t][g].gone /\ writtenOff[g] \in Nat
    BY <1>1 DEF Commit, TypeInv, Types, TypeOK
  <2>. QED BY <2>2, <2>3, <2>4
<1>3. Holds' = Holds
  BY <1>1 DEF Holds, Held
<1>. QED BY <1>1, <1>2, <1>3 DEF Entries!Forfeit, Entries!Grants, Grants

LEMMA OtherStepsStutter ==
  ASSUME NEW t \in Txns, Quiet(t), ~(Post(t) /\ ~Rollback(t))
  PROVE  UNCHANGED Entries!vars /\ UNCHANGED Account!vars
<1>1. UNCHANGED <<posted, remaining, writtenOff>>
  <2>1. CASE Rollback(t)
    BY <2>1 DEF Rollback, tables
  <2>2. CASE ~Rollback(t)
    BY <2>2 DEF Quiet, Begin, LockRow, Select, LockGrant, Visit, Inspect, Write, Forfeit, tables
  <2>. QED BY <2>1, <2>2
<1>2. UNCHANGED <<resState, allocated, consumed>>
  BY QuietTables
<1>3. Holds' = Holds
  BY <1>2 DEF Holds, Held
<1>. QED BY <1>1, <1>2, <1>3 DEF Entries!vars, Account!vars

\* For any calls, any number of transactions and any interleaving: the ledger's
\* entries never lose a unit or have it twice, though a balance may.
THEOREM EntriesKeepTheAccount == Spec => EntriesKeepAccount
<1>1. EntriesInv /\ [Next]_vars => [Entries!Next]_(Entries!vars)
  <2>. SUFFICES ASSUME EntriesInv, [Next]_vars PROVE [Entries!Next]_(Entries!vars)
    OBVIOUS
  <2>1. CASE UNCHANGED vars
    <3>1. Holds' = Holds
      BY <2>1 DEF vars, tables, Holds, Held
    <3>. QED BY <2>1, <3>1 DEF vars, tables, Entries!vars
  <2>2. CASE Next
    <3>1. PICK t \in Txns : Quiet(t) \/ DrawCommits(t) \/ CloseCommits(t)
      BY <2>2, StepKinds DEF EntriesInv, TypeInv
    <3>2. CASE DrawCommits(t) \/ CloseCommits(t)
      <4>1. job[t].row \in Entries!Reservations
        BY <3>2 DEF DrawCommits, CloseCommits, Entries!Reservations, Reservations
      <4>. QED BY <3>2, <4>1, DrawIsHold, CloseIsClose DEF Entries!Next
    <3>3. CASE Quiet(t)
      BY <3>3, PostIsForfeit, OtherStepsStutter DEF Entries!Next
    <3>. QED BY <3>1, <3>2, <3>3
  <2>. QED BY <2>1, <2>2
<1>. QED BY <1>1, EntriesInvariant, PTL DEF Spec, EntriesKeepAccount

-----------------------------------------------------------------------------
(* What was issued is accounted for *)

\* What reservations hold of a grant, and what they consumed of it.
HeldOf(g) == [r \in Reservations |-> Holds[r][g]]
SpentOf(g) == [r \in Reservations |-> consumed[r][g]]

AddsUp(g) ==
  IssuedAtStart[g] = posted[g] + Total(HeldOf(g), NumReservations)
                       + Total(SpentOf(g), NumReservations) + writtenOff[g]

\* The sums of the abstract account are those of the ledger.
LEMMA SameTotal == ASSUME NEW f, NEW n PROVE Entries!Total(f, n) = Total(f, n)
BY DEF Entries!Total, Total

LEMMA SameTotalNext ==
  ASSUME NEW g \in Grants
  PROVE  /\ (Entries!HeldOf(g))' = Total(HeldOf(g)', NumReservations)
         /\ (Entries!SpentOf(g))' = Total(SpentOf(g)', NumReservations)
<1>1. Entries!Reservations = Reservations
  BY DEF Entries!Reservations, Reservations
<1>2. (Entries!HeldOf(g))' = Entries!Total(HeldOf(g)', NumReservations)
  BY <1>1 DEF Entries!HeldOf, HeldOf
<1>3. (Entries!SpentOf(g))' = Entries!Total(SpentOf(g)', NumReservations)
  BY <1>1 DEF Entries!SpentOf, SpentOf
<1>. QED BY <1>2, <1>3, SameTotal

LEMMA AddsUpIsConservation ==
  /\ EntriesAddUp <=> \A g \in Grants : AddsUp(g)
  /\ EntriesAddUp' <=> \A g \in Grants : AddsUp(g)'
<1>1. Entries!Grants = Grants /\ Entries!Reservations = Reservations
  BY DEF Entries!Grants, Grants, Entries!Reservations, Reservations
<1>2. ASSUME NEW g \in Grants
      PROVE  /\ Entries!HeldOf(g) = Total(HeldOf(g), NumReservations)
             /\ Entries!SpentOf(g) = Total(SpentOf(g), NumReservations)
  BY <1>1, SameTotal DEF Entries!HeldOf, Entries!SpentOf, HeldOf, SpentOf
<1>3. EntriesAddUp <=> \A g \in Grants : AddsUp(g)
  BY <1>1, <1>2 DEF EntriesAddUp, Entries!Conservation, AddsUp
<1>4. EntriesAddUp' <=> \A g \in Grants : AddsUp(g)'
  BY <1>1, SameTotalNext DEF EntriesAddUp, Entries!Conservation, AddsUp
<1>. QED BY <1>3, <1>4

LEMMA InitAddsUp == Init => EntriesAddUp
<1>. SUFFICES ASSUME Init, NEW g \in Grants PROVE AddsUp(g)
  BY AddsUpIsConservation
<1>. DEFINE start == [r \in Reservations |-> HeldAtStart[r][g]]
<1>1. ASSUME NEW r \in Reservations PROVE Holds[r][g] = HeldAtStart[r][g]
  <2>1. HeldAtStart[r][g] \in Nat
    BY TransactionsAssumption
  <2>. QED BY <2>1 DEF Init, HasUnits, Holds, Held
<1>2. HeldOf(g) = start
  BY <1>1 DEF HeldOf
<1>3. Total(SpentOf(g), NumReservations) = 0
  <2>1. \A i \in 1 .. NumReservations : SpentOf(g)[i] = 0
    BY DEF Init, SpentOf, Reservations
  <2>. QED BY <2>1, TotalZero, TransactionsAssumption
<1>4. Total(start, NumReservations) \in Nat
  <2>1. \A i \in 1 .. NumReservations : start[i] \in Nat
    BY TransactionsAssumption DEF Reservations
  <2>. HIDE DEF start
  <2>. QED BY <2>1, TotalNat, TransactionsAssumption
<1>5. IssuedAtStart[g] = Balance[g] + Total(start, NumReservations)
  BY DEF IssuedAtStart
<1>6. posted[g] = Balance[g] /\ writtenOff[g] = 0 /\ Balance[g] \in Nat
  BY TransactionsAssumption DEF Init
<1>. HIDE DEF start
<1>. QED BY <1>2, <1>3, <1>4, <1>5, <1>6 DEF AddsUp

\* What the totals of a grant do when one row changes.
LEMMA RowTotals ==
  ASSUME EntriesInv, EntriesInv', NEW r \in Reservations, NEW g \in Grants,
         \A q \in Reservations \ {r} : Holds'[q] = Holds[q] /\ consumed'[q] = consumed[q]
  PROVE  /\ Total(HeldOf(g), NumReservations) \in Int /\ Total(SpentOf(g), NumReservations) \in Int
         /\ Total(HeldOf(g)', NumReservations) = Total(HeldOf(g), NumReservations) + (Holds'[r][g] - Holds[r][g])
         /\ Total(SpentOf(g)', NumReservations)
              = Total(SpentOf(g), NumReservations) + (consumed'[r][g] - consumed[r][g])
         /\ Holds[r][g] \in Nat /\ Holds'[r][g] \in Nat /\ consumed[r][g] \in Nat /\ consumed'[r][g] \in Nat
<1>1. /\ allocated \in [Reservations -> [Grants -> Nat]] /\ consumed \in [Reservations -> [Grants -> Nat]]
      /\ allocated' \in [Reservations -> [Grants -> Nat]] /\ consumed' \in [Reservations -> [Grants -> Nat]]
  BY DEF EntriesInv, TypeInv, Types, TypeOK
<1>2. \A q \in Reservations : /\ Holds[q][g] \in Nat /\ Holds'[q][g] \in Nat
                              /\ consumed[q][g] \in Nat /\ consumed'[q][g] \in Nat
  BY <1>1 DEF Holds, Held
<1>3. NumReservations \in Nat
  BY TransactionsAssumption
<1>4. DiffersAt(HeldOf(g)', HeldOf(g), r, NumReservations)
  BY <1>2 DEF DiffersAt, HeldOf, Reservations
<1>5. DiffersAt(SpentOf(g)', SpentOf(g), r, NumReservations)
  BY <1>2 DEF DiffersAt, SpentOf, Reservations
<1>6. /\ Total(HeldOf(g), NumReservations) \in Int
      /\ Total(HeldOf(g)', NumReservations) = Total(HeldOf(g), NumReservations) + (HeldOf(g)'[r] - HeldOf(g)[r])
  BY <1>3, <1>4, TotalUpdate
<1>7. /\ Total(SpentOf(g), NumReservations) \in Int
      /\ Total(SpentOf(g)', NumReservations) = Total(SpentOf(g), NumReservations) + (SpentOf(g)'[r] - SpentOf(g)[r])
  BY <1>3, <1>5, TotalUpdate
<1>8. /\ HeldOf(g)'[r] = Holds'[r][g] /\ HeldOf(g)[r] = Holds[r][g]
      /\ SpentOf(g)'[r] = consumed'[r][g] /\ SpentOf(g)[r] = consumed[r][g]
  BY DEF HeldOf, SpentOf
<1>. QED BY <1>2, <1>6, <1>7, <1>8

\* A step of the account moves units between the places and makes none.
LEMMA RowStepAddsUp ==
  ASSUME EntriesInv, EntriesInv', EntriesAddUp, NEW r \in Reservations, Entries!Hold(r) \/ Entries!Close(r)
  PROVE  EntriesAddUp'
<1>. SUFFICES ASSUME NEW g \in Grants PROVE AddsUp(g)'
  BY AddsUpIsConservation
<1>1. AddsUp(g)
  BY AddsUpIsConservation
<1>2. /\ posted[g] \in Int /\ posted'[g] \in Int /\ writtenOff[g] \in Nat /\ writtenOff'[g] \in Nat
  BY DEF EntriesInv, TypeInv, Types, TypeOK
<1>3. \A q \in Reservations \ {r} : Holds'[q] = Holds[q] /\ consumed'[q] = consumed[q]
  BY DEF Entries!Hold, Entries!Close, Entries!OnlyRowChanges, Entries!Reservations, Reservations
<1>4. (posted'[g] - posted[g]) + (Holds'[r][g] - Holds[r][g]) + (consumed'[r][g] - consumed[r][g])
        + (writtenOff'[g] - writtenOff[g]) = 0
  <2>1. /\ Holds[r][g] \in Nat /\ Holds'[r][g] \in Nat /\ consumed[r][g] \in Nat /\ consumed'[r][g] \in Nat
    BY <1>3, RowTotals
  <2>2. CASE Entries!Hold(r)
    <3>1. /\ Holds'[r][g] - Holds[r][g] = posted[g] - posted'[g]
          /\ consumed'[r][g] = consumed[r][g] /\ writtenOff'[g] = writtenOff[g]
      BY <2>2 DEF Entries!Hold, Entries!Grants, Grants
    <3>. QED BY <1>2, <2>1, <3>1
  <2>3. CASE Entries!Close(r)
    <3>1. /\ Holds'[r][g] = 0
          /\ (consumed'[r][g] - consumed[r][g]) + (posted'[g] - posted[g]) + (writtenOff'[g] - writtenOff[g])
               = Holds[r][g]
      BY <2>3 DEF Entries!Close, Entries!Grants, Grants
    <3>. QED BY <1>2, <2>1, <3>1
  <2>. QED BY <2>2, <2>3
<1>5. IssuedAtStart' = IssuedAtStart
  BY DEF IssuedAtStart
<1>. DEFINE held == Total(HeldOf(g), NumReservations)
            spent == Total(SpentOf(g), NumReservations)
<1>6. /\ held \in Int /\ spent \in Int
      /\ Total(HeldOf(g)', NumReservations) = held + (Holds'[r][g] - Holds[r][g])
      /\ Total(SpentOf(g)', NumReservations) = spent + (consumed'[r][g] - consumed[r][g])
      /\ Holds[r][g] \in Nat /\ Holds'[r][g] \in Nat /\ consumed[r][g] \in Nat /\ consumed'[r][g] \in Nat
  BY <1>3, RowTotals
<1>7. IssuedAtStart[g] = posted[g] + held + spent + writtenOff[g]
  BY <1>1 DEF AddsUp
<1>. HIDE DEF held, spent
<1>8. IssuedAtStart[g] = posted'[g] + (held + (Holds'[r][g] - Holds[r][g]))
                           + (spent + (consumed'[r][g] - consumed[r][g])) + writtenOff'[g]
  BY <1>2, <1>4, <1>6, <1>7
<1>. QED BY <1>5, <1>6, <1>8 DEF AddsUp

LEMMA ForfeitAddsUp ==
  ASSUME EntriesInv, EntriesInv', EntriesAddUp, Entries!Forfeit
  PROVE  EntriesAddUp'
<1>. SUFFICES ASSUME NEW g \in Grants PROVE AddsUp(g)'
  BY AddsUpIsConservation
<1>1. AddsUp(g) /\ IssuedAtStart' = IssuedAtStart
  BY AddsUpIsConservation DEF IssuedAtStart
<1>2. /\ posted[g] \in Int /\ posted'[g] \in Int /\ writtenOff[g] \in Nat /\ writtenOff'[g] \in Nat
  BY DEF EntriesInv, TypeInv, Types, TypeOK
<1>3. writtenOff'[g] - writtenOff[g] = posted[g] - posted'[g]
  BY DEF Entries!Forfeit, Entries!Grants, Grants
<1>4. HeldOf(g)' = HeldOf(g) /\ SpentOf(g)' = SpentOf(g)
  BY DEF Entries!Forfeit, HeldOf, SpentOf
<1>. DEFINE held == Total(HeldOf(g), NumReservations)
            spent == Total(SpentOf(g), NumReservations)
<1>5. held \in Int /\ spent \in Int
  <2>1. /\ allocated \in [Reservations -> [Grants -> Nat]] /\ consumed \in [Reservations -> [Grants -> Nat]]
    BY DEF EntriesInv, TypeInv, Types, TypeOK
  <2>2. \A i \in 1 .. NumReservations : HeldOf(g)[i] \in Nat /\ SpentOf(g)[i] \in Nat
    BY <2>1 DEF HeldOf, SpentOf, Holds, Held, Reservations
  <2>3. held \in Nat
    BY <2>2, TotalNat, TransactionsAssumption
  <2>4. spent \in Nat
    BY <2>2, TotalNat, TransactionsAssumption
  <2>. QED BY <2>3, <2>4
<1>6. IssuedAtStart[g] = posted[g] + held + spent + writtenOff[g]
  BY <1>1 DEF AddsUp
<1>7. Total(HeldOf(g)', NumReservations) = held /\ Total(SpentOf(g)', NumReservations) = spent
  BY <1>4
<1>. HIDE DEF held, spent
<1>8. IssuedAtStart[g] = posted'[g] + held + spent + writtenOff'[g]
  <2>1. posted'[g] = posted[g] + writtenOff[g] - writtenOff'[g]
    BY <1>2, <1>3
  <2>. QED BY <1>2, <1>5, <1>6, <2>1
<1>. QED BY <1>1, <1>7, <1>8 DEF AddsUp

\* A step that moves nothing.
LEMMA StillAddsUp ==
  ASSUME EntriesAddUp, UNCHANGED Entries!vars
  PROVE  EntriesAddUp'
<1>1. /\ \A g \in Grants : HeldOf(g)' = HeldOf(g) /\ SpentOf(g)' = SpentOf(g)
      /\ UNCHANGED <<posted, writtenOff>> /\ IssuedAtStart' = IssuedAtStart
  BY DEF Entries!vars, HeldOf, SpentOf, IssuedAtStart
<1>2. \A g \in Grants : AddsUp(g)'
  BY <1>1, AddsUpIsConservation DEF AddsUp
<1>. QED BY <1>2, AddsUpIsConservation

\* At statement granularity, for every mix of calls, crash and retry: no unit of a
\* grant is lost or in two places in the ledger.
THEOREM LedgerEntriesAddUp == Spec => []EntriesAddUp
<1>1. EntriesInv /\ EntriesInv' /\ EntriesAddUp /\ [Next]_vars => EntriesAddUp'
  <2>. SUFFICES ASSUME EntriesInv, EntriesInv', EntriesAddUp, [Next]_vars PROVE EntriesAddUp'
    OBVIOUS
  <2>1. CASE UNCHANGED vars
    <3>1. Holds' = Holds
      BY <2>1 DEF vars, tables, Holds, Held
    <3>2. IssuedAtStart' = IssuedAtStart
      BY DEF IssuedAtStart
    <3>3. UNCHANGED Entries!vars
      BY <2>1, <3>1, <3>2 DEF vars, tables, Entries!vars
    <3>. QED BY <3>3, StillAddsUp
  <2>2. CASE Next
    <3>1. PICK t \in Txns : Quiet(t) \/ DrawCommits(t) \/ CloseCommits(t)
      BY <2>2, StepKinds DEF EntriesInv, TypeInv
    <3>2. CASE DrawCommits(t) \/ CloseCommits(t)
      <4>1. job[t].row \in Reservations
        BY <3>2 DEF DrawCommits, CloseCommits
      <4>. QED BY <3>2, <4>1, DrawIsHold, CloseIsClose, RowStepAddsUp
    <3>3. CASE Quiet(t)
      BY <3>3, PostIsForfeit, OtherStepsStutter, ForfeitAddsUp, StillAddsUp
    <3>. QED BY <3>1, <3>2, <3>3
  <2>. QED BY <2>1, <2>2
<1>. QED BY <1>1, InitAddsUp, EntriesInvariant, PTL DEF Spec

-----------------------------------------------------------------------------
(* What a closed reservation consumed *)

\* A settlement that has come to every allocation has consumed what it said.
LEMMA ClosedInFull ==
  ASSUME EntriesInv, NEW t \in Txns, CloseCommits(t)
  PROVE  Total(Used(t), NumGrants) = IF job[t].op = "settle" THEN job[t].units ELSE 0
<1>1. /\ TypeInv /\ job[t] \in Jobs /\ job[t].op \in Closes /\ pc[t] = "read" /\ todo[t] = {}
      /\ draft[t] \in [Grants -> Drafts]
  BY CloseShares
<1>2. CASE job[t].op = "settle"
  <2>1. /\ need[t] + Total(Used(t), NumGrants) = job[t].units
        /\ need[t] <= Total(Ahead(t), NumGrants)
    BY <1>1, <1>2 DEF EntriesInv, SettlesInFull
  <2>2. Total(Ahead(t), NumGrants) = 0
    <3>1. \A i \in 1 .. NumGrants : Ahead(t)[i] = 0
      BY <1>1 DEF Ahead, Grants
    <3>. QED BY <3>1, TotalZero, TransactionsAssumption
  <2>3. Total(Used(t), NumGrants) \in Nat
    <3>1. \A i \in 1 .. NumGrants : Used(t)[i] \in Nat
      BY <1>1 DEF Used, Drafts, Grants
    <3>. QED BY <3>1, TotalNat, TransactionsAssumption
  <2>4. need[t] \in Nat
    BY <1>1 DEF TypeInv, Types, TypeOK
  <2>5. need[t] = 0
    BY <2>1, <2>2, <2>4
  <2>. QED BY <1>2, <2>1, <2>3, <2>5
<1>3. CASE job[t].op = "release"
  <2>1. \A i \in 1 .. NumGrants : Used(t)[i] = 0
    BY <1>1, <1>3 DEF EntriesInv, SettlesInFull, Used, Grants
  <2>2. Total(Used(t), NumGrants) = 0
    BY <2>1, TotalZero, TransactionsAssumption
  <2>. QED BY <1>3, <2>2
<1>. QED BY <1>1, <1>2, <1>3 DEF Closes

LEMMA CloseIsClosedBy ==
  ASSUME EntriesInv, NEW t \in Txns, CloseCommits(t)
  PROVE  ClosedBy(job[t], job[t].row)
<1>. DEFINE r == job[t].row
<1>1. /\ job[t].op \in Closes /\ r \in Reservations /\ TypeInv
      /\ Commit(t, draft[t])
      /\ resState' = [resState EXCEPT ![r] = IF job[t].op = "settle" THEN "settled" ELSE "released"]
      /\ consumed' = [consumed EXCEPT ![r] = Used(t)]
  BY CloseShares
<1>2. /\ resState'[r] = IF job[t].op = "settle" THEN "settled" ELSE "released"
      /\ consumed'[r] = Used(t)
  BY <1>1 DEF TypeInv, Types, TypeOK
<1>3. job[t].key \in keys'
  BY <1>1 DEF Commit
<1>4. ASSUME NEW g \in Grants PROVE Used(t)[g] <= allocated[r][g]
  <2>1. /\ draft[t][g].used \in Nat /\ draft[t][g].gone \in Nat /\ draft[t][g].delta \in Int
        /\ draft[t][g].delta >= 0
        /\ draft[t][g].used + draft[t][g].delta + draft[t][g].gone = allocated[r][g]
    BY CloseShares DEF Drafts, Shared
  <2>2. Used(t)[g] = draft[t][g].used
    BY DEF Used
  <2>. QED BY <2>1, <2>2
<1>. QED BY <1>1, <1>2, <1>3, <1>4, ClosedInFull DEF ClosedBy

\* One call closes a reservation, for any number of calls that compete for it: it
\* consumes in total what it said, of no grant more than was allocated there, and
\* nothing about the reservation changes again.
THEOREM ClosedRowsAreFinal == Spec => ClosedOnce
<1>. DEFINE Final(r) == /\ resState[r] = "reserved" /\ resState'[r] # "reserved" => \E j \in Jobs : ClosedBy(j, r)
                        /\ resState[r] \in {"settled", "released"} =>
                             /\ resState'[r] = resState[r]
                             /\ allocated'[r] = allocated[r]
                             /\ consumed'[r] = consumed[r]
<1>1. ASSUME EntriesInv, Next, NEW r \in Reservations PROVE Final(r)
  <2>1. PICK t \in Txns : Quiet(t) \/ DrawCommits(t) \/ CloseCommits(t)
    BY <1>1, StepKinds DEF EntriesInv, TypeInv
  <2>2. /\ resState \in [Reservations -> {"none", "reserved", "settled", "released"}]
        /\ DOMAIN allocated = Reservations /\ DOMAIN consumed = Reservations
    BY <1>1 DEF EntriesInv, TypeInv, Types, TypeOK
  <2>3. CASE Quiet(t)
    BY <2>3, QuietTables
  <2>4. CASE DrawCommits(t)
    <3>1. \/ r # job[t].row /\ UNCHANGED <<resState[r], allocated[r], consumed>>
          \/ resState[r] \in {"none", "reserved"} /\ resState'[r] = "reserved"
      BY <2>2, <2>4 DEF DrawCommits, HoldsRow, FoundState
    <3>. QED BY <3>1
  <2>5. CASE CloseCommits(t) /\ r = job[t].row
    <3>1. ClosedBy(job[t], r) /\ job[t] \in Jobs /\ resState[r] = "reserved"
      BY <1>1, <2>5, CloseIsClosedBy, CloseShares
    <3>. QED BY <3>1
  <2>6. CASE CloseCommits(t) /\ r # job[t].row
    BY <2>2, <2>6 DEF CloseCommits
  <2>. QED BY <2>1, <2>3, <2>4, <2>5, <2>6
<1>2. EntriesInv /\ [Next]_vars => [\A r \in Reservations : Final(r)]_vars
  BY <1>1
<1>. QED BY <1>2, EntriesInvariant, PTL DEF Spec, ClosedOnce

-----------------------------------------------------------------------------
(* Where the balances go wrong *)

\* Who updates a grant has it locked, or is about to wait for the lock; who does
\* not update it posts nothing to it.
WrittenUnderLock(t, g) ==
  IF draft[t][g].writes THEN grantLock[g] = t \/ (pc[t] = "write" /\ g \in todo[t])
  ELSE draft[t][g].delta = 0

\* Walks read under locks that every update respects, whoever makes it.
GrantLockInv ==
  /\ EntriesInv
  /\ ReadsAreCurrent
  /\ \A t \in Txns : \A g \in Grants : WrittenUnderLock(t, g)

LEMMA InitGrantLocks == Init => GrantLockInv
<1>. SUFFICES ASSUME Init PROVE GrantLockInv
  OBVIOUS
<1>1. EntriesInv
  BY InitEntries
<1>2. ReadsAreCurrent
  BY DEF Init, ReadsAreCurrent, NothingRead
<1>3. \A t \in Txns : \A g \in Grants : WrittenUnderLock(t, g)
  BY EmptyDrafts DEF Init, WrittenUnderLock
<1>. QED BY <1>1, <1>2, <1>3 DEF GrantLockInv

\* A transaction that ends, having updated no grant but those it has locked.
LEMMA EndGrantLocks ==
  ASSUME GrantLockInv, EntriesInv', NEW t \in Txns, End(t),
         \A g \in Grants : remaining'[g] # remaining[g] => grantLock[g] = t
  PROVE  GrantLockInv'
<1>1. DOMAIN read = Txns /\ TypeOK
  BY DEF GrantLockInv, EntriesInv, TypeInv, Types
<1>2. ReadsAreCurrent'
  <2>. SUFFICES ASSUME NEW u \in Txns, NEW g \in DOMAIN read'[u]
                PROVE  g \in Grants /\ grantLock'[g] = u /\ read'[u][g] = remaining'[g]
    BY DEF ReadsAreCurrent
  <2>1. u # t /\ read'[u] = read[u]
    BY <1>1 DEF End, NothingRead
  <2>2. g \in Grants /\ grantLock[g] = u /\ read[u][g] = remaining[g]
    BY <2>1 DEF GrantLockInv, ReadsAreCurrent
  <2>3. grantLock'[g] = u /\ remaining'[g] = remaining[g]
    BY <2>1, <2>2 DEF End
  <2>. QED BY <2>1, <2>2, <2>3
<1>3. ASSUME NEW u \in Txns, NEW g \in Grants PROVE WrittenUnderLock(u, g)'
  <2>1. CASE u = t
    <3>1. draft'[t][g] = NoWrite
      BY <1>1, EmptyDrafts DEF End, TypeOK
    <3>. QED BY <2>1, <3>1, EmptyDrafts DEF WrittenUnderLock
  <2>2. CASE u # t
    <3>1. /\ draft'[u] = draft[u] /\ pc'[u] = pc[u] /\ todo'[u] = todo[u]
          /\ grantLock[g] = u => grantLock'[g] = u
      BY <1>1, <2>2 DEF End, TypeOK
    <3>. QED BY <3>1 DEF GrantLockInv, WrittenUnderLock
  <2>. QED BY <2>1, <2>2
<1>. QED BY <1>2, <1>3 DEF GrantLockInv

\* A step within t that takes no lock from anybody.
LEMMA InnerGrantLocks ==
  ASSUME GrantLockInv, EntriesInv', NEW t \in Txns, ReadsAreCurrent',
         \A u \in Txns \ {t} : pc'[u] = pc[u] /\ todo'[u] = todo[u] /\ draft'[u] = draft[u],
         \A u \in Txns, g \in Grants : grantLock[g] = u => grantLock'[g] = u,
         \A g \in Grants : WrittenUnderLock(t, g)'
  PROVE  GrantLockInv'
<1>1. ASSUME NEW u \in Txns \ {t}, NEW g \in Grants PROVE WrittenUnderLock(u, g)'
  BY DEF GrantLockInv, WrittenUnderLock
<1>. QED BY <1>1 DEF GrantLockInv

\* Before a call reads or writes a grant it has drafted nothing.
LEMMA EarlyGrantLocks ==
  ASSUME GrantLockInv, EntriesInv', NEW t \in Txns, ReadsAreCurrent',
         pc[t] \notin {"read", "write"}, draft' = draft,
         \A u \in Txns \ {t} : pc'[u] = pc[u] /\ todo'[u] = todo[u],
         \A u \in Txns, g \in Grants : grantLock[g] = u => grantLock'[g] = u
  PROVE  GrantLockInv'
<1>1. draft[t] = NoDraft
  BY DEF GrantLockInv, EntriesInv, DraftsAddUp
<1>2. \A g \in Grants : WrittenUnderLock(t, g)'
  BY <1>1, EmptyDrafts DEF WrittenUnderLock
<1>. QED BY <1>2, InnerGrantLocks

\* A step that reads, locks and updates no grant.
LEMMA SameReads ==
  ASSUME GrantLockInv, UNCHANGED <<tables, read, grantLock>>
  PROVE  ReadsAreCurrent'
BY DEF GrantLockInv, ReadsAreCurrent, tables

LEMMA LockGrantGrantLocks ==
  ASSUME GrantLockInv, EntriesInv', NEW t \in Txns, LockGrant(t)
  PROVE  GrantLockInv'
<1>1. TypeOK /\ DOMAIN read = Txns
  BY DEF GrantLockInv, EntriesInv, TypeInv, Types
<1>2. PICK h \in todo[t] :
        /\ grantLock[h] = Nobody
        /\ grantLock' = [grantLock EXCEPT ![h] = t]
        /\ todo' = [todo EXCEPT ![t] = todo[t] \ {h}]
        /\ read' = IF grantState[h] # "active" THEN read
                   ELSE [read EXCEPT ![t] =
                          [i \in DOMAIN read[t] \cup {h} |-> IF i = h THEN remaining[h] ELSE read[t][i]]]
  BY DEF LockGrant
<1>3. /\ h \in Grants /\ pc[t] = "lock" /\ UNCHANGED <<pc, remaining, draft>>
      /\ \A u \in Txns \ {t} : todo'[u] = todo[u]
  BY <1>1, <1>2 DEF LockGrant, tables, TypeOK
<1>4. \A u \in Txns, g \in Grants : grantLock[g] = u => grantLock'[g] = u
  BY <1>1, <1>2, <1>3, TransactionsAssumption DEF TypeOK
<1>5. ReadsAreCurrent'
  <2>. SUFFICES ASSUME NEW u \in Txns, NEW g \in DOMAIN read'[u]
                PROVE  g \in Grants /\ grantLock'[g] = u /\ read'[u][g] = remaining'[g]
    BY DEF ReadsAreCurrent
  <2>1. CASE g \in DOMAIN read[u]
    <3>1. g \in Grants /\ grantLock[g] = u /\ read[u][g] = remaining[g]
      BY <2>1 DEF GrantLockInv, ReadsAreCurrent
    <3>2. g # h
      BY <1>2, <3>1, TransactionsAssumption
    <3>3. read'[u][g] = read[u][g]
      BY <1>1, <1>2, <2>1, <3>2
    <3>. QED BY <1>3, <1>4, <3>1, <3>3
  <2>2. CASE g \notin DOMAIN read[u]
    <3>1. u = t /\ g = h /\ read'[u][g] = remaining[h]
      BY <1>1, <1>2, <2>2
    <3>2. grantLock'[h] = t
      BY <1>1, <1>2, <1>3 DEF TypeOK
    <3>. QED BY <1>3, <3>1, <3>2
  <2>. QED BY <2>1, <2>2
<1>. QED BY <1>3, <1>4, <1>5, EarlyGrantLocks

LEMMA VisitGrantLocks ==
  ASSUME GrantLockInv, EntriesInv', NEW t \in Txns, Visit(t)
  PROVE  GrantLockInv'
<1>1. PICK g, used, w : Visits(t, g, used, w)
  BY VisitParts DEF GrantLockInv
<1>2. /\ pc[t] = "read" /\ UNCHANGED <<tables, read, grantLock>>
      /\ TypeOK
  BY DEF Visit, GrantLockInv, EntriesInv, TypeInv, Types
<1>3. /\ \A u \in Txns \ {t} : pc'[u] = pc[u] /\ todo'[u] = todo[u] /\ draft'[u] = draft[u]
      /\ g \in Grants /\ g \in todo[t]
      /\ draft'[t] = [draft[t] EXCEPT ![g] = w] /\ DOMAIN draft[t] = Grants
      /\ w.writes => pc'[t] = "write" /\ todo'[t] = todo[t]
      /\ w.writes \/ w.delta = 0
  BY <1>1, <1>2 DEF Visits, TypeOK
<1>4. ASSUME NEW h \in Grants PROVE WrittenUnderLock(t, h)'
  <2>1. CASE h = g
    <3>1. draft'[t][h] = w
      BY <1>3, <2>1
    <3>. QED BY <1>3, <2>1, <3>1 DEF WrittenUnderLock
  <2>2. CASE h # g
    <3>1. draft'[t][h] = draft[t][h]
      BY <1>3, <2>2
    <3>. QED BY <1>2, <3>1 DEF GrantLockInv, WrittenUnderLock
  <2>. QED BY <2>1, <2>2
<1>. QED BY <1>2, <1>3, <1>4, SameReads, InnerGrantLocks

LEMMA InspectGrantLocks ==
  ASSUME GrantLockInv, EntriesInv', NEW t \in Txns, Inspect(t), ~Rollback(t)
  PROVE  GrantLockInv'
<1>1. PICK g, off, state :
        /\ g \in todo[t]
        /\ draft' = [draft EXCEPT ![t][g] = [Update(state, remaining[g] - off, -off) EXCEPT !.gone = off]]
        /\ pc' = [pc EXCEPT ![t] = "write"]
        /\ UNCHANGED <<tables, todo, read, grantLock>>
  <2>1. job[t].op \in {"freeze", "revoke", "adjust"}
    BY DEF Inspect, GrantOps
  <2>2. CASE job[t].op = "freeze"
    BY <2>2 DEF Inspect
  <2>3. CASE job[t].op = "revoke"
    BY <2>3 DEF Inspect
  <2>4. CASE job[t].op = "adjust"
    BY <2>4 DEF Inspect
  <2>. QED BY <2>1, <2>2, <2>3, <2>4
<1>. DEFINE w == [Update(state, remaining[g] - off, -off) EXCEPT !.gone = off]
<1>2. w.writes
  BY DEF Update, NoWrite
<1>. HIDE DEF w
<1>3. TypeOK /\ pc[t] = "read"
  BY DEF Inspect, GrantLockInv, EntriesInv, TypeInv, Types
<1>4. /\ \A u \in Txns \ {t} : pc'[u] = pc[u] /\ todo'[u] = todo[u] /\ draft'[u] = draft[u]
      /\ g \in Grants /\ g \in todo'[t] /\ pc'[t] = "write"
      /\ draft'[t] = [draft[t] EXCEPT ![g] = w] /\ DOMAIN draft[t] = Grants
  BY <1>1, <1>3 DEF TypeOK, w
<1>5. ASSUME NEW h \in Grants PROVE WrittenUnderLock(t, h)'
  <2>1. CASE h = g
    <3>1. draft'[t][h] = w
      BY <1>4, <2>1
    <3>. QED BY <1>2, <1>4, <2>1, <3>1 DEF WrittenUnderLock
  <2>2. CASE h # g
    <3>1. draft'[t][h] = draft[t][h]
      BY <1>4, <2>2
    <3>. QED BY <1>1, <1>3, <3>1 DEF GrantLockInv, WrittenUnderLock
  <2>. QED BY <2>1, <2>2
<1>. QED BY <1>1, <1>4, <1>5, SameReads, InnerGrantLocks

LEMMA WriteGrantLocks ==
  ASSUME GrantLockInv, EntriesInv', NEW t \in Txns, Write(t)
  PROVE  GrantLockInv'
<1>1. PICK g \in todo[t] :
        /\ draft[t][g].writes
        /\ grantLock[g] = Nobody
        /\ grantLock' = [grantLock EXCEPT ![g] = t]
        /\ todo' = [todo EXCEPT ![t] = todo[t] \ {g}]
  BY DEF Write
<1>2. /\ TypeOK /\ pc[t] = "write" /\ pc' = [pc EXCEPT ![t] = "read"]
      /\ UNCHANGED <<tables, read, draft>>
  BY DEF Write, GrantLockInv, EntriesInv, TypeInv, Types
<1>3. /\ g \in Grants /\ grantLock'[g] = t
      /\ \A u \in Txns \ {t} : pc'[u] = pc[u] /\ todo'[u] = todo[u]
  BY <1>1, <1>2 DEF TypeOK
<1>4. \A u \in Txns, h \in Grants : grantLock[h] = u => grantLock'[h] = u
  BY <1>1, <1>2, <1>3, TransactionsAssumption DEF TypeOK
<1>5. ReadsAreCurrent'
  BY <1>2, <1>4 DEF GrantLockInv, ReadsAreCurrent, tables
<1>6. \A h \in todo[t] \ {g} : draft[t][h] = NoWrite
  <2>1. PICK f \in todo[t] : \A h \in todo[t] \ {f} : draft[t][h] = NoWrite
    BY <1>2 DEF GrantLockInv, EntriesInv, DraftsAddUp
  <2>. QED BY <1>1, <2>1, EmptyDrafts
<1>7. ASSUME NEW h \in Grants PROVE WrittenUnderLock(t, h)'
  <2>1. draft[t][h].writes /\ h # g => grantLock[h] = t
    BY <1>6, EmptyDrafts DEF GrantLockInv, WrittenUnderLock
  <2>. QED BY <1>2, <1>3, <1>4, <2>1 DEF GrantLockInv, WrittenUnderLock
<1>. QED BY <1>2, <1>3, <1>4, <1>5, <1>7, InnerGrantLocks

\* What is forfeited updates no grant.
LEMMA ForfeitGrantLocks ==
  ASSUME GrantLockInv, EntriesInv', NEW t \in Txns, Forfeit(t)
  PROVE  GrantLockInv'
<1>1. PICK g \in todo[t] :
        /\ First(t, g) /\ ~draft[t][g].writes
        /\ todo' = [todo EXCEPT ![t] = todo[t] \ {g}]
  BY DEF Forfeit
<1>2. /\ TypeInv /\ TypeOK /\ pc[t] = "write" /\ pc' = [pc EXCEPT ![t] = "read"]
      /\ job[t].op \in Closes
      /\ UNCHANGED <<tables, read, draft, grantLock>>
  BY DEF Forfeit, GrantLockInv, EntriesInv, TypeInv, Types
<1>3. \A u \in Txns \ {t} : pc'[u] = pc[u] /\ todo'[u] = todo[u]
  BY <1>1, <1>2 DEF TypeOK
<1>4. PICK f \in todo[t] : First(t, f) /\ \A h \in todo[t] \ {f} : draft[t][h] = NoWrite
  BY <1>2 DEF GrantLockInv, EntriesInv, DraftsAddUp
<1>5. f = g
  BY <1>1, <1>2, <1>4, ClosingRow, FirstIsOne DEF TypeInv, TypeOK
<1>6. ASSUME NEW h \in Grants PROVE WrittenUnderLock(t, h)'
  <2>1. draft[t][h].writes => grantLock[h] = t
    BY <1>1, <1>4, <1>5, EmptyDrafts DEF GrantLockInv, WrittenUnderLock
  <2>. QED BY <1>2, <2>1 DEF GrantLockInv, WrittenUnderLock
<1>. QED BY <1>2, <1>3, <1>6, SameReads, InnerGrantLocks

\* With every grant visited, all that a call is about to update is locked.
LEMMA WritesAreLocked ==
  ASSUME GrantLockInv, NEW t \in Txns, pc[t] = "read", Commit(t, draft[t]), NEW g \in Grants
  PROVE  remaining'[g] # remaining[g] => grantLock[g] = t
BY DEF GrantLockInv, WrittenUnderLock, Commit

\* What a walk takes off a grant is taken off the balance that is there.
LEMMA DrawnBalances ==
  ASSUME GrantLockInv, NEW t \in Txns, DrawCommits(t)
  PROVE  \E take \in [Grants -> Nat] :
           /\ Commit(t, Drawn(t, take))
           /\ \A g \in Grants : /\ take[g] > 0 => grantLock[g] = t
                                /\ remaining'[g] = remaining[g] - take[g]
<1>1. PICK take \in Walks(t) : Commit(t, Drawn(t, take))
  BY DEF DrawCommits
<1>2. /\ take \in [Grants -> Nat]
      /\ \A g \in Grants : take[g] > 0 => g \in DOMAIN read[t]
  BY WalkTypes DEF DrawCommits, Walks
<1>3. ASSUME NEW g \in Grants
      PROVE  /\ take[g] > 0 => grantLock[g] = t
             /\ remaining'[g] = remaining[g] - take[g]
  <2>1. take[g] > 0 => grantLock[g] = t /\ read[t][g] = remaining[g]
    BY <1>2 DEF GrantLockInv, ReadsAreCurrent
  <2>2. remaining'[g] = IF Drawn(t, take)[g].writes THEN Drawn(t, take)[g].units ELSE remaining[g]
    BY <1>1 DEF Commit
  <2>3. remaining[g] \in Int /\ take[g] \in Nat
    BY <1>2 DEF GrantLockInv, EntriesInv, TypeInv, Types, TypeOK
  <2>4. CASE take[g] = 0
    <3>1. Drawn(t, take)[g] = NoWrite
      BY <2>4 DEF Drawn
    <3>2. remaining'[g] = remaining[g]
      BY <2>2, <3>1, WrittenFields
    <3>. QED BY <2>3, <2>4, <3>2
  <2>5. CASE take[g] # 0
    <3>1. Drawn(t, take)[g] = Update("active", read[t][g] - take[g], -take[g])
      BY <2>5 DEF Drawn
    <3>2. remaining'[g] = read[t][g] - take[g]
      BY <2>2, <3>1, WrittenFields
    <3>. QED BY <2>1, <2>3, <2>5, <3>2
  <2>. QED BY <2>1, <2>4, <2>5
<1>. QED BY <1>1, <1>2, <1>3

LEMMA NextGrantLocks == GrantLockInv /\ [Next]_vars => GrantLockInv'
<1>. SUFFICES ASSUME GrantLockInv, [Next]_vars PROVE GrantLockInv'
  OBVIOUS
<1>1. EntriesInv' /\ EntriesInv
  BY NextEntries DEF GrantLockInv
<1>2. CASE UNCHANGED vars
  BY <1>1, <1>2 DEF vars, tables, locals, GrantLockInv, ReadsAreCurrent, WrittenUnderLock
<1>3. ASSUME NEW t \in Txns, Quiet(t) PROVE GrantLockInv'
  <2>1. TypeOK
    BY <1>1 DEF EntriesInv, TypeInv, Types
  <2>2. CASE Rollback(t)
    BY <1>1, <2>2, EndGrantLocks DEF Rollback, tables
  <2>3. CASE (\E j \in Jobs : Begin(t, j)) \/ (LockRow(t) /\ ~Rollback(t)) \/ Select(t)
    <3>1. /\ UNCHANGED <<tables, read, draft, grantLock>> /\ pc[t] \notin {"read", "write"}
          /\ \E to, left : pc' = [pc EXCEPT ![t] = to] /\ todo' = [todo EXCEPT ![t] = left]
      BY <2>3 DEF Begin, LockRow, Select
    <3>2. \A u \in Txns \ {t} : pc'[u] = pc[u] /\ todo'[u] = todo[u]
      BY <2>1, <3>1 DEF TypeOK
    <3>3. ReadsAreCurrent'
      BY <3>1, SameReads
    <3>. QED BY <1>1, <3>1, <3>2, <3>3, EarlyGrantLocks
  <2>4. CASE Post(t) /\ ~Rollback(t)
    <3>1. Commit(t, draft[t]) /\ pc[t] = "read" /\ End(t)
      BY <2>4 DEF Post, Commit
    <3>2. \A g \in Grants : remaining'[g] # remaining[g] => grantLock[g] = t
      BY <3>1, WritesAreLocked
    <3>. QED BY <1>1, <3>1, <3>2, EndGrantLocks
  <2>. QED BY <1>1, <1>3, <2>2, <2>3, <2>4, LockGrantGrantLocks, VisitGrantLocks, InspectGrantLocks,
              WriteGrantLocks, ForfeitGrantLocks DEF Quiet
<1>4. ASSUME NEW t \in Txns, DrawCommits(t) PROVE GrantLockInv'
  <2>1. PICK take \in [Grants -> Nat] :
          /\ Commit(t, Drawn(t, take))
          /\ \A g \in Grants : /\ take[g] > 0 => grantLock[g] = t
                               /\ remaining'[g] = remaining[g] - take[g]
    BY <1>4, DrawnBalances
  <2>2. \A g \in Grants : remaining[g] \in Int
    BY <1>1 DEF EntriesInv, TypeInv, Types, TypeOK
  <2>3. \A g \in Grants : remaining'[g] # remaining[g] => grantLock[g] = t
    BY <2>1, <2>2
  <2>. QED BY <1>1, <2>1, <2>3, EndGrantLocks DEF Commit
<1>5. ASSUME NEW t \in Txns, CloseCommits(t) PROVE GrantLockInv'
  <2>1. Commit(t, draft[t]) /\ pc[t] = "read" /\ End(t)
    BY <1>5 DEF CloseCommits, Close
  <2>2. \A g \in Grants : remaining'[g] # remaining[g] => grantLock[g] = t
    BY <2>1, WritesAreLocked
  <2>. QED BY <1>1, <2>1, <2>2, EndGrantLocks
<1>6. CASE Next
  BY <1>1, <1>3, <1>4, <1>5, <1>6, StepKinds DEF EntriesInv, TypeInv
<1>. QED BY <1>2, <1>6

\* Balances that move as the ledger does make a step of both or of neither.
MoveAlike ==
  \A g \in Grants :
    /\ posted[g] \in Int /\ posted'[g] \in Int /\ remaining[g] \in Int /\ remaining'[g] \in Int
    /\ remaining'[g] - remaining[g] = posted'[g] - posted[g]

LEMMA AlikeSteps ==
  ASSUME MoveAlike
  PROVE  /\ Entries!Forfeit => Account!Forfeit
         /\ \A r : Entries!Hold(r) => Account!Hold(r)
         /\ \A r : Entries!Close(r) => Account!Close(r)
<1>1. \A g \in Grants :
        /\ posted'[g] <= posted[g] => remaining'[g] <= remaining[g]
        /\ posted'[g] >= posted[g] => remaining'[g] >= remaining[g]
        /\ remaining'[g] - remaining[g] = posted'[g] - posted[g]
        /\ remaining[g] - remaining'[g] = posted[g] - posted'[g]
  BY DEF MoveAlike
<1>2. Entries!Forfeit => Account!Forfeit
  BY <1>1 DEF Entries!Forfeit, Account!Forfeit, Entries!Grants, Account!Grants, Grants
<1>3. ASSUME NEW r, Entries!Hold(r) PROVE Account!Hold(r)
  BY <1>1, <1>3 DEF Entries!Hold, Account!Hold, Entries!Grants, Account!Grants, Entries!OnlyRowChanges,
     Account!OnlyRowChanges, Entries!Reservations, Account!Reservations, Grants
<1>4. ASSUME NEW r, Entries!Close(r) PROVE Account!Close(r)
  BY <1>1, <1>4 DEF Entries!Close, Account!Close, Entries!Grants, Account!Grants, Entries!OnlyRowChanges,
     Account!OnlyRowChanges, Entries!Reservations, Account!Reservations, Grants
<1>. QED BY <1>2, <1>3, <1>4

LEMMA DrawMovesAlike ==
  ASSUME GrantLockInv, GrantLockInv', NEW t \in Txns, DrawCommits(t)
  PROVE  MoveAlike
<1>. SUFFICES ASSUME NEW g \in Grants
              PROVE  /\ posted[g] \in Int /\ posted'[g] \in Int /\ remaining[g] \in Int /\ remaining'[g] \in Int
                     /\ remaining'[g] - remaining[g] = posted'[g] - posted[g]
  BY DEF MoveAlike
<1>1. /\ posted[g] \in Int /\ posted'[g] \in Int /\ remaining[g] \in Int /\ remaining'[g] \in Int
  BY DEF GrantLockInv, EntriesInv, TypeInv, Types, TypeOK
<1>2. PICK take \in [Grants -> Nat] :
        /\ Commit(t, Drawn(t, take))
        /\ \A h \in Grants : remaining'[h] = remaining[h] - take[h]
  BY DrawnBalances
<1>3. posted'[g] = posted[g] + Drawn(t, take)[g].delta
  BY <1>2 DEF Commit
<1>4. /\ Drawn(t, take)[g].delta = -take[g]
      /\ take[g] \in Nat
      /\ remaining'[g] = remaining[g] - take[g]
  <2>1. take[g] \in Nat /\ -take[g] = 0 - take[g]
    OBVIOUS
  <2>2. CASE take[g] = 0
    <3>1. Drawn(t, take)[g] = NoWrite
      BY <2>2 DEF Drawn
    <3>2. 0 - take[g] = 0
      BY <2>2
    <3>. QED BY <1>2, <2>1, <3>1, <3>2, EmptyDrafts, Zenon
  <2>3. CASE take[g] # 0
    <3>1. Drawn(t, take)[g] = Update("active", read[t][g] - take[g], -take[g])
      BY <2>3 DEF Drawn
    <3>. QED BY <1>2, <2>1, <3>1, WrittenFields
  <2>. QED BY <2>2, <2>3
<1>5. posted'[g] = posted[g] - take[g]
  BY <1>1, <1>3, <1>4
<1>. QED BY <1>1, <1>4, <1>5

LEMMA UpToDateMovesAlike ==
  ASSUME GrantLockInv, GrantLockInv', NEW t \in Txns, pc[t] = "read", Commit(t, draft[t]), UpToDate(t)
  PROVE  MoveAlike
<1>. SUFFICES ASSUME NEW g \in Grants
              PROVE  /\ posted[g] \in Int /\ posted'[g] \in Int /\ remaining[g] \in Int /\ remaining'[g] \in Int
                     /\ remaining'[g] - remaining[g] = posted'[g] - posted[g]
  BY DEF MoveAlike
<1>1. /\ posted[g] \in Int /\ posted'[g] \in Int /\ remaining[g] \in Int /\ remaining'[g] \in Int
      /\ draft[t][g].delta \in Int
  BY DEF GrantLockInv, EntriesInv, TypeInv, Types, TypeOK
<1>2. /\ posted'[g] = posted[g] + draft[t][g].delta
      /\ remaining'[g] = IF draft[t][g].writes THEN draft[t][g].units ELSE remaining[g]
  BY DEF Commit
<1>3. remaining'[g] = remaining[g] + draft[t][g].delta
  <2>1. CASE draft[t][g].writes
    <3>1. draft[t][g].units = remaining[g] + draft[t][g].delta
      BY <2>1 DEF UpToDate
    <3>. QED BY <1>2, <2>1, <3>1
  <2>2. CASE ~draft[t][g].writes
    <3>1. draft[t][g].delta = 0 /\ remaining'[g] = remaining[g]
      BY <1>2, <2>2 DEF GrantLockInv, WrittenUnderLock
    <3>. QED BY <1>1, <3>1
  <2>. QED BY <2>1, <2>2
<1>4. posted'[g] = posted[g] + draft[t][g].delta
  BY <1>2
<1>. QED BY <1>1, <1>3, <1>4

\* A reservation, an extension, a retry or a crash never makes a balance wrong,
\* whatever runs beside it; nor does any other call that commits what it computed
\* from the balance that is still there.  What transactions_lost_update shows is
\* all that can go wrong.
THEOREM OnlyStaleWritesLoseUnits == Spec => OnlyStaleWritesLose
<1>. DEFINE Kept == [Account!Next]_(Account!vars)
            Stale == \E t \in Txns : pc[t] = "read" /\ pc'[t] = "done" /\ ~UpToDate(t)
<1>1. ASSUME GrantLockInv, GrantLockInv', Next PROVE Kept \/ Stale
  <2>1. PICK t \in Txns : Quiet(t) \/ DrawCommits(t) \/ CloseCommits(t)
    BY <1>1, StepKinds DEF GrantLockInv, EntriesInv, TypeInv
  <2>2. CASE DrawCommits(t)
    <3>1. Account!Hold(job[t].row)
      BY <1>1, <2>2, DrawIsHold, DrawMovesAlike, AlikeSteps DEF GrantLockInv
    <3>2. job[t].row \in Account!Reservations
      BY <2>2 DEF DrawCommits, Account!Reservations, Reservations
    <3>. QED BY <3>1, <3>2 DEF Account!Next
  <2>3. CASE CloseCommits(t) \/ (Post(t) /\ ~Rollback(t))
    <3>1. Commit(t, draft[t]) /\ pc[t] = "read" /\ pc'[t] = "done"
      <4>1. Commit(t, draft[t]) /\ pc[t] = "read" /\ End(t)
        BY <2>3 DEF CloseCommits, Close, Post, Commit
      <4>2. DOMAIN pc = Txns
        BY <1>1 DEF GrantLockInv, EntriesInv, TypeInv, Types, TypeOK
      <4>. QED BY <4>1, <4>2 DEF End
    <3>2. CASE ~UpToDate(t)
      BY <3>1, <3>2
    <3>3. CASE UpToDate(t) /\ CloseCommits(t)
      <4>1. Account!Close(job[t].row)
        BY <1>1, <3>1, <3>3, CloseIsClose, UpToDateMovesAlike, AlikeSteps DEF GrantLockInv
      <4>2. job[t].row \in Account!Reservations
        BY <3>3 DEF CloseCommits, Account!Reservations, Reservations
      <4>. QED BY <4>1, <4>2 DEF Account!Next
    <3>4. CASE UpToDate(t) /\ Post(t) /\ ~Rollback(t)
      <4>1. Account!Forfeit
        BY <1>1, <3>1, <3>4, PostIsForfeit, UpToDateMovesAlike, AlikeSteps DEF GrantLockInv
      <4>. QED BY <4>1 DEF Account!Next
    <3>. QED BY <2>3, <3>2, <3>3, <3>4
  <2>4. CASE Quiet(t) /\ ~(Post(t) /\ ~Rollback(t))
    BY <2>4, OtherStepsStutter
  <2>. QED BY <2>1, <2>2, <2>3, <2>4
<1>2. GrantLockInv /\ [Next]_vars => GrantLockInv'
  BY NextGrantLocks
<1>3. GrantLockInv /\ GrantLockInv' /\ [Next]_vars => [Kept \/ Stale]_vars
  BY <1>1
<1>. QED BY <1>2, <1>3, InitGrantLocks, PTL DEF Spec, OnlyStaleWritesLose

\* Reservations and extensions interleaved with one another pay for what they hold
\* with the balances they drew on, unit by unit.
THEOREM WalksKeepAccount == WalksOnly => (Spec => CommitsKeepAccount)
<1>. SUFFICES ASSUME WalksOnly PROVE Spec => CommitsKeepAccount
  OBVIOUS
<1>. DEFINE Kept == [Account!Next]_(Account!vars)
            Stale == \E t \in Txns : pc[t] = "read" /\ pc'[t] = "done" /\ ~UpToDate(t)
<1>1. WalkInv /\ [Next]_vars => WalkInv'
  BY NextWalks
<1>2. WalkInv /\ [Kept \/ Stale]_vars => Kept
  <2>1. WalkInv => ~Stale
    BY DEF WalkInv
  <2>2. UNCHANGED vars => UNCHANGED Account!vars
    <3>1. ASSUME UNCHANGED vars PROVE Holds' = Holds
      BY <3>1 DEF vars, tables, Holds, Held
    <3>. QED BY <3>1 DEF vars, tables, Account!vars
  <2>. QED BY <2>1, <2>2
<1>. QED BY <1>1, <1>2, InitWalks, OnlyStaleWritesLoseUnits, PTL DEF Spec, OnlyStaleWritesLose,
        CommitsKeepAccount
=============================================================================
