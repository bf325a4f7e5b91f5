------------------------- MODULE CreditTransactions -------------------------
(***************************************************************************)
(* The transactions of CreditLedger one SQL statement at a time, as        *)
(* Postgres runs them: READ COMMITTED (no caller asks for more), row locks *)
(* held to the end, a plain SELECT that reads what is committed, and an    *)
(* UPDATE that waits for the row and then writes the value the caller had  *)
(* computed.                                                               *)
(*                                                                         *)
(* A grant is locked in three ways: FOR UPDATE by the allocation walk      *)
(* before it reads it; FOR NO KEY UPDATE by an UPDATE of its state or      *)
(* balance; and FOR KEY SHARE by the foreign key of an entry that names    *)
(* it, by any number of transactions at once.  The first excludes all      *)
(* three, the second the first two, the third only the first.              *)
(*                                                                         *)
(* Release and the operations of credits.ts read a grant with no lock on   *)
(* it.  So does settlement where it consumes nothing; where it does, the   *)
(* entry that says so comes before the read and keeps walks away.          *)
(*                                                                         *)
(* Time stands still: CreditLedger has the clock.  A grant's number is its *)
(* place in (expiresAt, id) order.                                         *)
(***************************************************************************)
EXTENDS Sums

CONSTANTS
  NumGrants, NumReservations,
  Txns,     \* transactions; each runs one job
  Nobody,   \* holder of a lock nobody holds
  Jobs,     \* the calls the transactions may make
  Balance,  \* units each grant can spend at the start
  HeldAtStart, \* units of each grant that each reservation holds at the start, none for a new one
  AllocationId \* place of each reservation's allocations in the order of their ids

Grants == 1 .. NumGrants
Reservations == 1 .. NumReservations

Draws == {"reserve", "extend"}
Closes == {"settle", "release"}
GrantOps == {"freeze", "revoke", "adjust"}

\* units: reserved, added, consumed or taken off; row: the reservation or grant
Calls == [op : Draws \cup Closes \cup GrantOps, row : Nat, units : Nat, key : STRING]

ASSUME TransactionsAssumption ==
  /\ NumGrants \in Nat /\ NumReservations \in Nat
  /\ Nobody \notin Txns
  /\ Jobs \subseteq Calls
  /\ \A j \in Jobs : j.row \in IF j.op \in GrantOps THEN Grants ELSE Reservations
  /\ Balance \in [Grants -> Nat]
  /\ HeldAtStart \in [Reservations -> [Grants -> Nat]]
  /\ AllocationId \in [Reservations -> [Grants -> Nat]]
  /\ \A r \in Reservations, g, h \in Grants : AllocationId[r][g] = AllocationId[r][h] => g = h

VARIABLES
  grantState, remaining, posted, writtenOff,  \* committed, as in CreditLedger
  resState, allocated, consumed,              \* committed, as in CreditLedger
  keys,       \* idempotency keys of committed calls
  pc, job,    \* where each transaction is, and in which call
  todo,       \* grants it has not come to yet
  need,       \* units it has still to consume
  read,       \* remaining_units of the grants its walk has locked
  draft,      \* per grant, what it has written or is about to write
  rowLock,    \* holder of the reservation
  grantLock,  \* holder of the grant FOR UPDATE, if it is a walk, or FOR NO KEY UPDATE
  sharers     \* holders of the grant FOR KEY SHARE

tables == <<grantState, remaining, posted, writtenOff, resState, allocated, consumed, keys>>
locals == <<job, todo, need, read, draft>>
vars == <<tables, pc, locals, rowLock, grantLock, sharers>>

NoJob == [op |-> "none", row |-> 0, units |-> 0, key |-> "none"]
NothingRead == [g \in {} |-> 0]
\* writes: whether the grant row is updated, to state and units; delta: the
\* ledger entry; used: consumed_units; gone: what is forfeited
NoWrite == [writes |-> FALSE, state |-> "active", units |-> 0, delta |-> 0, used |-> 0, gone |-> 0]
NoDraft == [g \in Grants |-> NoWrite]

Update(state, units, delta) ==
  [NoWrite EXCEPT !.writes = TRUE, !.state = state, !.units = units, !.delta = delta]

HasUnits(held) == \E g \in Grants : held[g] > 0

Init ==
  /\ grantState = [g \in Grants |-> "active"]
  /\ remaining = Balance
  /\ posted = Balance
  /\ writtenOff = [g \in Grants |-> 0]
  /\ resState = [r \in Reservations |-> IF HasUnits(HeldAtStart[r]) THEN "reserved" ELSE "none"]
  /\ allocated = HeldAtStart
  /\ consumed = [r \in Reservations |-> [g \in Grants |-> 0]]
  /\ keys = {}
  /\ pc = [t \in Txns |-> "idle"]
  /\ job = [t \in Txns |-> NoJob]
  /\ todo = [t \in Txns |-> {}]
  /\ need = [t \in Txns |-> 0]
  /\ read = [t \in Txns |-> NothingRead]
  /\ draft = [t \in Txns |-> NoDraft]
  /\ rowLock = [r \in Reservations |-> Nobody]
  /\ grantLock = [g \in Grants |-> Nobody]
  /\ sharers = [g \in Grants |-> {}]

-----------------------------------------------------------------------------
(* How a transaction ends *)

\* Its locks are released and what it had in memory is forgotten.
End(t) ==
  /\ pc' = [pc EXCEPT ![t] = "done"]
  /\ job' = [job EXCEPT ![t] = NoJob]
  /\ todo' = [todo EXCEPT ![t] = {}]
  /\ need' = [need EXCEPT ![t] = 0]
  /\ read' = [read EXCEPT ![t] = NothingRead]
  /\ draft' = [draft EXCEPT ![t] = NoDraft]
  /\ rowLock' = [r \in Reservations |-> IF rowLock[r] = t THEN Nobody ELSE rowLock[r]]
  /\ grantLock' = [g \in Grants |-> IF grantLock[g] = t THEN Nobody ELSE grantLock[g]]
  /\ sharers' = [g \in Grants |-> sharers[g] \ {t}]

Rollback(t) == End(t) /\ UNCHANGED tables

\* All updates and entries of the transaction become visible at once.
Commit(t, writes) ==
  /\ grantState' = [g \in Grants |-> IF writes[g].writes THEN writes[g].state ELSE grantState[g]]
  /\ remaining' = [g \in Grants |-> IF writes[g].writes THEN writes[g].units ELSE remaining[g]]
  /\ posted' = [g \in Grants |-> posted[g] + writes[g].delta]
  /\ writtenOff' = [g \in Grants |-> writtenOff[g] + writes[g].gone]
  /\ keys' = keys \cup {job[t].key}
  /\ End(t)

\* The process dies, or a statement fails.
Crash(t) == pc[t] \notin {"idle", "done"} /\ Rollback(t)

-----------------------------------------------------------------------------
(* The steps of a call *)

\* Each call looks for its idempotency key among the committed ones first.
Begin(t, j) ==
  /\ pc[t] = "idle"
  /\ job' = [job EXCEPT ![t] = j]
  /\ need' = [need EXCEPT ![t] = j.units]
  /\ todo' = [todo EXCEPT ![t] = IF j.op \in GrantOps THEN {j.row} ELSE {}]
  /\ pc' = [pc EXCEPT ![t] = IF j.key \in keys THEN "replay"
                             ELSE IF j.op \in GrantOps THEN "read" ELSE "row"]
  /\ UNCHANGED <<tables, read, draft, rowLock, grantLock, sharers>>

\* replayIfAlreadyProcessed locks the reservation to return it.
Replay(t) ==
  /\ pc[t] = "replay"
  /\ job[t].op \in {"extend"} \cup Closes => rowLock[job[t].row] = Nobody
  /\ Rollback(t)

\* Whether a call may go on once it holds the reservation: reserve's INSERT
\* fails on a key that was committed meanwhile, the others on a closed row.
MayProceed(j) ==
  IF j.op = "reserve" THEN resState[j.row] = "none"
  ELSE /\ resState[j.row] = "reserved"
       /\ j.op = "settle" => j.units <= Total(allocated[j.row], NumGrants)

\* Mutant: the reservation is read without FOR UPDATE.
ReadRow(t) ==
  LET r == job[t].row IN
  /\ pc[t] = "row"
  /\ \/ /\ MayProceed(job[t])
        /\ pc' = [pc EXCEPT ![t] = IF job[t].op \in Draws THEN "select" ELSE "read"]
        /\ todo' = [todo EXCEPT ![t] =
             IF job[t].op \in Closes THEN {g \in Grants : allocated[r][g] > 0} ELSE {}]
        /\ UNCHANGED <<tables, job, need, read, draft, rowLock, grantLock, sharers>>
     \/ ~MayProceed(job[t]) /\ Rollback(t)

\* lockReservation, or the INSERT of a reservation, which waits for an
\* uncommitted row with the same key.
LockRow(t) ==
  LET r == job[t].row IN
  /\ pc[t] = "row"
  /\ rowLock[r] = Nobody
  /\ \/ /\ MayProceed(job[t])
        /\ rowLock' = [rowLock EXCEPT ![r] = t]
        /\ pc' = [pc EXCEPT ![t] = IF job[t].op \in Draws THEN "select" ELSE "read"]
        /\ todo' = [todo EXCEPT ![t] =
             IF job[t].op \in Closes THEN {g \in Grants : allocated[r][g] > 0} ELSE {}]
        /\ UNCHANGED <<tables, job, need, read, draft, grantLock, sharers>>
     \/ ~MayProceed(job[t]) /\ Rollback(t)

\* The SELECT ... FOR UPDATE of the walk starts: the snapshot says which rows.
Select(t) ==
  /\ pc[t] = "select"
  /\ pc' = [pc EXCEPT ![t] = "lock"]
  /\ todo' = [todo EXCEPT ![t] = {g \in Grants : grantState[g] = "active"}]
  /\ UNCHANGED <<tables, job, need, read, draft, rowLock, grantLock, sharers>>

\* Mutant: SELECT without FOR UPDATE.
ReadGrant(t) ==
  /\ pc[t] = "lock"
  /\ \E g \in todo[t] :
       /\ \A h \in todo[t] : g <= h
       /\ todo' = [todo EXCEPT ![t] = @ \ {g}]
       /\ read' = [read EXCEPT ![t] =
            [h \in DOMAIN @ \cup {g} |-> IF h = g THEN remaining[g] ELSE @[h]]]
  /\ UNCHANGED <<tables, pc, job, need, draft, rowLock, grantLock, sharers>>

\* Mutant: SELECT ... FOR UPDATE without ORDER BY.
LockAnyGrant(t) ==
  /\ pc[t] = "lock"
  /\ \E g \in todo[t] :
       /\ grantLock[g] = Nobody
       /\ sharers[g] = {}
       /\ grantLock' = [grantLock EXCEPT ![g] = t]
       /\ todo' = [todo EXCEPT ![t] = @ \ {g}]
       /\ read' = [read EXCEPT ![t] =
            [h \in DOMAIN @ \cup {g} |-> IF h = g THEN remaining[g] ELSE @[h]]]
  /\ UNCHANGED <<tables, pc, job, need, draft, rowLock, sharers>>

\* It locks the rows one by one in (expiresAt, id) order, reads each as it is
\* once the lock is there, and drops a row that stopped matching.
LockGrant(t) ==
  /\ pc[t] = "lock"
  /\ \E g \in todo[t] :
       /\ \A h \in todo[t] : g <= h
       /\ grantLock[g] = Nobody
       /\ sharers[g] = {}
       /\ grantLock' = [grantLock EXCEPT ![g] = t]
       /\ todo' = [todo EXCEPT ![t] = @ \ {g}]
       /\ read' = IF grantState[g] # "active" THEN read
                  ELSE [read EXCEPT ![t] =
                         [h \in DOMAIN @ \cup {g} |-> IF h = g THEN remaining[g] ELSE @[h]]]
  /\ UNCHANGED <<tables, pc, job, need, draft, rowLock, sharers>>

\* Mutant: nobody looks whether the walk came short.
WalksShort(t) ==
  LET rows == DOMAIN read[t]
      units == job[t].units IN
  {take \in [Grants -> 0 .. units] :
     /\ Total(take, NumGrants) = units
     /\ \A g \in Grants : take[g] > 0 => g \in rows
     /\ \A g \in Grants, h \in rows : take[g] > 0 /\ h < g => take[h] = read[t][h]}

\* The walk over the rows that were read: each is drained before the next.
Walks(t) ==
  LET rows == DOMAIN read[t]
      units == job[t].units IN
  {take \in [Grants -> 0 .. units] :
     /\ Total(take, NumGrants) = units
     /\ \A g \in Grants : take[g] > 0 => g \in rows /\ take[g] <= read[t][g]
     /\ \A g \in Grants, h \in rows : take[g] > 0 /\ h < g => take[h] = read[t][h]}

Drawn(t, take) ==
  [g \in Grants |-> IF take[g] = 0 THEN NoWrite ELSE Update("active", read[t][g] - take[g], -take[g])]

\* Mutant: no unique index on the ledger's idempotency keys.
DrawWhateverKey(t) ==
  LET r == job[t].row IN
  /\ pc[t] = "lock"
  /\ todo[t] = {}
  /\ \/ \E take \in Walks(t) :
          /\ Commit(t, Drawn(t, take))
          /\ resState' = [resState EXCEPT ![r] = "reserved"]
          /\ allocated' = [allocated EXCEPT ![r] = [g \in Grants |-> @[g] + take[g]]]
          /\ UNCHANGED consumed
     \/ Walks(t) = {} /\ Rollback(t)

\* Mutant: a walk that comes short waits for credits, its locks held.
DrawOrWait(t) ==
  LET r == job[t].row IN
  /\ pc[t] = "lock"
  /\ todo[t] = {}
  /\ \/ /\ job[t].key \notin keys
        /\ \E take \in Walks(t) :
             /\ Commit(t, Drawn(t, take))
             /\ resState' = [resState EXCEPT ![r] = "reserved"]
             /\ allocated' = [allocated EXCEPT ![r] = [g \in Grants |-> @[g] + take[g]]]
             /\ UNCHANGED consumed
     \/ job[t].key \in keys /\ Rollback(t)

\* With all rows locked: allocations, entries, marker and reservation, then
\* COMMIT.  Rolled back when the balance is short or a concurrent retry has
\* committed the same key.
Draw(t) ==
  LET r == job[t].row IN
  /\ pc[t] = "lock"
  /\ todo[t] = {}
  /\ \/ /\ job[t].key \notin keys
        /\ \E take \in Walks(t) :
             /\ Commit(t, Drawn(t, take))
             /\ resState' = [resState EXCEPT ![r] = "reserved"]
             /\ allocated' = [allocated EXCEPT ![r] = [g \in Grants |-> @[g] + take[g]]]
             /\ UNCHANGED consumed
     \/ (Walks(t) = {} \/ job[t].key \in keys) /\ Rollback(t)

\* Settlement and release go through the allocations in the order of their ids.
First(t, g) ==
  \A h \in todo[t] : AllocationId[job[t].row][g] <= AllocationId[job[t].row][h]

\* What a settlement takes from its allocation of g.
Consumed(t, g) ==
  IF job[t].op = "settle" THEN Smaller(allocated[job[t].row][g], need[t]) ELSE 0

\* A walk has the grant, so that no entry can name it.
Walked(g) == \E u \in Txns : grantLock[g] = u /\ job[u].op \in Draws

Share(t, g) == sharers' = [sharers EXCEPT ![g] = @ \cup {t}]

\* The next allocation: its part is consumed, with an entry if there is any, and
\* releaseOrExpireLeftover reads the grant.  A grant that is active will be
\* written, with the balance it has now.
Visit(t) ==
  /\ pc[t] = "read"
  /\ job[t].op \in Closes
  /\ \E g \in todo[t] :
       LET used == Consumed(t, g)
           left == allocated[job[t].row][g] - used
           back == left > 0 /\ grantState[g] = "active"
       IN  /\ First(t, g)
           /\ IF used > 0 THEN ~Walked(g) /\ Share(t, g) ELSE UNCHANGED sharers
           /\ need' = [need EXCEPT ![t] = @ - used]
           /\ draft' = [draft EXCEPT ![t][g] =
                IF back THEN [Update("active", remaining[g] + left, left) EXCEPT !.used = used]
                ELSE [NoWrite EXCEPT !.used = used, !.gone = left]]
           /\ pc' = [pc EXCEPT ![t] = IF left > 0 THEN "write" ELSE "read"]
           /\ todo' = [todo EXCEPT ![t] = IF left > 0 THEN @ ELSE @ \ {g}]
  /\ UNCHANGED <<tables, job, read, rowLock, grantLock>>

\* freezeCreditGrant, revokeCreditGrant and adjustCreditGrant (downwards) read
\* the grant without a lock and check its state or balance.
Inspect(t) ==
  /\ pc[t] = "read"
  /\ job[t].op \in GrantOps
  /\ \E g \in todo[t] :
       LET op == job[t].op
           allowed == CASE op = "freeze" -> grantState[g] = "active"
                        [] op = "revoke" -> grantState[g] \in {"active", "frozen"}
                        [] op = "adjust" -> job[t].units <= remaining[g]
           off == CASE op = "freeze" -> 0
                    [] op = "revoke" -> remaining[g]
                    [] op = "adjust" -> job[t].units
           state == CASE op = "freeze" -> "frozen"
                      [] op = "revoke" -> "revoked"
                      [] op = "adjust" -> grantState[g]
       IN  \/ /\ allowed
              /\ draft' = [draft EXCEPT ![t][g] =
                   [Update(state, remaining[g] - off, -off) EXCEPT !.gone = off]]
              /\ pc' = [pc EXCEPT ![t] = "write"]
              /\ UNCHANGED <<tables, job, todo, need, read, rowLock, grantLock, sharers>>
           \/ ~allowed /\ Rollback(t)

\* The UPDATE waits for the row's lock and keeps it; what it will write was
\* computed before.
Write(t) ==
  /\ pc[t] = "write"
  /\ \E g \in todo[t] :
       /\ draft[t][g].writes
       /\ grantLock[g] = Nobody
       /\ grantLock' = [grantLock EXCEPT ![g] = t]
       /\ todo' = [todo EXCEPT ![t] = @ \ {g}]
  /\ pc' = [pc EXCEPT ![t] = "read"]
  /\ UNCHANGED <<tables, job, need, read, draft, rowLock, sharers>>

\* The leftover of a grant that was not active: an entry names the grant.
Forfeit(t) ==
  /\ pc[t] = "write"
  /\ job[t].op \in Closes
  /\ \E g \in todo[t] :
       /\ First(t, g)
       /\ ~draft[t][g].writes
       /\ ~Walked(g)
       /\ Share(t, g)
       /\ todo' = [todo EXCEPT ![t] = @ \ {g}]
  /\ pc' = [pc EXCEPT ![t] = "read"]
  /\ UNCHANGED <<tables, job, need, read, draft, rowLock, grantLock>>

Close(t) ==
  LET r == job[t].row IN
  /\ pc[t] = "read"
  /\ job[t].op \in Closes
  /\ todo[t] = {}
  /\ Commit(t, draft[t])
  /\ resState' = [resState EXCEPT ![r] = IF job[t].op = "settle" THEN "settled" ELSE "released"]
  /\ consumed' = [consumed EXCEPT ![r] = [g \in Grants |-> draft[t][g].used]]
  /\ UNCHANGED allocated

Post(t) ==
  /\ pc[t] = "read"
  /\ job[t].op \in GrantOps
  /\ todo[t] = {}
  /\ \/ /\ job[t].key \notin keys
        /\ Commit(t, draft[t])
        /\ UNCHANGED <<resState, allocated, consumed>>
     \/ job[t].key \in keys /\ Rollback(t)

-----------------------------------------------------------------------------
(* Deadlocks and scheduling *)

\* The grant whose next entry t has to wait for: one that says what is consumed,
\* or what is forfeited.
Names(t, g) ==
  /\ job[t].op \in Closes /\ First(t, g)
  /\ \/ pc[t] = "read" /\ Consumed(t, g) > 0
     \/ pc[t] = "write" /\ ~draft[t][g].writes

\* t waits for a lock u has on a grant: for the grant to be free, for its UPDATE,
\* or for the walk on it to end.  Nothing else is waited for with a lock held:
\* the reservation is the first row a call locks.
WaitsFor(t, u) ==
  \E g \in todo[t] :
    \/ /\ pc[t] = "lock" /\ \A h \in todo[t] : g <= h
       /\ grantLock[g] = u \/ u \in sharers[g]
    \/ pc[t] = "write" /\ draft[t][g].writes /\ grantLock[g] = u
    \/ Names(t, g) /\ grantLock[g] = u /\ job[u].op \in Draws

Deadlocked(t) ==
  \E ring \in SUBSET Txns : t \in ring /\ \A u \in ring : \E v \in ring : WaitsFor(u, v)

\* Postgres ends one of the transactions that wait for each other.
DeadlockVictim(t) == Deadlocked(t) /\ Rollback(t)

Step(t) ==
  \/ Replay(t) \/ LockRow(t) \/ Select(t) \/ LockGrant(t) \/ Draw(t)
  \/ Visit(t) \/ Inspect(t) \/ Write(t) \/ Forfeit(t) \/ Close(t) \/ Post(t)

Next ==
  \E t \in Txns :
    \/ \E j \in Jobs : Begin(t, j)
    \/ Step(t)
    \/ Crash(t)
    \/ DeadlockVictim(t)

\* A transaction whose next statement can run runs it; Postgres looks for
\* deadlocks after deadlock_timeout.  Nothing has to begin or crash.
Fairness == \A t \in Txns : WF_vars(Step(t)) /\ WF_vars(DeadlockVictim(t))

Spec == Init /\ [][Next]_vars /\ Fairness

-----------------------------------------------------------------------------
(* Properties *)

TypeOK ==
  /\ grantState \in [Grants -> {"active", "frozen", "revoked"}]
  /\ remaining \in [Grants -> Nat]
  /\ posted \in [Grants -> Int]
  /\ writtenOff \in [Grants -> Nat]
  /\ resState \in [Reservations -> {"none", "reserved", "settled", "released"}]
  /\ allocated \in [Reservations -> [Grants -> Nat]]
  /\ consumed \in [Reservations -> [Grants -> Nat]]
  /\ keys \subseteq {j.key : j \in Jobs}
  /\ pc \in [Txns -> {"idle", "replay", "row", "select", "lock", "read", "write", "done"}]
  /\ job \in [Txns -> Jobs \cup {NoJob}]
  /\ todo \in [Txns -> SUBSET Grants]
  /\ need \in [Txns -> Nat]
  /\ \A t \in Txns : DOMAIN read[t] \subseteq Grants /\ \A g \in DOMAIN read[t] : read[t][g] \in Nat
  /\ draft \in [Txns -> [Grants -> [writes : BOOLEAN, state : {"active", "frozen", "revoked"},
                                    units : Nat, delta : Int, used : Nat, gone : Nat]]]
  /\ rowLock \in [Reservations -> Txns \cup {Nobody}]
  /\ grantLock \in [Grants -> Txns \cup {Nobody}]
  /\ sharers \in [Grants -> SUBSET Txns]

Held(r, g) == IF resState[r] = "reserved" THEN allocated[r][g] ELSE 0

\* The lockstep of CreditLedger in every committed state, whatever statements of
\* other transactions came in between ("every mutation updates both in the same
\* transaction", credits.ts).
LedgerLockstep == \A g \in Grants : remaining[g] = posted[g]

IssuedAtStart == [g \in Grants |->
  Balance[g] + Total([r \in Reservations |-> HeldAtStart[r][g]], NumReservations)]
Holds == [r \in Reservations |-> [g \in Grants |-> Held(r, g)]]

\* Every commit is one step of CreditAccount: interleaved, the transactions
\* neither create nor lose a unit, and a hold is paid for by the balance it saw.
Account == INSTANCE CreditAccount WITH
  issued <- IssuedAtStart, balance <- remaining,
  held <- Holds, spent <- consumed, gone <- writtenOff

CommitsKeepAccount == [][Account!Next]_(Account!vars)

\* The same of the ledger's entries in place of the balances, and of all calls:
\* whatever balance a settlement writes back, the entries of every commit say
\* where each unit of the reservation went, so that a wrong balance can be told
\* and computed again.
Entries == INSTANCE CreditAccount WITH
  issued <- IssuedAtStart, balance <- posted,
  held <- Holds, spent <- consumed, gone <- writtenOff

EntriesKeepAccount == [][Entries!Next]_(Entries!vars)

\* Hence in every committed state: what was issued from a grant is what its entries
\* leave spendable, what open reservations hold, and what was spent or is gone.
EntriesAddUp == Entries!Conservation

\* Where the balances go wrong: only where a settlement, a release or an operation on
\* a grant commits a balance it computed from one that has been changed since.
UpToDate(t) ==
  \A g \in Grants : draft[t][g].writes => draft[t][g].units = remaining[g] + draft[t][g].delta

OnlyStaleWritesLose ==
  [][\/ [Account!Next]_(Account!vars)
     \/ \E t \in Txns : pc[t] = "read" /\ pc'[t] = "done" /\ ~UpToDate(t)]_vars

\* Allocation walks lock grants in one global order (billing-ledger.ts orders by
\* expiry, then id) and an operation on a grant holds nothing while it waits, so no
\* ring of them ever waits for itself, whatever runs beside them: every deadlock has
\* a settlement or a release in it.
NoDeadlock ==
  \A ring \in SUBSET {t \in Txns : job[t].op \notin Closes} :
    ring # {} => \E t \in ring : \A u \in ring : ~WaitsFor(t, u)

\* A settlement, a release and their retries race on one reservation: one of them
\* closes it, consumes in total what it said and no more of a grant than was
\* allocated there, and nothing about the reservation changes afterwards.
ClosedBy(j, r) ==
  /\ j.op \in Closes /\ j.row = r /\ j.key \in keys'
  /\ resState'[r] = IF j.op = "settle" THEN "settled" ELSE "released"
  /\ Total(consumed'[r], NumGrants) = IF j.op = "settle" THEN j.units ELSE 0
  /\ \A g \in Grants : consumed'[r][g] <= allocated[r][g]

ClosedOnce ==
  [][\A r \in Reservations :
       /\ resState[r] = "reserved" /\ resState'[r] # "reserved" => \E j \in Jobs : ClosedBy(j, r)
       /\ resState[r] \in {"settled", "released"} =>
            /\ resState'[r] = resState[r]
            /\ allocated'[r] = allocated[r]
            /\ consumed'[r] = consumed[r]]_vars

\* Concurrent attempts with one key widen a reservation once: a step that widens
\* it commits a key no call had committed.
WidenedOncePerKey ==
  [][\A r \in Reservations : resState[r] = "reserved" /\ allocated'[r] # allocated[r] =>
       \E k \in keys' \ keys : \E j \in Jobs :
         /\ j.key = k /\ j.op = "extend"
         /\ Total(allocated'[r], NumGrants) = Total(allocated[r], NumGrants) + j.units]_vars

\* Every call comes to an end, deadlocks with a settlement included.
EveryCallEnds == \A t \in Txns : pc[t] # "idle" ~> pc[t] = "done"
=============================================================================
