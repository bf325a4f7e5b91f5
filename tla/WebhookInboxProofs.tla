------------------------- MODULE WebhookInboxProofs -------------------------
(***************************************************************************)
(* For any number of events, workers and operators: the inbox implements   *)
(* EventDelivery, dead letters are earned, and a claim is exclusive and    *)
(* final for as long as its run keeps within the lease.  The last two rest *)
(* on LeaseHolds: the time left on a claimed row never falls below what is *)
(* left of the lease of the run that claimed it.                           *)
(***************************************************************************)
EXTENDS WebhookInbox, TLAPS

\* A run has in hand what it says, and the row knows of each of its attempts.
RunsInOrder ==
  \A p \in Processes :
    /\ run[p].event \notin run[p].todo
    /\ run[p].step = "idle" => run[p].todo = {}
    /\ run[p].step = "applied" => run[p].event \in applied
    /\ run[p].step = "gone" => run[p].event \in unseen
    /\ \A e \in Events : Holds(p, e) => row[e].status # "none"
    /\ \A e \in Events : run[p].tries[e] <= row[e].attempts

\* Nobody else may claim what a run within its lease has in hand.
LeaseHolds ==
  \A w \in Workers : \A e \in Events \ disturbed :
    Holds(w, e) /\ ~Late(w) => row[e].status = "processing" /\ row[e].due + run[w].age >= Lease

InboxInv ==
  /\ TypeOK
  /\ RunsInOrder
  /\ DeadLettersAreEarned
  /\ LeaseHolds
  /\ ClaimsAreExclusive

-----------------------------------------------------------------------------
(* Facts *)

LEMMA NoneIsNoEvent == None \notin Events
BY InboxAssumption DEF None, Events

LEMMA OldestIsOld == Oldest \in Nat /\ Oldest >= Lease
<1>1. Backoff[MaxAttempts] \in Nat
  BY InboxAssumption
<1>. QED BY <1>1, InboxAssumption DEF Oldest, Larger

LEMMA IdleIsRun ==
  /\ Idle \in Runs
  /\ Idle.step = "idle" /\ Idle.event = None /\ Idle.todo = {} /\ Idle.age = 0
  /\ \A e \in Events : Idle.tries[e] = 0
BY InboxAssumption DEF Idle, Runs, Steps

\* A run in which something is in hand.
LEMMA InHand ==
  ASSUME InboxInv, NEW p \in Processes, run[p].step \notin {"idle", "pick"}
  PROVE  run[p].event \in Events
BY DEF InboxInv, TypeOK, Runs

-----------------------------------------------------------------------------
(* Every step keeps the invariant *)

LEMMA InitInbox == Init => InboxInv
<1>. SUFFICES ASSUME Init PROVE InboxInv
  OBVIOUS
<1>1. /\ \A p \in Processes : run[p] = Idle
      /\ \A e \in Events : row[e].status = "none" /\ row[e].attempts = 0
  BY DEF Init
<1>2. TypeOK
  <2>1. row \in [Events -> Rows] /\ run \in [Processes -> Runs]
    BY IdleIsRun, InboxAssumption DEF Init, Rows
  <2>. QED BY <1>1, <2>1, IdleIsRun DEF Init, TypeOK
<1>3. \A p \in Processes, e \in Events : ~Holds(p, e)
  BY <1>1, IdleIsRun, NoneIsNoEvent DEF Holds
<1>4. RunsInOrder
  BY <1>1, <1>3, IdleIsRun DEF RunsInOrder
<1>. QED
  BY <1>1, <1>2, <1>3, <1>4 DEF InboxInv, DeadLettersAreEarned, LeaseHolds, ClaimsAreExclusive, Processes

LEMMA ReceiveKeeps ==
  ASSUME InboxInv, NEW e \in Events, Receive(e)
  PROVE  InboxInv'
<1>1. /\ row[e].status = "none"
      /\ row' = [row EXCEPT ![e].status = "pending"]
      /\ UNCHANGED <<ready, run, counters, history>>
  BY DEF Receive
<1>2. /\ row' \in [Events -> Rows]
      /\ row'[e].status = "pending"
      /\ \A f \in Events : /\ row'[f].attempts = row[f].attempts /\ row'[f].due = row[f].due
                           /\ f # e => row'[f].status = row[f].status
  BY <1>1 DEF InboxInv, TypeOK, Rows
<1>3. TypeOK'
  BY <1>1, <1>2 DEF InboxInv, TypeOK, counters, history
<1>4. RunsInOrder'
  BY <1>1, <1>2 DEF InboxInv, RunsInOrder, Holds, history
<1>5. DeadLettersAreEarned'
  BY <1>1, <1>2 DEF InboxInv, DeadLettersAreEarned, history
<1>6. LeaseHolds'
  BY <1>1, <1>2 DEF InboxInv, LeaseHolds, Holds, Late, history
<1>7. ClaimsAreExclusive'
  BY <1>1 DEF InboxInv, ClaimsAreExclusive, Holds, Late, history
<1>. QED BY <1>3, <1>4, <1>5, <1>6, <1>7 DEF InboxInv

LEMMA BecomeReadyKeeps ==
  ASSUME InboxInv, NEW e \in Events, BecomeReady(e)
  PROVE  InboxInv'
<1>1. TypeOK'
  BY DEF BecomeReady, InboxInv, TypeOK, counters, history
<1>. QED
  BY <1>1 DEF BecomeReady, InboxInv, RunsInOrder, DeadLettersAreEarned, LeaseHolds, ClaimsAreExclusive,
     Holds, Late, counters, history

LEMMA TickKeeps ==
  ASSUME InboxInv, Tick
  PROVE  InboxInv'
<1>1. /\ row' = [e \in Events |-> [row[e] EXCEPT !.due = Larger(0, @ - 1)]]
      /\ run' = [p \in Processes |->
           IF run[p].step = "idle" THEN run[p] ELSE [run[p] EXCEPT !.age = Smaller(Oldest, @ + 1)]]
      /\ UNCHANGED <<ready, counters, history>>
  BY DEF Tick
<1>2. \A e \in Events : /\ row'[e] \in Rows
                        /\ row'[e].status = row[e].status /\ row'[e].attempts = row[e].attempts
                        /\ row'[e].due = Larger(0, row[e].due - 1)
  <2>. SUFFICES ASSUME NEW e \in Events
                PROVE  /\ row'[e] \in Rows
                       /\ row'[e].status = row[e].status /\ row'[e].attempts = row[e].attempts
                       /\ row'[e].due = Larger(0, row[e].due - 1)
    OBVIOUS
  <2>1. row'[e] = [row[e] EXCEPT !.due = Larger(0, row[e].due - 1)]
    BY <1>1
  <2>2. row[e] \in Rows /\ Larger(0, row[e].due - 1) \in Nat
    BY DEF InboxInv, TypeOK, Rows, Larger
  <2>. QED BY <2>1, <2>2 DEF Rows
<1>3. \A p \in Processes :
        /\ run'[p] \in Runs
        /\ run'[p].step = run[p].step /\ run'[p].event = run[p].event
        /\ run'[p].todo = run[p].todo /\ run'[p].tries = run[p].tries
        /\ run'[p].age = IF run[p].step = "idle" THEN run[p].age ELSE Smaller(Oldest, run[p].age + 1)
  <2>. TAKE p \in Processes
  <2>1. run'[p] = IF run[p].step = "idle" THEN run[p]
                  ELSE [run[p] EXCEPT !.age = Smaller(Oldest, run[p].age + 1)]
    BY <1>1
  <2>2. run[p] \in Runs /\ Smaller(Oldest, run[p].age + 1) \in Nat
    BY OldestIsOld DEF InboxInv, TypeOK, Runs, Smaller
  <2>. QED BY <2>1, <2>2 DEF Runs
<1>4. TypeOK'
  <2>1. row' \in [Events -> Rows] /\ run' \in [Processes -> Runs]
    BY <1>1, <1>2, <1>3
  <2>. QED BY <1>1, <1>3, <2>1 DEF InboxInv, TypeOK, counters, history
<1>5. RunsInOrder'
  <2>1. \A p \in Processes, e \in Events : Holds(p, e)' <=> Holds(p, e)
    BY <1>3 DEF Holds
  <2>. SUFFICES ASSUME NEW p \in Processes
                PROVE  /\ run'[p].event \notin run'[p].todo
                       /\ run'[p].step = "idle" => run'[p].todo = {}
                       /\ run'[p].step = "applied" => run'[p].event \in applied
                       /\ run'[p].step = "gone" => run'[p].event \in unseen
                       /\ \A e \in Events : Holds(p, e)' => row'[e].status # "none"
                       /\ \A e \in Events : run'[p].tries[e] <= row'[e].attempts
    BY <1>1 DEF RunsInOrder, history
  <2>. QED BY <1>2, <1>3, <2>1 DEF InboxInv, RunsInOrder
<1>6. DeadLettersAreEarned'
  BY <1>1, <1>2 DEF InboxInv, DeadLettersAreEarned, history
<1>7. \A w \in Workers : Late(w) => Late(w)'
  BY <1>3, OldestIsOld, InboxAssumption DEF InboxInv, TypeOK, Runs, Late, Processes, Smaller
<1>8. LeaseHolds'
  <2>. SUFFICES ASSUME NEW w \in Workers, NEW e \in Events, e \notin disturbed, Holds(w, e), ~Late(w)'
                PROVE  row'[e].status = "processing" /\ row'[e].due + run'[w].age >= Lease
    BY <1>1, <1>3 DEF LeaseHolds, Holds, history, Processes
  <2>1. run[w].step # "idle"
    BY NoneIsNoEvent DEF InboxInv, RunsInOrder, TypeOK, Holds, Processes
  <2>2. row[e].status = "processing" /\ row[e].due + run[w].age >= Lease
    BY <1>7 DEF InboxInv, LeaseHolds
  <2>3. run'[w].age < Lease /\ run[w].age \in Nat /\ row[e].due \in Nat /\ Lease \in Nat
    BY <1>3, InboxAssumption DEF InboxInv, TypeOK, Late, Runs, Rows, Processes
  <2>4. run'[w].age = Smaller(Oldest, run[w].age + 1)
    BY <1>3, <2>1 DEF Processes
  <2>5. run'[w].age = run[w].age + 1
    BY <2>3, <2>4, OldestIsOld DEF Smaller
  <2>. QED BY <1>2, <2>2, <2>3, <2>5 DEF Larger
<1>9. ClaimsAreExclusive'
  BY <1>1, <1>3, <1>7 DEF InboxInv, ClaimsAreExclusive, Holds, Processes, history
<1>. QED BY <1>4, <1>5, <1>6, <1>8, <1>9 DEF InboxInv

LEMMA ClaimKeeps ==
  ASSUME InboxInv, NEW w \in Workers, Claim(w)
  PROVE  InboxInv'
<1>. DEFINE batch == {e \in Eligible : Cardinality({f \in Eligible : f < e}) < Batch}
            counted == [e \in Events |-> IF e \in batch THEN Smaller(MaxAttempts, row[e].attempts + 1) ELSE 0]
<1>1. /\ run[w].step = "idle"
      /\ row' = [e \in Events |->
           IF e \in batch THEN [status |-> "processing", attempts |-> counted[e], due |-> Lease] ELSE row[e]]
      /\ run' = [run EXCEPT ![w] = [Idle EXCEPT !.step = "pick", !.todo = batch, !.tries = counted]]
      /\ UNCHANGED <<ready, counters, history>>
  BY DEF Claim
<1>2. /\ batch \subseteq Events
      /\ \A e \in batch : row[e].status \in {"pending", "processing"} /\ row[e].due = 0
  BY DEF Eligible
<1>. HIDE DEF batch
<1>3. \A e \in Events : /\ counted[e] \in 0 .. MaxAttempts
                        /\ e \in batch => counted[e] >= row[e].attempts
                        /\ e \notin batch => counted[e] = 0
  BY InboxAssumption DEF InboxInv, TypeOK, Rows, Smaller
<1>4. counted \in [Events -> 0 .. MaxAttempts]
  BY <1>3
<1>. HIDE DEF counted
<1>5. \A e \in Events :
        /\ row'[e] \in Rows
        /\ e \notin batch => row'[e] = row[e]
        /\ e \in batch => row'[e].status = "processing" /\ row'[e].attempts = counted[e] /\ row'[e].due = Lease
  BY <1>1, <1>3, InboxAssumption DEF InboxInv, TypeOK, Rows
<1>6. w \in Processes
  BY DEF Processes
<1>7. /\ run'[w] \in Runs
      /\ run'[w].step = "pick" /\ run'[w].event = None /\ run'[w].todo = batch
      /\ run'[w].tries = counted /\ run'[w].age = 0
      /\ \A p \in Processes \ {w} : run'[p] = run[p]
  <2>1. run'[w] = [step |-> "pick", event |-> None, todo |-> batch, tries |-> counted, age |-> 0]
    BY <1>1, <1>6 DEF InboxInv, TypeOK, Idle
  <2>2. run'[w] \in Runs
    BY <1>2, <1>4, <2>1 DEF Runs, Steps
  <2>3. \A p \in Processes \ {w} : run'[p] = run[p]
    BY <1>1 DEF InboxInv, TypeOK
  <2>. QED BY <2>1, <2>2, <2>3
<1>8. TypeOK'
  <2>1. row' \in [Events -> Rows] /\ run' \in [Processes -> Runs]
    BY <1>1, <1>5, <1>7 DEF InboxInv, TypeOK
  <2>. QED BY <1>1, <1>7, <2>1 DEF InboxInv, TypeOK, counters, history
<1>9. \A e \in Events : row'[e].attempts >= row[e].attempts /\ (row[e].status # "none" => row'[e].status # "none")
  BY <1>3, <1>5 DEF InboxInv, TypeOK, Rows
<1>10. \A e \in Events : Holds(w, e)' <=> e \in batch
  BY <1>7, NoneIsNoEvent DEF Holds
<1>11. RunsInOrder'
  <2>. SUFFICES ASSUME NEW p \in Processes
                PROVE  /\ run'[p].event \notin run'[p].todo
                       /\ run'[p].step = "idle" => run'[p].todo = {}
                       /\ run'[p].step = "applied" => run'[p].event \in applied
                       /\ run'[p].step = "gone" => run'[p].event \in unseen
                       /\ \A e \in Events : Holds(p, e)' => row'[e].status # "none"
                       /\ \A e \in Events : run'[p].tries[e] <= row'[e].attempts
    BY <1>1 DEF RunsInOrder, history
  <2>1. CASE p = w
    <3>1. \A e \in Events : counted[e] <= row'[e].attempts
      BY <1>3, <1>5 DEF Rows
    <3>. QED BY <1>2, <1>5, <1>7, <1>10, <2>1, <3>1, NoneIsNoEvent
  <2>2. CASE p # w
    <3>1. \A e \in Events : run[p].tries[e] <= row[e].attempts /\ run[p].tries[e] \in Int
      BY DEF InboxInv, RunsInOrder, TypeOK, Runs
    <3>2. \A e \in Events : run[p].tries[e] <= row'[e].attempts
      BY <1>5, <1>9, <3>1 DEF InboxInv, TypeOK, Rows
    <3>. QED BY <1>7, <1>9, <2>2, <3>2 DEF InboxInv, RunsInOrder, Holds
  <2>. QED BY <2>1, <2>2
<1>12. DeadLettersAreEarned'
  BY <1>1, <1>5 DEF InboxInv, DeadLettersAreEarned, history
\* What is claimed was due, so whoever else has it in hand is late.
<1>13. \A v \in Workers \ {w}, e \in batch : e \notin disturbed /\ Holds(v, e) => Late(v)
  <2>. SUFFICES ASSUME NEW v \in Workers \ {w}, NEW e \in batch, e \notin disturbed, Holds(v, e), ~Late(v)
                PROVE  FALSE
    OBVIOUS
  <2>1. row[e].due + run[v].age >= Lease
    BY <1>2 DEF InboxInv, LeaseHolds
  <2>2. run[v].age \in Nat /\ run[v].age < Lease
    BY InboxAssumption DEF InboxInv, TypeOK, Runs, Late, Processes
  <2>. QED BY <1>2, <2>1, <2>2, InboxAssumption
<1>14. LeaseHolds'
  <2>. SUFFICES ASSUME NEW v \in Workers, NEW e \in Events, e \notin disturbed, Holds(v, e)', ~Late(v)'
                PROVE  row'[e].status = "processing" /\ row'[e].due + run'[v].age >= Lease
    BY <1>1 DEF LeaseHolds, history
  <2>1. CASE v = w
    BY <1>5, <1>7, <1>10, <2>1, InboxAssumption
  <2>2. CASE v # w
    <3>1. Holds(v, e) /\ ~Late(v) /\ run'[v] = run[v]
      BY <1>7, <2>2 DEF Holds, Late, Processes
    <3>2. e \notin batch
      BY <1>13, <2>2, <3>1
    <3>. QED BY <1>5, <3>1, <3>2 DEF InboxInv, LeaseHolds
  <2>. QED BY <2>1, <2>2
<1>15. ClaimsAreExclusive'
  <2>1. \A v \in Workers \ {w}, e \in Events : (Holds(v, e)' <=> Holds(v, e)) /\ (Late(v)' <=> Late(v))
    BY <1>7 DEF Holds, Late, Processes
  <2>. SUFFICES ASSUME NEW e \in Events, e \notin disturbed, NEW u \in Workers, NEW v \in Workers, u # v,
                       Holds(u, e)', Holds(v, e)'
                PROVE  Late(u)' \/ Late(v)'
    BY <1>1 DEF ClaimsAreExclusive, history
  <2>2. CASE u # w /\ v # w
    BY <2>1, <2>2 DEF InboxInv, ClaimsAreExclusive
  <2>3. CASE u = w \/ v = w
    BY <1>10, <1>13, <2>1, <2>3
  <2>. QED BY <2>2, <2>3
<1>. QED BY <1>8, <1>11, <1>12, <1>14, <1>15 DEF InboxInv

\* A step that writes no row and leaves the process no more in hand than before.
LEMMA RowsStandKeeps ==
  ASSUME InboxInv, NEW p \in Processes, NEW r \in Runs,
         run' = [run EXCEPT ![p] = r],
         r.event \in Events \/ r.event = None,
         r.step \in {"idle", "pick"} <=> r.event = None,
         r.event \notin r.todo,
         r.step = "idle" => r.todo = {},
         r.step = "applied" => r.event \in applied',
         r.step = "gone" => r.event \in unseen',
         r.step # "idle" => r.age = run[p].age,
         \A e \in Events : r.tries[e] <= row[e].attempts,
         \A e \in Events : e \in r.todo \/ r.event = e => Holds(p, e),
         UNCHANGED <<row, ready, disturbed>>,
         crashes' \in Nat, replays' \in Nat,
         applied \subseteq applied', applied' \subseteq ready,
         unseen \subseteq unseen', unseen' \subseteq Events
  PROVE  InboxInv'
<1>1. run'[p] = r /\ \A q \in Processes \ {p} : run'[q] = run[q]
  BY DEF InboxInv, TypeOK
<1>2. TypeOK'
  <2>1. run' \in [Processes -> Runs]
    BY DEF InboxInv, TypeOK
  <2>. QED BY <1>1, <2>1 DEF InboxInv, TypeOK
<1>3. \A q \in Processes, e \in Events : Holds(q, e)' => Holds(q, e)
  BY <1>1 DEF Holds
<1>4. RunsInOrder'
  BY <1>1, <1>3 DEF InboxInv, RunsInOrder
<1>5. DeadLettersAreEarned'
  BY DEF InboxInv, DeadLettersAreEarned
<1>6. \A w \in Workers, e \in Events : Holds(w, e)' => (Late(w)' <=> Late(w)) /\ run'[w].age = run[w].age
  BY <1>1, NoneIsNoEvent DEF Holds, Late, Processes
<1>7. LeaseHolds'
  BY <1>3, <1>6 DEF InboxInv, LeaseHolds, Processes
<1>8. ClaimsAreExclusive'
  BY <1>3, <1>6 DEF InboxInv, ClaimsAreExclusive, Processes
<1>. QED BY <1>2, <1>4, <1>5, <1>7, <1>8 DEF InboxInv

LEMMA ProcessKeeps ==
  ASSUME InboxInv, NEW p \in Processes, NEW e \in Events, Process(p, e)
  PROVE  InboxInv'
<1>1. /\ run[p].step = "pick" /\ run[p].event = None /\ e \in run[p].todo
      /\ UNCHANGED <<row, ready, counters, disturbed>>
  BY DEF Process, InboxInv, TypeOK
<1>2. PICK outcome \in Steps :
        /\ run' = [run EXCEPT ![p] = [run[p] EXCEPT !.step = outcome, !.event = e, !.todo = run[p].todo \ {e}]]
        /\ outcome \notin {"idle", "pick"}
        /\ outcome = "applied" => e \in applied'
        /\ outcome = "gone" => e \in unseen'
        /\ applied \subseteq applied' /\ applied' \subseteq ready
        /\ unseen \subseteq unseen' /\ unseen' \subseteq Events
  <2>1. CASE NotRetrieved(p, e)
    <3>1. /\ unseen' = unseen \cup {e} /\ applied' = applied
          /\ run' = [run EXCEPT ![p] = [run[p] EXCEPT !.step = "gone", !.event = e, !.todo = run[p].todo \ {e}]]
      BY <2>1 DEF NotRetrieved
    <3>2. "gone" \in Steps
      BY DEF Steps
    <3>3. applied \subseteq ready /\ unseen' \subseteq Events
      BY <3>1 DEF InboxInv, TypeOK
    <3>. QED BY <3>1, <3>2, <3>3
  <2>2. CASE \E outcome \in Steps : Handled(p, e, outcome)
    <3>1. PICK outcome \in Steps : Handled(p, e, outcome)
      BY <2>2
    <3>2. /\ outcome \in {"applied", "deferred", "caught"}
          /\ outcome = "applied" => e \in ready
          /\ applied' = IF outcome = "applied" THEN applied \cup {e} ELSE applied
          /\ run' = [run EXCEPT ![p] = [run[p] EXCEPT !.step = outcome, !.event = e, !.todo = run[p].todo \ {e}]]
          /\ unseen' = unseen
      BY <3>1 DEF Handled
    <3>3. applied' \subseteq ready /\ unseen \subseteq Events
      BY <3>2 DEF InboxInv, TypeOK
    <3>. QED BY <3>2, <3>3
  <2>. QED BY <2>1, <2>2 DEF Process
<1>. DEFINE r == [run[p] EXCEPT !.step = outcome, !.event = e, !.todo = run[p].todo \ {e}]
<1>3. /\ r \in Runs
      /\ r.step = outcome /\ r.event = e /\ r.todo = run[p].todo \ {e}
      /\ r.age = run[p].age /\ r.tries = run[p].tries
  BY DEF InboxInv, TypeOK, Runs
<1>4. run' = [run EXCEPT ![p] = r]
  BY <1>2
<1>5. \A f \in Events : r.tries[f] <= row[f].attempts
  BY <1>3 DEF InboxInv, RunsInOrder
<1>6. \A f \in Events : f \in r.todo \/ r.event = f => Holds(p, f)
  BY <1>1, <1>3 DEF Holds
<1>7. crashes' \in Nat /\ replays' \in Nat
  BY <1>1 DEF InboxInv, TypeOK, counters
<1>. HIDE DEF r
<1>. QED BY <1>1, <1>2, <1>3, <1>4, <1>5, <1>6, <1>7, NoneIsNoEvent, RowsStandKeeps

LEMMA WriteThrowsKeeps ==
  ASSUME InboxInv, NEW p \in Processes, WriteThrows(p)
  PROVE  InboxInv'
<1>. DEFINE r == [run[p] EXCEPT !.step = "caught"]
<1>1. /\ run[p].step \notin {"idle", "pick"}
      /\ run' = [run EXCEPT ![p] = r]
      /\ UNCHANGED <<row, ready, counters, history>>
  BY DEF WriteThrows
<1>2. /\ r \in Runs
      /\ r.step = "caught" /\ r.event = run[p].event /\ r.todo = run[p].todo
      /\ r.age = run[p].age /\ r.tries = run[p].tries
  BY DEF InboxInv, TypeOK, Runs, Steps
<1>3. r.event \in Events /\ r.event \notin r.todo
  BY <1>1, <1>2, InHand DEF InboxInv, RunsInOrder
<1>4. \A f \in Events : r.tries[f] <= row[f].attempts
  BY <1>2 DEF InboxInv, RunsInOrder
<1>5. \A f \in Events : f \in r.todo \/ r.event = f => Holds(p, f)
  BY <1>2 DEF Holds
<1>6. /\ crashes' \in Nat /\ replays' \in Nat
      /\ applied' = applied /\ applied \subseteq ready /\ unseen' = unseen /\ unseen \subseteq Events
      /\ UNCHANGED <<row, ready, disturbed>>
  BY <1>1 DEF InboxInv, TypeOK, counters, history
<1>. HIDE DEF r
<1>. QED BY <1>1, <1>2, <1>3, <1>4, <1>5, <1>6, NoneIsNoEvent, RowsStandKeeps

LEMMA CrashKeeps ==
  ASSUME InboxInv, NEW p \in Processes, Crash(p)
  PROVE  InboxInv'
<1>1. /\ run' = [run EXCEPT ![p] = Idle]
      /\ UNCHANGED <<row, ready, replays, history>> /\ crashes' = crashes + 1
  BY DEF Crash
<1>2. \A f \in Events : Idle.tries[f] <= row[f].attempts
  BY IdleIsRun DEF InboxInv, TypeOK, Rows
<1>3. /\ crashes' \in Nat /\ replays' \in Nat
      /\ applied' = applied /\ applied \subseteq ready /\ unseen' = unseen /\ unseen \subseteq Events
      /\ UNCHANGED <<row, ready, disturbed>>
  BY <1>1 DEF InboxInv, TypeOK, history
<1>4. \A f \in Events : ~(f \in Idle.todo \/ Idle.event = f)
  BY IdleIsRun, NoneIsNoEvent
<1>. HIDE DEF Idle
<1>. QED BY <1>1, <1>2, <1>3, <1>4, IdleIsRun, RowsStandKeeps

\* A replay takes an event that it does not hold by a claim; it is no worker.
LEMMA ReplayKeeps ==
  ASSUME InboxInv, NEW o \in Operators, NEW e \in Events, Replay(o, e)
  PROVE  InboxInv'
<1>. DEFINE r == [step |-> "pick", event |-> None, todo |-> {e},
                  tries |-> [Idle.tries EXCEPT ![e] = row[e].attempts], age |-> 0]
<1>1. /\ row[e].status # "none" /\ replays' = replays + 1
      /\ UNCHANGED <<row, ready, crashes, history>>
  BY DEF Replay
<1>2. o \in Processes /\ o \notin Workers
  BY InboxAssumption DEF Processes
<1>3. /\ r \in Runs
      /\ \A f \in Events : r.tries[f] = IF f = e THEN row[e].attempts ELSE 0
  BY IdleIsRun DEF InboxInv, TypeOK, Runs, Rows, Steps
<1>4. /\ run'[o] = r /\ DOMAIN run' = Processes
      /\ \A q \in Processes \ {o} : run'[q] = run[q]
  BY <1>2 DEF Replay, Idle, InboxInv, TypeOK
<1>5. TypeOK'
  <2>1. run' \in [Processes -> Runs]
    BY <1>3, <1>4 DEF Replay, InboxInv, TypeOK
  <2>. QED BY <1>1, <1>4, <2>1 DEF InboxInv, TypeOK, history
<1>6. \A q \in Processes \ {o}, f \in Events : Holds(q, f)' <=> Holds(q, f)
  BY <1>4 DEF Holds
<1>7. \A f \in Events : r.tries[f] <= row[f].attempts
  BY <1>3 DEF InboxInv, TypeOK, Rows
<1>8. r.step = "pick" /\ r.event = None /\ r.todo = {e}
  OBVIOUS
<1>. HIDE DEF r
<1>9. RunsInOrder'
  BY <1>1, <1>4, <1>6, <1>7, <1>8, NoneIsNoEvent DEF InboxInv, RunsInOrder, Holds, history
<1>10. \A w \in Workers : run'[w] = run[w]
  BY <1>2, <1>4 DEF Processes
<1>11. DeadLettersAreEarned' /\ LeaseHolds' /\ ClaimsAreExclusive'
  BY <1>1, <1>10 DEF InboxInv, DeadLettersAreEarned, LeaseHolds, ClaimsAreExclusive, Holds, Late, history
<1>. QED BY <1>5, <1>9, <1>11 DEF InboxInv

-----------------------------------------------------------------------------
(* The write of an outcome *)

\* Whatever is written: the run has one event less in hand, and the row of no
\* other event changes.
LEMMA WriteEffect ==
  ASSUME InboxInv, NEW p \in Processes, run[p].step \notin {"idle", "pick"},
         NEW status \in {"pending", "processed", "failed"}, NEW due \in Nat,
         Write(p, status, due)
  PROVE  LET e == run[p].event IN
         /\ e \in Events
         /\ row' \in [Events -> Rows]
         /\ row'[e].status = status /\ row'[e].attempts = row[e].attempts
         /\ \A f \in Events \ {e} : row'[f] = row[f]
         /\ run' \in [Processes -> Runs]
         /\ run'[p].step \in {"idle", "pick"} /\ run'[p].event = None
         /\ run'[p].todo = run[p].todo /\ e \notin run[p].todo
         /\ run'[p].step = "idle" => run[p].todo = {}
         /\ run'[p].step = "pick" => run'[p].age = run[p].age
         /\ \A f \in Events : run'[p].tries[f] \in {0, run[p].tries[f]}
         /\ \A q \in Processes \ {p} : run'[q] = run[q]
         /\ disturbed' = IF Late(p) THEN disturbed \cup {e} ELSE disturbed
         /\ UNCHANGED <<ready, crashes, replays, applied, unseen>>
<1>. DEFINE e == run[p].event
            r == [run[p] EXCEPT !.step = "pick", !.event = None, !.tries = [run[p].tries EXCEPT ![e] = 0]]
<1>1. e \in Events /\ e \notin run[p].todo
  BY InHand DEF InboxInv, RunsInOrder
<1>2. /\ row' = [row EXCEPT ![e].status = status, ![e].due = due]
      /\ run' = [run EXCEPT ![p] = IF run[p].todo = {} THEN Idle ELSE r]
      /\ disturbed' = IF Late(p) THEN disturbed \cup {e} ELSE disturbed
      /\ UNCHANGED <<ready, crashes, replays, applied, unseen>>
  BY DEF Write, counters
<1>3. /\ row' \in [Events -> Rows]
      /\ row'[e].status = status /\ row'[e].attempts = row[e].attempts
      /\ \A f \in Events \ {e} : row'[f] = row[f]
  BY <1>1, <1>2 DEF InboxInv, TypeOK, Rows
<1>4. [run[p].tries EXCEPT ![e] = 0] \in [Events -> 0 .. MaxAttempts]
  BY InboxAssumption DEF InboxInv, TypeOK, Runs
<1>5. /\ r \in Runs
      /\ r.step = "pick" /\ r.event = None /\ r.todo = run[p].todo /\ r.age = run[p].age
      /\ \A f \in Events : r.tries[f] \in {0, run[p].tries[f]}
  <2>1. run[p] \in Runs
    BY DEF InboxInv, TypeOK
  <2>2. \A f \in Events : [run[p].tries EXCEPT ![e] = 0][f] \in {0, run[p].tries[f]}
    BY <2>1 DEF Runs
  <2>. QED BY <1>4, <2>1, <2>2 DEF Runs, Steps
<1>. HIDE DEF r
<1>6. run'[p] = IF run[p].todo = {} THEN Idle ELSE r
  BY <1>2 DEF InboxInv, TypeOK
<1>7. /\ run' \in [Processes -> Runs]
      /\ \A q \in Processes \ {p} : run'[q] = run[q]
  BY <1>2, <1>5, IdleIsRun DEF InboxInv, TypeOK
<1>8. /\ run'[p].step \in {"idle", "pick"} /\ run'[p].event = None
      /\ run'[p].todo = run[p].todo
      /\ run'[p].step = "idle" => run[p].todo = {}
      /\ run'[p].step = "pick" => run'[p].age = run[p].age
      /\ \A f \in Events : run'[p].tries[f] \in {0, run[p].tries[f]}
  BY <1>5, <1>6, IdleIsRun
<1>. QED BY <1>1, <1>2, <1>3, <1>7, <1>8

LEMMA WriteKeeps ==
  ASSUME InboxInv, NEW p \in Processes, run[p].step \notin {"idle", "pick"},
         NEW status \in {"pending", "processed", "failed"}, NEW due \in Nat,
         status = "failed" => row[run[p].event].attempts = MaxAttempts \/ run[p].event \in unseen,
         Write(p, status, due)
  PROVE  InboxInv'
<1>. DEFINE e == run[p].event
<1>1. /\ e \in Events
      /\ row' \in [Events -> Rows]
      /\ row'[e].status = status /\ row'[e].attempts = row[e].attempts
      /\ \A f \in Events \ {e} : row'[f] = row[f]
      /\ run' \in [Processes -> Runs]
      /\ run'[p].step \in {"idle", "pick"} /\ run'[p].event = None
      /\ run'[p].todo = run[p].todo /\ e \notin run[p].todo
      /\ run'[p].step = "idle" => run[p].todo = {}
      /\ run'[p].step = "pick" => run'[p].age = run[p].age
      /\ \A f \in Events : run'[p].tries[f] \in {0, run[p].tries[f]}
      /\ \A q \in Processes \ {p} : run'[q] = run[q]
      /\ disturbed' = IF Late(p) THEN disturbed \cup {e} ELSE disturbed
      /\ UNCHANGED <<ready, crashes, replays, applied, unseen>>
  BY WriteEffect
<1>2. TypeOK'
  BY <1>1 DEF InboxInv, TypeOK
<1>3. /\ \A f \in Events : Holds(p, f)' => Holds(p, f) /\ f # e
      /\ \A q \in Processes \ {p}, f \in Events : Holds(q, f)' <=> Holds(q, f)
  BY <1>1, NoneIsNoEvent DEF Holds
<1>4. \A f \in Events : row'[f].attempts = row[f].attempts /\ (row[f].status # "none" => row'[f].status # "none")
  BY <1>1
<1>5. RunsInOrder'
  <2>. SUFFICES ASSUME NEW q \in Processes
                PROVE  /\ run'[q].event \notin run'[q].todo
                       /\ run'[q].step = "idle" => run'[q].todo = {}
                       /\ run'[q].step = "applied" => run'[q].event \in applied
                       /\ run'[q].step = "gone" => run'[q].event \in unseen
                       /\ \A f \in Events : Holds(q, f)' => row'[f].status # "none"
                       /\ \A f \in Events : run'[q].tries[f] <= row'[f].attempts
    BY <1>1 DEF RunsInOrder
  <2>1. CASE q = p
    <3>1. \A f \in Events : run'[p].tries[f] <= row'[f].attempts
      BY <1>1, <1>4 DEF InboxInv, RunsInOrder, TypeOK, Rows
    <3>2. run[p].todo \subseteq Events
      BY DEF InboxInv, TypeOK, Runs
    <3>. QED BY <1>1, <1>3, <1>4, <2>1, <3>1, <3>2, NoneIsNoEvent DEF InboxInv, RunsInOrder
  <2>2. CASE q # p
    BY <1>1, <1>3, <1>4, <2>2 DEF InboxInv, RunsInOrder
  <2>. QED BY <2>1, <2>2
<1>6. DeadLettersAreEarned'
  BY <1>1, <1>4 DEF InboxInv, DeadLettersAreEarned
<1>7. \A w \in Workers, f \in Events :
        Holds(w, f)' => Holds(w, f) /\ (Late(w)' <=> Late(w)) /\ run'[w].age = run[w].age
  <2>. SUFFICES ASSUME NEW w \in Workers, NEW f \in Events, Holds(w, f)'
                PROVE  Holds(w, f) /\ (Late(w)' <=> Late(w)) /\ run'[w].age = run[w].age
    OBVIOUS
  <2>1. CASE w = p
    <3>1. run'[p].step = "pick"
      BY <1>1, <2>1, NoneIsNoEvent DEF Holds
    <3>. QED BY <1>1, <1>3, <2>1, <3>1 DEF Late
  <2>2. CASE w # p
    BY <1>1, <1>3, <2>2 DEF Late, Processes
  <2>. QED BY <2>1, <2>2
<1>8. \A f \in Events : f \notin disturbed' => f \notin disturbed /\ (f = e => p \in Workers /\ ~Late(p))
  BY <1>1 DEF Late, Processes
<1>9. LeaseHolds'
  <2>. SUFFICES ASSUME NEW w \in Workers, NEW f \in Events, f \notin disturbed', Holds(w, f)', ~Late(w)'
                PROVE  row'[f].status = "processing" /\ row'[f].due + run'[w].age >= Lease
    BY DEF LeaseHolds
  <2>1. Holds(w, f) /\ ~Late(w) /\ f \notin disturbed
    BY <1>7, <1>8
  \* The writer would have had the event in hand too.
  <2>2. f # e
    <3>. SUFFICES ASSUME f = e PROVE FALSE
      OBVIOUS
    <3>1. w # p
      BY <1>3
    <3>2. Holds(p, e)
      BY DEF Holds
    <3>. QED BY <1>1, <1>8, <2>1, <3>1, <3>2 DEF InboxInv, ClaimsAreExclusive
  <2>. QED BY <1>1, <1>7, <2>1, <2>2 DEF InboxInv, LeaseHolds
<1>10. ClaimsAreExclusive'
  BY <1>7, <1>8 DEF InboxInv, ClaimsAreExclusive
<1>. QED BY <1>2, <1>5, <1>6, <1>9, <1>10 DEF InboxInv

\* What the four outcomes write.
LEMMA Outcomes ==
  ASSUME InboxInv, NEW p \in Processes, MarkProcessed(p) \/ Defer(p) \/ Retry(p) \/ MarkDeadLettered(p)
  PROVE  /\ run[p].step \notin {"idle", "pick"}
         /\ \E status \in {"pending", "processed", "failed"}, due \in Nat :
              /\ Write(p, status, due)
              /\ status = "processed" => run[p].event \in applied
              /\ status = "failed" => row[run[p].event].attempts = MaxAttempts \/ run[p].event \in unseen
<1>1. run[p].step \notin {"idle", "pick"}
  BY DEF MarkProcessed, Defer, Retry, MarkDeadLettered
<1>2. run[p].event \in Events
  BY <1>1, InHand
<1>3. row[run[p].event].due \in Nat
  BY <1>2 DEF InboxInv, TypeOK, Rows
<1>4. RetryIn(p) \in Nat
  <2>1. run[p].tries[run[p].event] \in 0 .. MaxAttempts /\ run[p].age \in Nat
    BY <1>2 DEF InboxInv, TypeOK, Runs
  <2>2. Larger(1, run[p].tries[run[p].event]) \in 1 .. MaxAttempts
    BY <2>1, InboxAssumption DEF Larger
  <2>3. Backoff[Larger(1, run[p].tries[run[p].event])] \in Nat
    BY <2>2, InboxAssumption
  <2>. QED BY <2>1, <2>3 DEF RetryIn, Larger
<1>5. CASE MarkProcessed(p)
  BY <1>1, <1>3, <1>5 DEF MarkProcessed, InboxInv, RunsInOrder
<1>6. CASE Defer(p)
  BY <1>1, <1>4, <1>6 DEF Defer
<1>7. CASE Retry(p)
  BY <1>1, <1>4, <1>7 DEF Retry
<1>8. CASE MarkDeadLettered(p)
  <2>1. run[p].step = "gone" => run[p].event \in unseen
    BY DEF InboxInv, RunsInOrder
  <2>2. Exhausted(p) => row[run[p].event].attempts = MaxAttempts
    <3>1. run[p].tries[run[p].event] <= row[run[p].event].attempts
      BY <1>2 DEF InboxInv, RunsInOrder
    <3>2. run[p].tries[run[p].event] \in Int /\ row[run[p].event].attempts \in 0 .. MaxAttempts
      BY <1>2 DEF InboxInv, TypeOK, Runs, Rows
    <3>. QED BY <3>1, <3>2, InboxAssumption DEF Exhausted
  <2>. QED BY <1>1, <1>3, <1>8, <2>1, <2>2 DEF MarkDeadLettered
<1>. QED BY <1>5, <1>6, <1>7, <1>8

LEMMA NextInbox == InboxInv /\ [Next]_vars => InboxInv'
<1>. SUFFICES ASSUME InboxInv, [Next]_vars PROVE InboxInv'
  OBVIOUS
<1>1. CASE UNCHANGED vars
  BY <1>1 DEF vars, counters, history, InboxInv, TypeOK, RunsInOrder, DeadLettersAreEarned, LeaseHolds,
     ClaimsAreExclusive, Holds, Late
<1>2. ASSUME NEW p \in Processes, MarkProcessed(p) \/ Defer(p) \/ Retry(p) \/ MarkDeadLettered(p)
      PROVE  InboxInv'
  <2>1. /\ run[p].step \notin {"idle", "pick"}
        /\ \E status \in {"pending", "processed", "failed"}, due \in Nat :
             /\ Write(p, status, due)
             /\ status = "failed" => row[run[p].event].attempts = MaxAttempts \/ run[p].event \in unseen
    BY <1>2, Outcomes
  <2>. QED BY <2>1, WriteKeeps
<1>. QED
  BY <1>1, <1>2, ReceiveKeeps, BecomeReadyKeeps, TickKeeps, ClaimKeeps, ReplayKeeps, ProcessKeeps,
     WriteThrowsKeeps, CrashKeeps DEF Next, Proceed

-----------------------------------------------------------------------------
\* Attempts stay within their bound, and handlers commit only what is ready.
THEOREM TypeCorrect == Spec => []TypeOK
<1>1. InboxInv => TypeOK
  BY DEF InboxInv
<1>. QED BY <1>1, InitInbox, NextInbox, PTL DEF Spec

\* No event is dead-lettered before it has had its attempts, unless Stripe no
\* longer gives it.
THEOREM DeadLettersEarned == Spec => []DeadLettersAreEarned
<1>1. InboxInv => DeadLettersAreEarned
  BY DEF InboxInv
<1>. QED BY <1>1, InitInbox, NextInbox, PTL DEF Spec

\* A lease excludes other workers for as long as it runs.
THEOREM ClaimsExclude == Spec => []ClaimsAreExclusive
<1>1. InboxInv => ClaimsAreExclusive
  BY DEF InboxInv
<1>. QED BY <1>1, InitInbox, NextInbox, PTL DEF Spec

-----------------------------------------------------------------------------
(* Steps *)

\* Only the write of an outcome settles an event, or opens a settled one.
LEMMA OnlyWritesSettle ==
  ASSUME InboxInv, [Next]_vars
  PROVE  \/ \E p \in Processes : MarkProcessed(p) \/ Defer(p) \/ Retry(p) \/ MarkDeadLettered(p)
         \/ /\ \A e \in Events : Settled(e)' <=> Settled(e)
            /\ \A e \in Events : Settled(e) => row'[e].status = row[e].status
<1>1. CASE row' = row
  BY <1>1 DEF Settled
<1>2. CASE \E e \in Events : Receive(e)
  <2>1. PICK e \in Events : row[e].status = "none" /\ row' = [row EXCEPT ![e].status = "pending"]
    BY <1>2 DEF Receive
  <2>2. \A f \in Events : row'[f].status = IF f = e THEN "pending" ELSE row[f].status
    BY <2>1 DEF InboxInv, TypeOK, Rows
  <2>. QED BY <2>1, <2>2 DEF Settled
<1>3. CASE Tick
  <2>1. \A e \in Events : row'[e].status = row[e].status
    <3>. TAKE e \in Events
    <3>1. row'[e] = [row[e] EXCEPT !.due = Larger(0, row[e].due - 1)]
      BY <1>3 DEF Tick
    <3>. QED BY <3>1 DEF InboxInv, TypeOK, Rows
  <2>. QED BY <2>1 DEF Settled
<1>4. CASE \E w \in Workers : Claim(w)
  <2>1. PICK w \in Workers : Claim(w)
    BY <1>4
  <2>2. \A e \in Events :
          row'[e] # row[e] => row'[e].status = "processing" /\ row[e].status \in {"pending", "processing"}
    BY <2>1 DEF Claim, Eligible
  <2>. QED BY <2>2 DEF Settled
<1>. QED
  BY <1>1, <1>2, <1>3, <1>4 DEF Next, Proceed, BecomeReady, Replay, Process, WriteThrows, Crash, vars

\* What is settled stays settled, unless a replay or a run older than its lease
\* writes it again.
THEOREM SettledIsFinal == Spec => SettledStays
<1>1. InboxInv /\ [Next]_vars => [\A e \in Events \ disturbed' : Settled(e) => row'[e].status = row[e].status]_vars
  <2>. SUFFICES ASSUME InboxInv, [Next]_vars, NEW e \in Events, e \notin disturbed', Settled(e)
                PROVE  row'[e].status = row[e].status
    OBVIOUS
  <2>. SUFFICES ASSUME NEW p \in Processes,
                       MarkProcessed(p) \/ Defer(p) \/ Retry(p) \/ MarkDeadLettered(p)
                PROVE  row'[e].status = row[e].status
    BY OnlyWritesSettle
  <2>1. PICK status \in {"pending", "processed", "failed"}, due \in Nat : Write(p, status, due)
    BY Outcomes
  <2>2. /\ run[p].event \in Events
        /\ \A f \in Events \ {run[p].event} : row'[f] = row[f]
        /\ disturbed' = IF Late(p) THEN disturbed \cup {run[p].event} ELSE disturbed
    BY <2>1, Outcomes, WriteEffect
  <2>3. run[p].event # e
    <3>. SUFFICES ASSUME run[p].event = e PROVE FALSE
      OBVIOUS
    <3>1. p \in Workers /\ ~Late(p) /\ e \notin disturbed
      BY <2>2 DEF Late, Processes
    <3>2. row[e].status = "processing"
      BY <3>1 DEF InboxInv, LeaseHolds, Holds
    <3>. QED BY <3>2 DEF Settled
  <2>. QED BY <2>2, <2>3
<1>. QED BY <1>1, InitInbox, NextInbox, PTL DEF Spec, SettledStays

LEMMA DeliveryInit == Init => Delivery!Init
BY DEF Init, Delivery!Init, Settled

LEMMA DeliveryStep ==
  ASSUME InboxInv, [Next]_vars
  PROVE  [Delivery!Next]_(Delivery!vars)
<1>. DEFINE received == {e \in Events : row[e].status # "none"}
            closed == [e \in Events |-> IF Settled(e) THEN row[e].status ELSE "no"]
<1>1. CASE \E e \in Events : Receive(e)
  <2>1. PICK e \in Events : /\ row[e].status = "none" /\ row' = [row EXCEPT ![e].status = "pending"]
                            /\ applied' = applied
    BY <1>1 DEF Receive, history
  <2>2. \A f \in Events : row'[f].status = IF f = e THEN "pending" ELSE row[f].status
    BY <2>1 DEF InboxInv, TypeOK, Rows
  <2>3. received' = received \cup {e} /\ e \notin received
    BY <2>1, <2>2
  <2>4. closed' = closed
    BY <2>1, <2>2 DEF Settled
  <2>5. Delivery!Receive(e)
    BY <2>1, <2>3, <2>4 DEF Delivery!Receive
  <2>. QED BY <2>5 DEF Delivery!Next
<1>2. CASE \E p \in Processes, e \in Events : Process(p, e)
  <2>1. PICK p \in Processes, e \in Events : Process(p, e)
    BY <1>2
  <2>2. row' = row /\ applied' \in {applied, applied \cup {e}} /\ Holds(p, e)
    BY <2>1 DEF Process, NotRetrieved, Handled, Holds
  <2>3. received' = received /\ closed' = closed /\ e \in received
    BY <2>2 DEF Settled, InboxInv, RunsInOrder
  <2>4. Delivery!Apply(e) \/ UNCHANGED Delivery!vars
    BY <2>2, <2>3 DEF Delivery!Apply, Delivery!vars
  <2>. QED BY <2>4 DEF Delivery!Next
<1>3. CASE \E p \in Processes : MarkProcessed(p) \/ Defer(p) \/ Retry(p) \/ MarkDeadLettered(p)
  <2>1. PICK p \in Processes : MarkProcessed(p) \/ Defer(p) \/ Retry(p) \/ MarkDeadLettered(p)
    BY <1>3
  <2>. DEFINE e == run[p].event
  <2>2. PICK status \in {"pending", "processed", "failed"}, due \in Nat :
          Write(p, status, due) /\ (status = "processed" => e \in applied)
    BY <2>1, Outcomes
  <2>3. /\ e \in Events /\ row'[e].status = status
        /\ \A f \in Events \ {e} : row'[f] = row[f]
        /\ applied' = applied
    BY <2>1, <2>2, Outcomes, WriteEffect
  <2>4. e \in received
    BY <2>3 DEF InboxInv, RunsInOrder, Holds
  <2>5. received' = received
    BY <2>3, <2>4
  <2>. DEFINE outcome == IF status = "pending" THEN "no" ELSE status
  <2>6. closed' = [closed EXCEPT ![e] = outcome]
    BY <2>3 DEF Settled
  <2>7. Delivery!Close(e, outcome)
    BY <2>2, <2>3, <2>4, <2>5, <2>6 DEF Delivery!Close
  <2>8. outcome \in {"no", "processed", "failed"}
    OBVIOUS
  <2>. QED BY <2>3, <2>7, <2>8 DEF Delivery!Next
<1>4. CASE /\ applied' = applied
           /\ \A e \in Events : (row'[e].status # "none") <=> (row[e].status # "none")
           /\ \A e \in Events : IF Settled(e) THEN row'[e].status = row[e].status ELSE ~Settled(e)'
  <2>1. received' = received
    BY <1>4
  <2>2. closed' = closed
    BY <1>4 DEF Settled
  <2>. QED BY <1>4, <2>1, <2>2 DEF Delivery!vars
\* The other steps change no row, but for the clock and for claims.
<1>5. CASE Tick
  <2>1. \A e \in Events : row'[e].status = row[e].status
    <3>. TAKE e \in Events
    <3>1. row'[e] = [row[e] EXCEPT !.due = Larger(0, row[e].due - 1)]
      BY <1>5 DEF Tick
    <3>. QED BY <3>1 DEF InboxInv, TypeOK, Rows
  <2>. QED BY <1>4, <1>5, <2>1 DEF Settled, Tick, history
<1>6. CASE \E w \in Workers : Claim(w)
  <2>1. PICK w \in Workers : Claim(w)
    BY <1>6
  <2>2. \A e \in Events :
          row'[e] # row[e] => row'[e].status = "processing" /\ row[e].status \in {"pending", "processing"}
    BY <2>1 DEF Claim, Eligible
  <2>. QED BY <1>4, <2>1, <2>2 DEF Settled, Claim, history
<1>7. CASE row' = row /\ applied' = applied
  BY <1>4, <1>7 DEF Settled
<1>. QED
  BY <1>1, <1>2, <1>3, <1>5, <1>6, <1>7
     DEF Next, Proceed, BecomeReady, Replay, WriteThrows, Crash, history, vars

\* The inbox implements EventDelivery: a handler gets every event that was
\* received, and an event is closed as processed only when one has committed.
THEOREM InboxDelivers == Spec => KeepsDelivery
BY InitInbox, NextInbox, DeliveryInit, DeliveryStep, PTL DEF Spec, KeepsDelivery, Delivery!Spec
=============================================================================
