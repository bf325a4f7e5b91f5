-------------------------- MODULE MC_WebhookInbox --------------------------
(***************************************************************************)
(* WebhookInbox with two workers and one operator.  A tick is as long as a *)
(* lease, so runs do outlive them; the first backoff is shorter.  Three    *)
(* events and a batch of two: the limit does exclude events, and the last  *)
(* event is younger than the orphan.                                       *)
(***************************************************************************)
EXTENDS WebhookInbox

Growing == [a \in 1 .. MaxAttempts |-> IF a = 1 THEN 0 ELSE 1]

\* The last event waits for nothing, the first one may.
MCInit == Init /\ ready = {NumEvents}

\* One crash or one replay while there is one event, or the second one arrives.
OneDisturbance ==
  \/ crashes + replays = 0
  \/ crashes + replays = 1 /\ \A e \in Events \ {1} : row[e].status = "none"

\* With three events in the inbox one and the same worker is at work and
\* keeps within its lease.
TheWorker == CHOOSE w \in Workers : TRUE
Quiet ==
  /\ \A w \in Workers \ {TheWorker} : run[w].step = "idle"
  /\ run[TheWorker].age < Lease
  /\ disturbed = {}

\* None of the steps this rules out is one a process owes: the claims of the workers
\* are fair together, and time may pass between two runs.
Budget == OneDisturbance /\ (row[NumEvents].status # "none" => Quiet)

MCSpec == MCInit /\ [][Next /\ Budget']_vars /\ Fairness
=============================================================================
