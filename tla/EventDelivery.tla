---------------------------- MODULE EventDelivery ----------------------------
(***************************************************************************)
(* What the webhook inbox promises its handlers: an event that was         *)
(* received is handed over as often as it takes, it is closed as processed *)
(* only when its handler has committed, and it may be given up.  A closed  *)
(* event may be opened and handed over again, so handlers must bear        *)
(* repetition.                                                             *)
(***************************************************************************)
CONSTANT Events

VARIABLES
  received,  \* events that are in the inbox
  applied,   \* events whose handler has committed at least once
  closed     \* events the inbox is through with: "no", "processed" or "failed"

vars == <<received, applied, closed>>

Init == received = {} /\ applied = {} /\ closed = [e \in Events |-> "no"]

Receive(e) == e \notin received /\ received' = received \cup {e} /\ UNCHANGED <<applied, closed>>

Apply(e) == e \in received /\ applied' = applied \cup {e} /\ UNCHANGED <<received, closed>>

Close(e, outcome) ==
  /\ e \in received
  /\ outcome = "processed" => e \in applied
  /\ closed' = [closed EXCEPT ![e] = outcome]
  /\ UNCHANGED <<received, applied>>

Next == \E e \in Events : Receive(e) \/ Apply(e) \/ \E outcome \in {"no", "processed", "failed"} : Close(e, outcome)

Spec == Init /\ [][Next]_vars
=============================================================================
