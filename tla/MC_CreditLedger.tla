-------------------------- MODULE MC_CreditLedger --------------------------
(***************************************************************************)
(* CreditLedger with two reservations over two grants: a reservation that  *)
(* is extended, refunded or left behind alone, or beside one that competes *)
(* with it for the units.                                                  *)
(***************************************************************************)
EXTENDS CreditLedger

UsedKeys == {k \in Keys : marker[k] # NoMarker}

\* Keys are interchangeable and are used in their order.  The second
\* reservation is of one unit and comes without keys.  Only calls of customers
\* are ruled out: neither the clock nor a worker has to wait.
Budget ==
  /\ \A k \in UsedKeys : 1 .. k \subseteq UsedKeys
  /\ \/ resState[2] = "none"
     \/ UsedKeys = {} /\ maximum[2] = 1

MCSpec == Init /\ [][Next /\ Budget']_vars /\ Fairness
=============================================================================
