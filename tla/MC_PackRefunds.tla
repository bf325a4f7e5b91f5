--------------------------- MODULE MC_PackRefunds ---------------------------
(***************************************************************************)
(* PackRefunds with two refunds: of one pack in every way, or one of them  *)
(* of a second pack.                                                       *)
(***************************************************************************)
EXTENDS PackRefunds

\* The second pack is bought after the first, before any request, and stays
\* unused; with it there is no fault.  Only steps of customers, operators and
\* failures, and the expiry of that pack, are ruled out.
Budget ==
  attempt[2] # "none" =>
    /\ session[1] = "complete" /\ session[2] # "expired"
    /\ used[2] = 0 /\ grant[2].state # "expired" /\ faults = 0
    /\ session[2] # "complete" => \A r \in Refunds : refund[r] = NoRefund
    /\ \A r \in Refunds : refund[r].pack = 2 => r = 2 /\ refund[r].policy = "full"

MCSpec == Init /\ [][Next /\ Budget']_vars /\ Fairness
=============================================================================
