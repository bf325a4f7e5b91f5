----------------------- MODULE MC_SubscriptionBlocks -----------------------
(***************************************************************************)
(* One included grant that outlives two dunning cycles, one that expires   *)
(* in the first, and one pack.                                             *)
(***************************************************************************)
EXTENDS SubscriptionBlocks

ShortAndLong == [g \in Grants |-> IF g = "short" THEN 2 ELSE Horizon + 1]
=============================================================================
