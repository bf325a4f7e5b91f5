-------------------------- MODULE MC_AutoRecharge --------------------------
(***************************************************************************)
(* AutoRecharge with four charges, two of which the cap allows in a month. *)
(***************************************************************************)
EXTENDS AutoRecharge
=============================================================================
