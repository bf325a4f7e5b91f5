---------------------------- MODULE MC_Bookings ----------------------------
(***************************************************************************)
(* Two invitations in different time zones and two slots that overlap: one *)
(* is on the same day in both zones, the other is not.  The slots are near *)
(* each other, so that a request for one may hint at the other; honest     *)
(* requests hint at the start of their own slot.  Requests are             *)
(* interchangeable.                                                        *)
(***************************************************************************)
EXTENDS Bookings, TLC

RequestSymmetry == Permutations(Requests)

MCSlots == {"morning", "noon"}
HonestHints == {<<s, s>> : s \in MCSlots}
AnyHint == {<<"morning", "noon">>} \cup HonestHints

MCOverlap == MCSlots \X MCSlots

MCDay == [i \in {"copenhagen", "auckland"} |->
            [h \in MCSlots |-> IF i = "auckland" /\ h = "noon" THEN 2 ELSE 1]]
=============================================================================
