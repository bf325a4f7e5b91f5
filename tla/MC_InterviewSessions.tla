----------------------- MODULE MC_InterviewSessions -----------------------
(***************************************************************************)
(* InterviewSessions with two clients and a reservation of two minutes,    *)
(* of which a client may report three.                                     *)
(***************************************************************************)
EXTENDS InterviewSessions, TLC

Symmetry == Permutations(Clients)
=============================================================================
