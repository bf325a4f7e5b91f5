----------------------- MODULE MC_CreditTransactions -----------------------
(***************************************************************************)
(* CreditTransactions on small instances: two grants and three             *)
(* transactions, each of which picks one of the listed calls, so that a    *)
(* call can also be its own retry with the same key.                       *)
(***************************************************************************)
EXTENDS CreditTransactions

Call(op, row, units, key) == [op |-> op, row |-> row, units |-> units, key |-> key]

\* Reservation 1 holds a unit of both grants, 2 and 3 are to be made.
TwoUnitsEach == <<2, 2>>
FirstIsOpen == <<<<1, 1>>, <<0, 0>>, <<0, 0>>>>

\* Its allocations have ids in the opposite order of the grants.
LaterFirst == <<<<2, 1>>, <<1, 2>>, <<1, 2>>>>

\* Settlement, release and extension of one reservation, two new ones, of which the
\* first takes of both grants, and operations on the grants.
MixedCalls ==
  {Call("settle", 1, 1, "s"), Call("release", 1, 0, "l"), Call("extend", 1, 1, "c"),
   Call("reserve", 2, 3, "a"), Call("reserve", 3, 1, "b"),
   Call("freeze", 1, 0, "f"), Call("revoke", 2, 0, "v"), Call("adjust", 1, 1, "j")}

ReleaseAndReserve == {Call("release", 1, 0, "l"), Call("reserve", 2, 3, "a")}
=============================================================================
