--------------------------- MODULE CreditAccount ---------------------------
(***************************************************************************)
(* What the credit ledger promises, with no rows, keys or clocks: every    *)
(* unit ever issued from a grant is at any moment in exactly one place:    *)
(* spendable, held by one open reservation, spent by a settled one, or     *)
(* gone.  A step says how much it moves by the difference it makes, so it  *)
(* leaves open which grants a reservation draws on and why units go.       *)
(***************************************************************************)
EXTENDS Sums

CONSTANTS NumGrants, NumReservations

Grants == 1 .. NumGrants
Reservations == 1 .. NumReservations

VARIABLES
  issued,   \* units ever put into a grant
  balance,  \* spendable units of a grant
  held,     \* units of a grant an open reservation holds
  spent,    \* units of a grant a settled reservation used
  gone      \* units of a grant that were forfeited, revoked or re-issued

vars == <<issued, balance, held, spent, gone>>

Init ==
  /\ issued = [g \in Grants |-> 0]
  /\ balance = [g \in Grants |-> 0]
  /\ held = [r \in Reservations |-> [g \in Grants |-> 0]]
  /\ spent = [r \in Reservations |-> [g \in Grants |-> 0]]
  /\ gone = [g \in Grants |-> 0]

OnlyRowChanges(f, r) == \A q \in Reservations \ {r} : f'[q] = f[q]

Issue ==
  /\ \A g \in Grants : /\ issued'[g] >= issued[g]
                       /\ balance'[g] - balance[g] = issued'[g] - issued[g]
  /\ UNCHANGED <<held, spent, gone>>

\* A hold is paid for by the balances it draws on, in full.
Hold(r) ==
  /\ \A g \in Grants : /\ balance'[g] <= balance[g]
                       /\ held'[r][g] - held[r][g] = balance[g] - balance'[g]
  /\ OnlyRowChanges(held, r)
  /\ UNCHANGED <<issued, spent, gone>>

\* Everything a reservation holds is spent, given back or gone.
Close(r) ==
  /\ \A g \in Grants :
       /\ held'[r][g] = 0
       /\ spent'[r][g] >= spent[r][g]
       /\ balance'[g] >= balance[g]
       /\ gone'[g] >= gone[g]
       /\ (spent'[r][g] - spent[r][g]) + (balance'[g] - balance[g]) + (gone'[g] - gone[g])
            = held[r][g]
  /\ OnlyRowChanges(held, r)
  /\ OnlyRowChanges(spent, r)
  /\ UNCHANGED issued

Forfeit ==
  /\ \A g \in Grants : /\ balance'[g] <= balance[g]
                       /\ gone'[g] - gone[g] = balance[g] - balance'[g]
  /\ UNCHANGED <<issued, held, spent>>

\* Spent units come back: to their grant, or gone from it and issued elsewhere.
Refund(r) ==
  /\ \A g \in Grants :
       /\ spent'[r][g] <= spent[r][g]
       /\ issued'[g] >= issued[g]
       /\ gone'[g] >= gone[g]
       /\ balance'[g] >= balance[g] + (issued'[g] - issued[g])
       /\ (balance'[g] - balance[g]) + (gone'[g] - gone[g])
            = (spent[r][g] - spent'[r][g]) + (issued'[g] - issued[g])
  /\ OnlyRowChanges(spent, r)
  /\ UNCHANGED held

Next ==
  \/ Issue
  \/ Forfeit
  \/ \E r \in Reservations : Hold(r) \/ Close(r) \/ Refund(r)

Spec == Init /\ [][Next]_vars

TypeOK ==
  /\ issued \in [Grants -> Int]
  /\ balance \in [Grants -> Int]
  /\ held \in [Reservations -> [Grants -> Int]]
  /\ spent \in [Reservations -> [Grants -> Int]]
  /\ gone \in [Grants -> Int]

HeldOf(g) == Total([r \in Reservations |-> held[r][g]], NumReservations)
SpentOf(g) == Total([r \in Reservations |-> spent[r][g]], NumReservations)

\* Every unit issued from a grant is accounted for exactly once.
Conservation ==
  \A g \in Grants : issued[g] = balance[g] + HeldOf(g) + SpentOf(g) + gone[g]
=============================================================================
