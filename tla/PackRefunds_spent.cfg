\* One pack, drawn on between the request and the sweep; nothing fails.
SPECIFICATION Spec
CONSTANTS
  NumPacks = 1
  NumRefunds = 1
  Units = 2
  Price = 2
  MaxFaults = 0
INVARIANTS
  PaidBackPacksAreUnused
\* every refund settled and every pack over: nothing is left to do
CHECK_DEADLOCK FALSE
