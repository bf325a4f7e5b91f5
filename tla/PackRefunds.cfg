\* Two refunds of one or two packs.
SPECIFICATION MCSpec
CONSTANTS
  NumPacks = 2
  NumRefunds = 2
  Units = 2
  Price = 2
  MaxFaults = 1
INVARIANTS
  TypeOK
  RefundsTakeTheirUnits
  RefundsAreOnRecord
PROPERTIES
  EveryRefundSettles
\* every refund settled and every pack over: nothing is left to do
CHECK_DEADLOCK FALSE
