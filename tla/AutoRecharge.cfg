\* Four charges over any number of months.
SPECIFICATION FairSpec
CONSTANTS
  NumCharges = 4
  Threshold = 1
  Cap = 2
  Opening = 1
INVARIANTS
  TypeOK
  EveryChargeIsTracked
  CapHolds
PROPERTIES
  ChargesSettle
\* with every charge made and the balance spent nothing is left to do
CHECK_DEADLOCK FALSE
