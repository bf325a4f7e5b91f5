\* Two workers, an operator, two events and an orphan between them; batches of two.
SPECIFICATION MCSpec
CONSTANTS
  NumEvents = 3
  Orphans = {2}
  Workers = {w1, w2}
  Operators = {o}
  Batch = 2
  MaxAttempts = 2
  Lease = 1
  Backoff <- Growing
  MaxCrashes = 1
  MaxReplays = 1
INVARIANTS
  TypeOK
  ClaimsAreExclusive
  DeadLettersAreEarned
PROPERTIES
  SettledStays
  KeepsDelivery
  EveryEventSettles
\* when every event is settled nothing is left to do
CHECK_DEADLOCK FALSE
