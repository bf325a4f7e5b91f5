\* All calls together: draws, settlement, release and operations on the grants.
SPECIFICATION Spec
CONSTANTS
  NumGrants = 2
  NumReservations = 3
  Txns = {t1, t2, t3}
  Nobody = Nobody
  Jobs <- MixedCalls
  Balance <- TwoUnitsEach
  HeldAtStart <- FirstIsOpen
  AllocationId <- LaterFirst
INVARIANTS
  TypeOK
  NoDeadlock
PROPERTIES
  OnlyStaleWritesLose
  ClosedOnce
  WidenedOncePerKey
  EntriesKeepAccount
  EveryCallEnds
\* every transaction has run its call: nothing is left to do
CHECK_DEADLOCK FALSE
