\* A release overwrites a reservation.
SPECIFICATION Spec
CONSTANTS
  NumGrants = 2
  NumReservations = 3
  Txns = {t1, t2}
  Nobody = Nobody
  Jobs <- ReleaseAndReserve
  Balance <- TwoUnitsEach
  HeldAtStart <- FirstIsOpen
  AllocationId <- LaterFirst
INVARIANTS
  LedgerLockstep
\* every transaction has run its call: nothing is left to do
CHECK_DEADLOCK FALSE
