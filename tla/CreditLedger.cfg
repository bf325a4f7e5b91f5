\* Two reservations over two grants.
SPECIFICATION MCSpec
CONSTANTS
  NumGrants = 2
  NumReservations = 2
  Interviews = {1}
  Keys = {1, 2}
  MaxUnits = 2
  Horizon = 2
  HoldTime = 1
  RefundLife = 1
INVARIANTS
  TypeOK
  LedgerLockstep
  UnitConservation
  RowsAgree
PROPERTIES
  EndedGrantsStayEmpty
  KeepsAccount
  StaleHoldsAreReleased
\* every row ended and the clock at Horizon: nothing is left to do
CHECK_DEADLOCK FALSE
