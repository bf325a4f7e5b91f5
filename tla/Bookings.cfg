\* Two requests at a time, with any hints; three interviews, one of which a reschedule
\* makes.
SPECIFICATION Spec
CONSTANTS
  Invitations = {"copenhagen", "auckland"}
  Slots <- MCSlots
  Times <- MCSlots
  Near <- AnyHint
  Overlap <- MCOverlap
  Day <- MCDay
  Requests = {r1, r2}
  NumEvents = 3
SYMMETRY RequestSymmetry
INVARIANTS
  TypeOK
  DaysAreNotDoubleBooked
  AppointmentsAreAsTold
