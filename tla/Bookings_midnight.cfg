\* Honest requests, and a slot around midnight, which is another day in the time zone
\* of one invitation.
SPECIFICATION Spec
CONSTANTS
  Invitations = {"copenhagen", "auckland"}
  Slots <- MCSlots
  Times <- MCSlots
  Near <- HonestHints
  Overlap <- MCOverlap
  Day <- MCDay
  Requests = {r1, r2}
  NumEvents = 3
SYMMETRY RequestSymmetry
INVARIANTS
  NoDoubleBooking
