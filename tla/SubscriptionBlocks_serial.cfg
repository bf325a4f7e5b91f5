\* One transaction at a time, events in any order and repeated.
SPECIFICATION Spec
CONSTANTS
  Included = {"short", "long"}
  Packs = {"pack"}
  Expiry <- ShortAndLong
  Handlers = {h1}
  Grace = 1
  Horizon = 3
  Overlap = FALSE
INVARIANTS
  TypeOK
  FrozenIncludedIsBlocked
  FrozenPackIsDisputed
  NewestStatusWins
PROPERTIES
  OverdueIsDecided
\* the clock stops at Horizon
CHECK_DEADLOCK FALSE
