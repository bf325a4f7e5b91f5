\* Recovery and the blocking sweep overlap.
SPECIFICATION Spec
CONSTANTS
  Included = {"long"}
  Packs = {"pack"}
  Expiry <- ShortAndLong
  Handlers = {h1}
  Grace = 1
  Horizon = 4
  Overlap = TRUE
INVARIANTS
  FrozenIncludedIsBlocked
\* the clock stops at Horizon
CHECK_DEADLOCK FALSE
