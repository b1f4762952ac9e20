SPECIFICATION Spec
CONSTANTS
  Requests = {r1, r2}
  Limit <- Limits
  Window = 1
  Interval = 2
  MaxTime = 2
  MaxRows = 2
  MaxCrashes = 1
SYMMETRY Symmetry
INVARIANTS LimitHolds RetryAfterEnough
PROPERTY DuplicateOnlyByRace
