\* Two workers and every fault but a statement failing on a live connection and
\* a capture outlasting its lock.
SPECIFICATION Spec
CONSTANTS
  Archives = {a1, a2}
  Workers = {w1, w2}
  Places = {p1}
  NumTiers = 2
  DirectTiers = {1}
  MaxAttempts = 1
  MaxTotalJobs = 2
  Priorities = {0}
  Events = {"crash", "shutdown", "disconnect", "unsafe", "moderate", "webcrash"}
SYMMETRY Symmetry
INVARIANTS TypeOK OnlyNewestActive NoDoubleClaim FailedIsQuiet
PROPERTY LifecycleSpec
CHECK_DEADLOCK FALSE
