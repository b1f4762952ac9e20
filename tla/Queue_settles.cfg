\* Nothing crashes and nothing is moderated: every submission settles.
SPECIFICATION FairSpec
CONSTANTS
  Archives = {a1, a2}
  Workers = {w1}
  Places = {p1}
  NumTiers = 3
  DirectTiers = {1, 2}
  MaxAttempts = 2
  MaxTotalJobs = 3
  Priorities = {0}
  Events = {"dberror", "shutdown", "slow", "unsafe"}
INVARIANTS LadderOrder BudgetBounded NobodyStranded RunningIsHeld
PROPERTY EverySubmissionSettles
CHECK_DEADLOCK FALSE
