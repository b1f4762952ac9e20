\* Every fallback tier against three sources.
SPECIFICATION Spec
CONSTANTS
  NumSources = 3
  Tasks = {0, 1, 2, 3}
  Dates = {0, 1, 2, 3}
  MaxAttempts = 3
  MaxRedirects = 1
  Parallel = 2
  PerArchive = 2
  MaxCandidates = 3
  RecentCrawls = 2
CHECK_DEADLOCK FALSE
INVARIANTS RequestsBounded EveryHopChecked NewestCopyKept NewestSourceFirst NoStrayLookup
PROPERTY TierEnds
