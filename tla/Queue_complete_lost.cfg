\* A statement fails after the archive was marked complete.
SPECIFICATION Spec
CONSTANTS
  Archives = {a1}
  Workers = {w1}
  Places = {p1}
  NumTiers = 3
  DirectTiers = {1, 2, 3}
  MaxAttempts = 3
  MaxTotalJobs = 15
  Priorities = {0}
  Events = {"dberror"}
CHECK_DEADLOCK FALSE
PROPERTY CompleteIsFinal
