\* Two moderation requests race each other and a capture.
SPECIFICATION Spec
CONSTANTS
  Archives = {a1}
  Reporters = {r1}
  Requests = {q1, q2}
  MaxSaves = 2
SYMMETRY Symmetry
CHECK_DEADLOCK FALSE
INVARIANTS TypeOK CompleteHasFiles ResolvedTookEffect RemovalsLogged
PROPERTY LifecycleSpec
