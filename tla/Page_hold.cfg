SPECIFICATION Spec
CONSTANTS
  Kinds = {"content", "hold"}
  Responses = {1}
  MaxTotal = 1
INVARIANT SolvedBeforeStored
