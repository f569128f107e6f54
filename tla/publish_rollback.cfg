SPECIFICATION Spec
CONSTANTS
  Sagas = {s1}
  MaxRetries = 2
  Unsupported = {}
INVARIANTS
  FailedLeavesNothing
