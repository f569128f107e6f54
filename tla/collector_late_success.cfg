SPECIFICATION Spec
CONSTANTS
  Callers = {c1, c2}
  Capacity = 2
  FailureThreshold = 1
  ResetTimeout = 2
  MaxAttempts = 2
PROPERTIES
  StaysOpen
