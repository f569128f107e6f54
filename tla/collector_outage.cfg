SPECIFICATION FairSpec
CONSTANTS
  Callers = {c1, c2, c3}
  Capacity = 2
  FailureThreshold = 2
  ResetTimeout = 2
  MaxAttempts = 2
INVARIANTS
  TypeOK
  BreakerConsistent
  LeakIsBounded
PROPERTIES
  Recovers
