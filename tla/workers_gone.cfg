SPECIFICATION WorkersSpec
CONSTANTS
  Pids = {p1, p2}
  MaxServing = 1
  MaxServed = 2
INVARIANTS
  GoneWorkersAreNotCounted
CHECK_DEADLOCK FALSE
