SPECIFICATION FairSpec
CONSTANTS
  Jobs = {j1, j2}
  Workers = {w1, w2}
  NoTask = NoTask
  MaxRetries = 1
  BrokerConfigured = TRUE
  FaultBudget <- LosingFaults
PROPERTIES
  KeepsPromise
