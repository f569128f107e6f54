SPECIFICATION Spec
CONSTANTS
  Jobs = {j1}
  Workers = {w1}
  NoTask = NoTask
  MaxRetries = 1
  BrokerConfigured = TRUE
  FaultBudget <- DatabaseFaults
INVARIANTS
  SuccessMeansRecorded
