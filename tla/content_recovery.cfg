SPECIFICATION FairSpec
CONSTANTS
  Jobs = {j1}
  Workers = {w1, w2}
  NoTask = NoTask
  MaxRetries = 1
  BrokerConfigured = TRUE
  FaultBudget <- RepeatingFaults
INVARIANTS
  TypeOK
  SettledUnlessOwed
  RepeatsNeedFaults
PROPERTIES
  SettledRowIsStable
  EventuallySettled
