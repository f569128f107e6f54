SPECIFICATION FairSpec
CONSTANTS
  s1 = s1
  s2 = s2
  t1 = t1
  t2 = t2
  d1 = d1
  d2 = d2
  d3 = d3
  d4 = d4
  Docs = {d1, d2, d3, d4}
  Topics = {s1, s2, t1, t2}
  SeedTopics = {s1, s2}
  TopicOf <- MCTopicOf
  Alike <- MCAlike
  Batches <- MCBatches
  Measures <- MCMeasures
  Answers <- MCAnswers
  TopK = 3
  Quota = 5
  MaxSame = 2
  Budget = 2
INVARIANTS
  TypeOK
  SelectionIsSound
  BudgetHoldsPerAttempt
  OnlyTheLlmPasses
PROPERTIES
  RunsArePushed
