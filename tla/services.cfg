SPECIFICATION Spec
CONSTANTS
  Pids = {p1, p2, p3}
  MaxServing = 1
  MaxServed = 2
  Threads = {t1, t2}
  Conns = {c1, c2}
  NoConn = NoConn
  Clients = {a1, a2}
  Ahead <- OneAhead
  MaxAhead = 1
  Capacity = 1
  RefillRate = 1
  MaxTime = 2
  MaxGranted = 8
  MaxForgotten = 2
  Managers = {w1, w2}
  Units = {n1}
  Splits <- SomeSplits
  Grain = 3
  Metrics = {1, 4}
  MaxCreated = 1
  MaxOutcomes = 3
  Callers = {r1, r2}
  UnitLimit = 7
  SearchCost = 3
  PageSize = 2
  Lifetime = 4
  Margin = 2
  Timeout = 1
  MaxClock = 7
  Users = {u1, u2}
  CacheKeys = {k1}
  DefaultTtl <- Ttls
  AskedTtls = {0, 1, 3}
  LongestTtl = 3
  MaxWrites = 3
  LastSecond = 4
  MaxAttempts = 5
  Base = 2
  MaxDelay = 5
  EventIds = {e1, e2}
  Dates <- SomeDates
  Moments <- SomeMoments
  Tags = {g1, g2}
  Boosts = {80, 150, 280}
  Inputs <- SomeEvents
  Times = {0, 1, 8, 9, 10}
  Scores = {0, 10, 11, 25}
  Day = 8
  Window = 2
  MaxPoints = 3
  Posts = {d1}
  Labels = {"24h", "48h", "7d", "30d", "x"}
  Checkpoints = {"24h", "7d", "30d"}
  Hours <- LabelHours
  Spelling <- LabelSpelling
  Percent <- LabelPercent
  Revenues = {0, 1, 2}
  Components = {w1, w2}
  InitialWeights = {1, 5, 12}
  WMin = 1
  WMax = 9
  GradClip = 2
  Errors <- SomeErrors
  Gradients <- SomeGradients
  Domains = {h1, h2}
INVARIANTS
  ServicesTypeOK
  OldCountsAreForgotten
  CallsLeaveNothing
  GrantsAreBounded
  HelpersAreSound
  ExperimentsAreSound
  QuotasAreKept
  SignalsAreSound
PROPERTIES
  EstimateIsLatest
CHECK_DEADLOCK FALSE
