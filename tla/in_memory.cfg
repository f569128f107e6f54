SPECIFICATION InMemorySpec
CONSTANTS
  a = a
  b = b
  c = c
  related = related
  causes = causes
  AnyRelation = AnyRelation
  NodeIds = {a, b, c}
  Keys <- MCKeys
  Weights = {0, 1, 3}
  Keep = 2
  Areas = {1, 2, 3, 4, 5, 6}
  NodeCalls <- MCNodeCalls
  EdgeCalls <- MCEdgeCalls
  Seeds <- MCSeeds
  MaxSaved = 3
  Unit = 3
  HopDecay <- MCHopDecay
  Damping <- MCDamping
  Relations <- MCRelations
  Hops = {0, 1, 2, 3}
  Sizes = {0, 1, 2, 3}
  Iterations = {0, 1, 2}
  t1 = t1
  t2 = t2
  t3 = t3
  t4 = t4
  d1 = d1
  d2 = d2
  d3 = d3
  d4 = d4
  rt0 = rt0
  rt1 = rt1
  own = own
  DocKeys = {rt0, rt1, own}
  Texts = {t1, t2, t3, t4}
  NoText = NoText
  NoKey = NoKey
  Docs = {d1, d2, d3, d4}
  Topics = {a, b}
  Bands = 2
  Rows = 2
  MinEqual = 3
  MaxDistance = 1
  MaxBatch = 2
  Sig <- MCSig
  Bits <- MCBits
  TextOf <- MCTextOf
  TopicOf <- MCTopicOf
  SourceId <- MCSourceId
  DefaultKey <- MCDefaultKey
  FaultBudget <- EachFaultOnce
INVARIANTS
  TypeOK
  ListsAgree
  QueriesAgree
  RealtimeTypeOK
  LookalikesOnlyByReuse
  SeenIsStored
  EarlierCallsAreMadeUp
PROPERTIES
  KeepsVersions
