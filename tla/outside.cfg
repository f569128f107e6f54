SPECIFICATION OutsideSpec
CONSTANTS
  Sagas = {s1, s2, s3}
  MaxRetries = 2
  Unsupported = {s3}
  a = a
  b = b
  Flows = {f1, f2}
  Nodes = {a, b}
  Edges <- OneEdge
  MaxFailures = 1
INVARIANTS
  TypeOK
  EveryPostIsExplained
  PersistenceTypeOK
  OnlyPostedEdgesDangle
  StoredMeansComplete
PROPERTIES
  Returns
  EventuallyShown
