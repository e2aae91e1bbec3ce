SPECIFICATION Spec
CONSTANTS
  e1 = e1
  e2 = e2
  f1 = f1
  f2 = f2
  ann = ann
  bob = bob
  Events = {e1, e2}
  Files = {f1, f2}
  None = None
  Users = {u1, u2}
  People = {ann, bob}
  Folder <- MCFolder
  Photos <- MCPhotos
  Captures <- MCCaptures
  HasModel = FALSE
  Scale = 2
  Requests = {q1, q2}
  CacheSize = 1
  TopK = 2
  ResultTTL = 1
  ProbeTTL = 2
  UrlTTL = 0
  ThumbTTL = 1
  MaxTime = 1
  MaxId = 3
  MaxReindexes = 1
INVARIANTS TypeOK AccessIsScoped DeletedEventsAreSilent ProbesAreLive
SYMMETRY MCSymmetry
PROPERTIES LeftoversFindNothing FreshScansAreExact NoLinkAfterDeletion
CHECK_DEADLOCK FALSE
