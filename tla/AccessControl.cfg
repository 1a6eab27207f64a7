\* Two requests at once, three in all, from a fresh and from a settled database.
SPECIFICATION Spec
CONSTANTS
  root = root
  ann = ann
  g1 = g1
  g2 = g2
  s1 = s1
  f1 = f1
  f2 = f2
  w1 = w1
  w2 = w2
  User = {root, ann}
  Group = {g1, g2}
  Stream = {s1}
  Filter = {f1, f2}
  NoGroup = NoGroup
  Worker = {w1, w2}
  Request <- MCRequest
  Seed <- MCSeed
  MaxRequests = 3
  MaxFailures = 1
SYMMETRY WorkerSymmetry
INVARIANTS
  SomeSuperAdmin
  NoStrayMembers
  FilterStreamsAllowed
PROPERTIES
  LastAdminStays
\* When every request has been handled, nothing has to happen.
CHECK_DEADLOCK FALSE
