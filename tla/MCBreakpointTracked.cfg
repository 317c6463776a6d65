SPECIFICATION Spec
CONSTANTS
  p = p
  q = q
  Paths = {p, q}
  ClientPaths = {p, q}
  Resolve <- SamePaths
  Lines = {1, 2}
  Conditions = {c}
  None = None
  Filters = {f}
  Outcomes = {TRUE, FALSE}
  Reported = {"announced"}
  MaxRequests = 2
  MaxIds = 2
  MaxPerRequest = 2
SYMMETRY FileSymmetry
INVARIANTS
  TrackerConsistent
  SnapshotMatchesAdapter
CHECK_DEADLOCK FALSE
