SPECIFICATION FairSpec
CONSTANTS
  Root = 0
  Children = {1, 2, 3}
  Nobody = Nobody
  MaxDepth = 2
  MaxChildren = 2
  MaxRequests = 3
INVARIANTS
  TreeBounded
PROPERTIES
  RequestsAnswered
  TreeEnds
CHECK_DEADLOCK FALSE
