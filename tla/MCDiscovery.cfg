SPECIFICATION Spec
CONSTANTS
  p1 = p1
  p2 = p2
  p3 = p3
  r1 = r1
  r2 = r2
  None = None
  Proxies = {p1, p2, p3}
  Readers = {r1}
  Ports = {1, 2}
SYMMETRY ProxySymmetry
INVARIANTS
  StoreConsistent
  NoGoneSessionListed
  PrunedOnStart
  ClientFindsServedSession
CHECK_DEADLOCK FALSE
