SPECIFICATION Spec
CONSTANTS
  w1 = w1
  w2 = w2
  t1 = t1
  t2 = t2
  None = None
  Ids = {1, 2}
  Tasks = {t1, t2}
  Procs = {w2}
  Stored <- OneStored
  MaxRegistrations = 2
SYMMETRY TaskSymmetry
INVARIANTS
  RegistryConsistent
  PruneClearsWhatItFound
CHECK_DEADLOCK FALSE
