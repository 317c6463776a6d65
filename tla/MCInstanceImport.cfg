SPECIFICATION Spec
CONSTANTS
  w1 = w1
  w2 = w2
  t1 = t1
  t2 = t2
  None = None
  Ids = {2}
  Tasks = {t1}
  Procs = {w2}
  Stored <- OneStored
  MaxRegistrations = 1

INVARIANTS
  ImportAccepted
CHECK_DEADLOCK FALSE
