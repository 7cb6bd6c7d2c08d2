SPECIFICATION Spec
CONSTANTS
  t1 = t1
  t2 = t2
  t3 = t3
  t4 = t4
  Threads <- ThreeThreads
  Counts = {1, 2}
  Batches = {0, 1}
  FirstLimits = {0}
  LaterLimits = {0}
  Indices = {}
  MaxPut = 2
INVARIANTS
  NoLostWakeup
CHECK_DEADLOCK FALSE
