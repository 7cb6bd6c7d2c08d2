SPECIFICATION FairSpec
CONSTANTS
  t1 = t1
  t2 = t2
  t3 = t3
  t4 = t4
  Threads <- FourThreads
  Counts = {1}
  Batches = {0, 1, 2}
  FirstLimits = {0}
  LaterLimits = {0}
  Indices = {}
  MaxPut = 4
INVARIANTS
  NoLostWakeup
PROPERTIES
  KeepsPromise
CHECK_DEADLOCK FALSE
