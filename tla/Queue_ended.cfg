SPECIFICATION FairSpec
CONSTANTS
  t1 = t1
  t2 = t2
  t3 = t3
  t4 = t4
  Threads <- TwoThreads
  Counts = {1}
  Batches = {0, 1}
  FirstLimits = {1}
  LaterLimits = {1}
  Indices = {}
  MaxPut = 2
PROPERTIES
  NothingAfterEnd
CHECK_DEADLOCK FALSE
