SPECIFICATION Spec
CONSTANTS
  t1 = t1
  t2 = t2
  t3 = t3
  t4 = t4
  Threads <- TwoThreads
  Counts = {1, 2, 3}
  Batches = {0, 1, 2}
  FirstLimits = {0, 2}
  LaterLimits = {0, 1}
  Indices <- AroundTheQueue
  MaxPut = 4
INVARIANTS
  Conservation
PROPERTIES
  ShortOnlyAtEnd
  OnlyBlockedEnter
CHECK_DEADLOCK FALSE
