SPECIFICATION FairSpec
CONSTANTS
  t1 = t1
  t2 = t2
  t3 = t3
  Threads <- ThreeThreads
  Starts <- StartCounts
  Amounts = {1, 2}
  Forced = {2}
  Bound = 3
INVARIANTS
  NoSleepWhenAvailable
  NeverOversold
PROPERTIES
  DownGetsThrough
CHECK_DEADLOCK FALSE
