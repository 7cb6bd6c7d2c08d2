SPECIFICATION FairSpec
CONSTANTS
  t1 = t1
  t2 = t2
  t3 = t3
  NoThread = NoThread
  Threads <- ThreeThreads
  Configurations <- FourBuilds
  Sections <- Roles
  NumericThreads <- NumericTwo
  MaxNest = 2
INVARIANTS
  TzsetExclusive
