SPECIFICATION FairSpec
CONSTANTS
  pd = pd
  sd = sd
  se = se
  nd = nd
  ld = ld
  lf = lf
  Packaged <- PackagedDll
  Searched <- SearchedDll
  Named <- None
  Lists <- None
  Lines <- NoLines
  Exes <- None
  Modes <- AlwaysMode
  Live = FALSE
  MayFail = TRUE
  MaxCrashes = 1
PROPERTIES
  EventuallyMapped
  FullServed
