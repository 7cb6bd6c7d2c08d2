SPECIFICATION Spec
CONSTANTS
  pd = pd
  sd = sd
  se = se
  nd = nd
  ld = ld
  lf = lf
  Packaged <- None
  Searched <- SearchedDll
  Named <- NamedDll
  Lists <- None
  Lines <- NoLines
  Exes <- None
  Modes <- AlwaysMode
  Live = FALSE
  MayFail = FALSE
  MaxCrashes = 0
INVARIANTS
  NamedCovered
