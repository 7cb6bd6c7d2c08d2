SPECIFICATION Spec
CONSTANTS
  pd = pd
  sd = sd
  se = se
  nd = nd
  ld = ld
  lf = lf
  Packaged <- PackagedDll
  Searched <- SearchedAll
  Named <- None
  Lists <- OneList
  Lines <- OneLine
  Exes <- SearchedEx
  Modes <- BothModes
  Live = FALSE
  MayFail = TRUE
  MaxCrashes = 0
INVARIANTS
  NothingForgotten
