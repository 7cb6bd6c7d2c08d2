SPECIFICATION Spec
CONSTANTS
  pd = pd
  sd = sd
  se = se
  nd = nd
  ld = ld
  lf = lf
  Packaged <- PackagedDll
  Searched <- SearchedDll
  Named <- None
  Lists <- None
  Lines <- NoLines
  Exes <- None
  Modes <- Incremental
  Live = TRUE
  MayFail = FALSE
  MaxCrashes = 1
INVARIANTS
  NothingForgotten
  RunCovers
  StaysMapped
PROPERTIES
  DoneIsEarned
