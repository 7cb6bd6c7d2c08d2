SPECIFICATION Spec
CONSTANTS
  a = a
  b = b
  Undef = Undef
  SVs <- TwoSVs
  Builds <- RcOnly
  Throws = FALSE
  MaxItems = 3
  MaxInner = 1
  MaxMortals = 2
  MaxOwned = 2
INVARIANTS
  FastAsSlow
CHECK_DEADLOCK FALSE
