SPECIFICATION Spec
CONSTANTS
  a = a
  b = b
  Undef = Undef
  SVs <- TwoSVs
  Builds <- Both
  Throws = TRUE
  MaxItems = 3
  MaxInner = 1
  MaxMortals = 2
  MaxOwned = 2
SYMMETRY Renaming
INVARIANTS
  CountsAgree
  LoneIsStealable
  AsDocumented
CHECK_DEADLOCK FALSE
