SPECIFICATION Spec
CONSTANTS
  f = f
  g = g
  Main = Main
  CVs <- TwoSubs
  MaxCx = 3
  MaxSI = 3
  MaxSaves = 2
  MaxMarks = 1
INVARIANTS
  CallerKnown
  CvAccounted
  CatchesInPlace
PROPERTIES
  ClearsOwnPad
  KeepsScopes
SYMMETRY Renaming
