SPECIFICATION FairSpec
CONSTANTS
  p1 = p1
  root = root
  s1 = s1
  s2 = s2
  Procs <- OneProc
  Root = root
  Subtests <- OneSubtest
  Prefixed <- Unrelated
  MaxEvents = 2
  NoWait = FALSE
INVARIANTS Ordered NothingLost FailureReported NothingLeft NoFalseMissing
PROPERTY MainEnds
CHECK_DEADLOCK FALSE
