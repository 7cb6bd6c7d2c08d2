SPECIFICATION Spec
CONSTANTS
  p1 = p1
  root = root
  s1 = s1
  s2 = s2
  Procs <- OneProc
  Root = root
  Subtests <- TwoSubtests
  Prefixed <- OneInTen
  MaxEvents = 1
  NoWait = FALSE
INVARIANT LeftoversAreOwn
CHECK_DEADLOCK FALSE
