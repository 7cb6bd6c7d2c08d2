SPECIFICATION Spec
CONSTANTS
  p1 = p1
  root = root
  s1 = s1
  s2 = s2
  Procs <- OneProc
  Root = root
  Subtests <- OneSubtest
  Prefixed <- Unrelated
  MaxEvents = 2
  NoWait = FALSE
INVARIANT AbortExits
CHECK_DEADLOCK FALSE
