SPECIFICATION Spec
CONSTANTS
  Bytes <- EdgeBytes
  MaxAny = 4
  FewBytes <- LongBytes
  MaxLong = 6
  MaxHop = 3
INVARIANTS
  HopStaysInside
CHECK_DEADLOCK FALSE
