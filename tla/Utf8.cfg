SPECIFICATION Spec
CONSTANTS
  Bytes <- EdgeBytes
  MaxAny = 4
  FewBytes <- LongBytes
  MaxLong = 6
  MaxHop = 3
INVARIANTS
  RecognisesCharacters
  ChunksAgree
  HopsCount
CHECK_DEADLOCK FALSE
