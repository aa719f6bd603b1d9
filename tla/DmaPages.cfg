SPECIFICATION DmaSpec
CONSTANTS
  u1 = u1
  u2 = u2
  Users = {u1, u2}
  Buffer <- MCBuffer
  Total = 3
  Null = "null"
  Wild = "wild"
  MaxGets = 3
  MaxFailures = 1
INVARIANTS
  AnsweredIsMapped
  ReleasedIsFree
  OopsOnlyAfterMisuse
CHECK_DEADLOCK FALSE
