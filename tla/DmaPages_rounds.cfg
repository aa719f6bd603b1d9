SPECIFICATION DmaSpec
CONSTANTS
  u1 = u1
  u2 = u2
  Users = {u1, u2}
  Buffer <- MCBuffer
  Total = 3
  Null = "null"
  Wild = "wild"
  MaxGets = 3
  MaxFailures = 0
INVARIANTS
  EveryPageAnswered
CHECK_DEADLOCK FALSE
