SPECIFICATION Spec
CONSTANTS
  a0 = a0
  a1 = a1
  b0 = b0
  x0 = x0
  Devs = {a0, a1, b0, x0}
  Requested <- MCSameModel
  Id <- MCId
  Slot <- MCSlot
  Function0 = {a0, b0, x0}
  None = None
  MaxPolls = 3
  MaxFaults = 1
  MaxRemovals = 1
INVARIANTS
  WaitedForAll
CHECK_DEADLOCK FALSE
