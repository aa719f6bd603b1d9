SPECIFICATION FairSpec
CONSTANTS
  a0 = a0
  a1 = a1
  b0 = b0
  x0 = x0
  Devs = {a0, a1, b0, x0}
  Requested <- MCRequested
  Id <- MCId
  Slot <- MCSlot
  Function0 = {a0, b0, x0}
  None = None
  MaxPolls = 3
  MaxFaults = 1
  MaxRemovals = 1
INVARIANTS
  SavedBeforeReset
  AllFoundAtReset
  PolledBeforeRestore
  InResetOnlyAfterError
PROPERTIES
  ProbeReturns
CHECK_DEADLOCK FALSE
