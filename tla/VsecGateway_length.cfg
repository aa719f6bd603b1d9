SPECIFICATION GwSpec
CONSTANTS
  Clients = {c1, c2}
  Tickets = {t1, t2, t3, t4}
  Free = Free
  MaxRetries = 0
  MaxFaults = 1
  Spaces <- MCSpaces
  Supported <- MCSupported
  MaxAddr = 1
  Values = {0, 1}
  InitialMem <- MCInitialMem
  MaxPolls = 1
  Requests <- MCRequests
  FallsThrough = {}
  PciErrors <- MCPciErrors
  MaxCalls = 3
CHECK_DEADLOCK FALSE
INVARIANT LengthMeansTransferred
