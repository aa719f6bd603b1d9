SPECIFICATION DASpec
CONSTANTS
  i1 = i1
  i2 = i2
  Clients = {i1, i2}
  Alloc = {i1}
  Tickets = {t1, t2, t3, t4}
  Free = Free
  MaxRetries = 0
  MaxFaults = 1
  Models <- MCModels
  ProbeOrder <- MCProbeOrder
  Required = {"cr", "semaphore"}
  FlagOrder <- MCFlagOrder
  MaxAddr = 1
  Values = {0, 1}
  InitialMem <- MCInitialMem
  Requests <- MCRequests
  MaxErrors = 1
  MaxCalls <- MCMaxCalls
INVARIANTS
  DemotedForCause
  SupportIsReal
  LegacyIntact
  DeniedForCause
PROPERTY
  LegacyRefinesMemory
CHECK_DEADLOCK FALSE
CONSTRAINT WithVsecUnfit
SYMMETRY Symmetry
