SPECIFICATION Spec
CONSTANTS
  connectx5 = connectx5
  quantum = quantum
  other = other
  Functions = {connectx5, quantum, other}
  Id <- MCId
  Kinds = {"mstflint", "mst_pciconf", "mst_pci"}
INVARIANTS
  NothingLeftBehind
  MinorsAreReserved
  DestroyIsClean
PROPERTIES
  CallsFindCallbacks
CHECK_DEADLOCK FALSE
