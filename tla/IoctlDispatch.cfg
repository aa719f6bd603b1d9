SPECIFICATION FairSpec
CONSTANTS
  Threads = {t1, t2}
  f1 = f1
  f2 = f2
  m1 = m1
  Files = {f1, f2}
  Devices = {d1, d2}
  Minors = {m1, m2}
  MinorOf <- MCMinorOf
  None = None
  Drivers = {"pciconf", "pci", "mstflint"}
INVARIANTS
  WorksUnderItsLock
  NoLockLeftBehind
PROPERTIES
  OnlyHolderUnlocks
  CallsReturn
CHECK_DEADLOCK FALSE
