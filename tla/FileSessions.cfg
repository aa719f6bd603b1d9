SPECIFICATION Spec
CONSTANTS
  Files = {f1, f2}
  d1 = d1
  d2 = d2
  b1 = b1
  b2 = b2
  b3 = b3
  Devices = {d1, d2}
  None = None
  Drivers = {"pciconf", "pci", "mstflint"}
  Workloads <- MCWorkloads
  SlotCount = 3
  Garbage = {0, 1}
  BufferSize = 2
  Bars = {b1, b2, b3}
  EmptyBars = {b3}
SYMMETRY FilesAlike
INVARIANTS
  FSTypeOK
  SlotIsExclusive
  NoOrphanSlot
  MaskAgrees
  BufferIsWhatWasWritten
  MapsChosenBar
CHECK_DEADLOCK FALSE
