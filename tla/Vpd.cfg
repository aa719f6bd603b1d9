SPECIFICATION FairSpec
CONSTANTS
  Clients = {c1, c2}
  Addresses = {a1, a2}
  Values = {v1, v2}
INVARIANTS
  VpdIsTransferred
PROPERTIES
  VpdCallsEnd
CHECK_DEADLOCK FALSE
