SPECIFICATION FairSpec
CONSTANTS
  Clients = {c1, c2}
  Tickets = {t1, t2, t3, t4}
  Free = Free
  MaxRetries = 1
  MaxFaults = 2
INVARIANT
  MutualExclusion
PROPERTIES
  NoStaleAcquire
  OnlyLosersRob
  RefinesRevocableLock
  SomeAttemptEnds
  LeakRecovered
