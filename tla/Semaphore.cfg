SPECIFICATION FairSpec
CONSTANTS
  Threads = {t1, t2, t3}
  InitialCount = 0
  MaxCount = 3
INVARIANTS
  NoLostWakeup
PROPERTIES
  CountsPermits PermitsAreTaken DeadlinesHold
