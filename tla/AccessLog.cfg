SPECIFICATION FairSpec
CONSTANTS
  Threads = {t1, t2}
  NoThread = NoThread
  MaxCalls = 2
  MaxFaults = 2
INVARIANTS TypeOK ReturnedIsOnDisk
PROPERTIES ImplementsAtomicLog WriteReturns
CHECK_DEADLOCK FALSE
