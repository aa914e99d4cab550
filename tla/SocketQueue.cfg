SPECIFICATION FairQSpec
CONSTANTS
  Callers = {c1, c2, c3}
  Capacity = 2
  Fd = {f1, f2}
  NoFd = NoFd
  NoCaller = NoCaller
INVARIANTS QTypeOK RingInv NoLostWakeup
PROPERTIES ImplementsFifo ShutdownReleases
