SPECIFICATION Spec
CONSTANTS
  Main = Main
  Workers = {w1}
  Sigs = {s1}
  SigTargets = {Main}
  Callers = {Main, w1, s1}
  Capacity = 1
  Fd = {f1}
  NoFd = NoFd
  NoCaller = NoCaller
INVARIANT NoSelfDeadlock
CHECK_DEADLOCK FALSE
