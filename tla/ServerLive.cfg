SPECIFICATION FairSpecPeersLeave
CONSTANTS
  Main = Main
  Workers = {w1}
  Sigs = {s1}
  SigTargets = {Main}
  Callers = {Main, w1, s1}
  Capacity = 1
  Fd = {f1, f2}
  NoFd = NoFd
  NoCaller = NoCaller
PROPERTIES StopEnds ConnectionEnds
CHECK_DEADLOCK FALSE
