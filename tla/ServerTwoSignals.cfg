SPECIFICATION Spec
CONSTANTS
  Main = Main
  Workers = {w1}
  Sigs = {s1, s2}
  SigTargets = {Main, w1}
  Callers = {Main, w1, s1, s2}
  Capacity = 1
  Fd = {f1, f2}
  NoFd = NoFd
  NoCaller = NoCaller
SYMMETRY ServerSymmetry
INVARIANTS Ownership CleanExit
CHECK_DEADLOCK FALSE
