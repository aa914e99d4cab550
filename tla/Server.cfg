SPECIFICATION Spec
CONSTANTS
  Main = Main
  Workers = {w1, w2}
  Sigs = {s1}
  SigTargets = {Main, w1, w2}
  Callers = {Main, w1, w2, s1}
  Capacity = 1
  Fd = {f1, f2}
  NoFd = NoFd
  NoCaller = NoCaller
SYMMETRY ServerSymmetry
INVARIANTS TypeOK Ownership CleanExit NoSilentDrop NoUseAfterRelease
PROPERTY ImplementsLife
CHECK_DEADLOCK FALSE
