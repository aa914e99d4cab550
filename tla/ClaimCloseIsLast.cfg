SPECIFICATION Spec
CONSTANTS
  BufferSize = 2
  Methods = {"GET"}
  Versions = {"1.1"}
  Connections = {"close", "other"}
  MaxSent = 2
INVARIANT CloseIsLast
CHECK_DEADLOCK FALSE
