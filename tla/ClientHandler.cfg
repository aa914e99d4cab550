SPECIFICATION FairSpec
CONSTANTS
  BufferSize = 2
  Methods = {"GET", "HEAD", "POST", "malformed"}
  Versions = {"1.0", "1.1"}
  Connections = {"other"}
  MaxSent = 3
INVARIANTS TypeOK StreamIsServed BadRequestIsDue CutShortIsLast CloseHasReason LogIsTrue
PROPERTIES RequestIsServed WorkerIsFreed
CHECK_DEADLOCK FALSE
