SPECIFICATION FairSpec
CONSTANTS
  SizeMax = 10
  Chunk = 2
  Chars = {0, 1, 10}
  MaxToken = 2
  MaxHeaders = 2
  MaxChars = 4
  MaxFile = 3
INVARIANTS TypeOK BodyKeepsPromise ReportIsTrue RangeIsAnswered
PROPERTY ResponseEnds
CHECK_DEADLOCK FALSE
