SPECIFICATION Spec
CONSTANTS
  SizeMax = 9
  Chunk = 2
  Chars = {0, 1, 3, 10}
  MaxToken = 1
  MaxHeaders = 2
  MaxChars = 2
  MaxFile = 3
INVARIANT ContentRangeIsRange
CHECK_DEADLOCK FALSE
