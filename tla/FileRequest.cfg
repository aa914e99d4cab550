SPECIFICATION Spec
CONSTANTS
  HTTP_METHOD_TEXT_MAX = 16
  HTTP_PATH_MAX = 10
  HTTP_VERSION_TEXT_MAX = 16
  HTTP_CONNECTION_TEXT_MAX = 32
  FILE_PATH_MAX = 11
  SYMLOOP_MAX = 2
  TableCapacity = 1
  InitialCapacity = 8
  SizeBits = 6
  MaxClicks = 2
  MimeTypes <- MCMimeTypes
  DocRoot <- MCDocRoot
  Worlds <- MCWorlds
  Addresses <- MCAddresses
  Blocks <- MCBlocks
INVARIANTS TypeOK ParseIsGrammar ServedInsideRoot AnswerIsRight ListingIsDirectory PageKeepsMarkup LinkLeadsToEntry ListingIsMemorySafe
