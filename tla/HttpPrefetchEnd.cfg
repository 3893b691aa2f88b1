SPECIFICATION Spec
CONSTANTS
  FileLen = 6
  MaxBuf = 3
  SkipLimit = 2
  MaxChunk = 2
  MaxRead = 2
  MaxRetries = 1
INVARIANTS TrueEnd
CHECK_DEADLOCK FALSE
