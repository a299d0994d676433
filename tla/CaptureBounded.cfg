SPECIFICATION Spec
CONSTANTS
  MaxOutput = 1
  MaxChunk = 1
  Timeout = 1
  MaxWritten = 1
INVARIANT CommandEnded
CHECK_DEADLOCK FALSE
