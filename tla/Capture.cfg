SPECIFICATION FairSpec
CONSTANTS
  MaxOutput = 3
  MaxChunk = 2
  Timeout = 2
  MaxWritten = 3
INVARIANTS TypeOK ChildReaped EvidenceSound
PROPERTY CaptureReturns
CHECK_DEADLOCK FALSE
