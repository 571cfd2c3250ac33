SPECIFICATION FairSpec
CONSTANTS
  MAX_STRIP_COUNT = 2
  Fields = 2
  FrequencyField = 2
  FifoDepth = 2
  BufferSize = 33
  Requests <- MCRequests
  MaxLines = 3
  MaxRounds = 2
INVARIANTS TypeOK ReadsBack TakenAsSent CountFitsStrips IndexBounded
PROPERTIES LastLineHandled
CHECK_DEADLOCK FALSE
