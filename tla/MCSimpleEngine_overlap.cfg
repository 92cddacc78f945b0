SPECIFICATION Spec
CONSTANTS
  NumRequests = 2
  SeqIds <- OnlySequence
  Shapes <- Mixed
  MaxQueue = 2
  NBatch = 3
  PrefillChunkSize = 2
  NCtx = 5
  MaxGone = 1
CHECK_DEADLOCK FALSE
INVARIANTS
  OneInFlight
