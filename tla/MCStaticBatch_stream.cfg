SPECIFICATION Spec
CONSTANTS
  NumRequests = 2
  SeqIds <- TwoSlots
  Shapes <- Mixed
  MaxSeqs = 2
  MaxQueue = 3
  NBatch = 3
  PrefillChunkSize = 2
  NCtx = 5
  SamplingFails = FALSE
CHECK_DEADLOCK FALSE
INVARIANTS
  StreamExact
