SPECIFICATION Spec
CONSTANTS
  NumRequests = 3
  SeqIds <- ThreeSlots
  Shapes <- Unequal
  MaxSeqs = 3
  MaxQueue = 3
  NBatch = 3
  PrefillChunkSize = 2
  NCtx = 5
  SamplingFails = FALSE
CHECK_DEADLOCK FALSE
INVARIANTS
  RunningCounted
