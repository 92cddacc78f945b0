SPECIFICATION FairSpec
CONSTANTS
  NumRequests = 3
  SeqIds <- TwoSlots
  Shapes <- Mixed
  MaxSeqs = 2
  MaxQueue = 2
  NBatch = 3
  PrefillChunkSize = 2
  NCtx = 5
  SamplingFails = FALSE
CHECK_DEADLOCK FALSE
INVARIANTS
  TypeOK
  RunningCounted
  SamplesOwnSequence
  CachesEmptied
  LastExact
PROPERTIES
  EveryRequestAnswered
