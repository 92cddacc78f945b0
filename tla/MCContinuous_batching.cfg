SPECIFICATION FairSpec
CONSTANTS
  NumRequests = 3
  Shapes <- AllShapes
  Policy = "priority"
  EnablePreemption = TRUE
  StarvationAge = 0
  MaxPreemptions = 1
  MaxSeqs = 2
  MaxQueue = 3
  NBatch = 3
  PrefillChunkSize = 2
  NCtx = 4
  BlockSize = 1
  PrefixCache = TRUE
CHECK_DEADLOCK FALSE
INVARIANTS
  TypeOK
  SlotsConserved
  ThreadConsistent
  CacheOwned
  SampledInContext
  StreamExact
  RequestPlaced
PROPERTIES
  ServiceSafety
  EveryRequestAnswered
