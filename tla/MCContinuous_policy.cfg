SPECIFICATION Spec
CONSTANTS
  NumRequests = 3
  Shapes <- TwoClasses
  Policy = "priority"
  EnablePreemption = TRUE
  StarvationAge = 1
  MaxPreemptions = 1
  MaxSeqs = 1
  MaxQueue = 2
  NBatch = 2
  PrefillChunkSize = 2
  NCtx = 4
  BlockSize = 2
  PrefixCache = FALSE
CHECK_DEADLOCK FALSE
INVARIANTS
  QueueBounded
  PreemptionBounded
PROPERTIES
  ServedInOrder
  PromotedKeepsSlot
  PauseHelpsAnother
