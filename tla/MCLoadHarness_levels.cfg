SPECIFICATION FairSpec
CONSTANTS
  Requests = {1, 2, 3, 4}
  Streaming = {4}
  Latency <- Slower
  WINDOW = 2
  Floor90 = 2
  Floor99 = 3
  NumLevels = 2
  Schedule <- TwoLevels
CHECK_DEADLOCK FALSE
INVARIANTS
  TypeOK
  InFlightExact
  ReportsAgree
PROPERTIES
  HarnessEnds
