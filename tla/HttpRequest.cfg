SPECIFICATION FairSpec
CONSTANTS
  Requests <- SmallRequests
  Malformed = Malformed
  Buffer = 2
INVARIANTS
  RequestInv
  WholeBody
  SegmentsDoNotMatter
PROPERTIES
  KeepsExchange
  HonestIsAnswered
  EndedIsLetGo
CHECK_DEADLOCK FALSE
