SPECIFICATION FairSpec
CONSTANTS
  IntMax = 31
  ReportMax = 7
  Limits <- HugeLimits
  Points <- NearPoints
PROPERTIES
  MoveEnds
CHECK_DEADLOCK FALSE
