SPECIFICATION FairSpec
CONSTANTS
  IntMax = 31
  ReportMax = 7
  Limits <- SaneLimits
  Points <- EdgePoints
INVARIANTS
  MotionInv
PROPERTIES
  MoveEnds
  StepsAreFull
  ReportCarriesStep
CHECK_DEADLOCK FALSE
