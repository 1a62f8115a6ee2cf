SPECIFICATION Spec
CONSTANTS
  Chars <- AllChars
  Distances <- EdgeDistances
  StepLimit = 200
  IntMax = 511
  ReportMax = 127
  Manufacturer <- Name
  MaxRequests = 1
INVARIANTS
  FitsReportMap
  HostTypesTheChar
  HostSeesTheMouse
  BootSeesTheSame
  ReportsAreFound
CHECK_DEADLOCK FALSE
