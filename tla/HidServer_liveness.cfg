SPECIFICATION FairSpec
CONSTANTS
  IntMax = 7
  ReportMax = 3
  c1 = c1
  c2 = c2
  NoCaller = NoCaller
  NoRequest = NoRequest
  lower = lower
  enter = enter
  left = left
  Nothing = Nothing
  Char <- MCChar
  CR = "cr"
  Strokes = {lower, enter}
  StrokeOf <- MCStrokeOf
  Callers = {c1}
  Texts <- MCTexts
  Targets <- OneTarget
  KeyboardEnabled = TRUE
  MouseEnabled = TRUE
  MouseStepLimit = 2
  MaxCalls = 1
  MaxFaults = 1
  Buttons = {left}
PROPERTIES
  DevicesKeepPromise
  PressIsLifted
  OwnerReturns
CHECK_DEADLOCK FALSE
