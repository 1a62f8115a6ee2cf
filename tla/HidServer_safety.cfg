SPECIFICATION Spec
CONSTANTS
  IntMax = 4
  ReportMax = 3
  c1 = c1
  c2 = c2
  NoCaller = NoCaller
  NoRequest = NoRequest
  lower = lower
  enter = enter
  left = left
  Nothing = Nothing
  Char <- MCChar
  CR = "cr"
  Strokes = {lower, enter}
  StrokeOf <- MCStrokeOf
  Callers = {c1, c2}
  Texts <- OneText
  Targets <- FarTargets
  KeyboardEnabled = TRUE
  MouseEnabled = TRUE
  MouseStepLimit = 4
  MaxCalls = 2
  MaxFaults = 1
  Buttons = {left}
SYMMETRY CallerSymmetry
INVARIANTS
  IInv
  ReleasedBetweenIterations
  HostSeesReleased
  ClickOnTarget
  PointerTracked
PROPERTIES
  PressesAlternate
CHECK_DEADLOCK FALSE
