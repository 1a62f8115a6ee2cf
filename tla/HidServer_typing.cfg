SPECIFICATION Spec
CONSTANTS
  IntMax = 7
  ReportMax = 3
  c1 = c1
  c2 = c2
  NoCaller = NoCaller
  NoRequest = NoRequest
  lower = lower
  enter = enter
  left = left
  Nothing = Nothing
  Char <- MCChar
  CR = "cr"
  Strokes = {lower, enter}
  StrokeOf <- MCStrokeOf
  Callers = {c1, c2}
  Texts <- MCTexts
  Targets <- MCTargets
  KeyboardEnabled = TRUE
  MouseEnabled = FALSE
  MouseStepLimit = 2
  MaxCalls = 2
  MaxFaults = 1
  Buttons = {left}
SYMMETRY CallerSymmetry
INVARIANTS
  TypedInOrder
CHECK_DEADLOCK FALSE
