SPECIFICATION ServiceSpec
CONSTANTS
  IntMax = 7
  ReportMax = 3
  serverThread = serverThread
  Callers = {serverThread}
  NoCaller = NoCaller
  NoRequest = NoRequest
  a = a
  CR = CR
  Char = {a, CR}
  Strokes = {"A"}
  Buttons = {"left"}
  Nothing = Nothing
  StrokeOf <- KeyA
  Texts <- OneKey
  Targets <- OneStep
  KeyboardEnabled = TRUE
  MouseEnabled = FALSE
  MouseStepLimit = 1
  MaxCalls = 1
  MaxFaults = 1
  MaxClients = 1
  MaxDaemonFaults = 1
INVARIANTS
  SendsOnLiveConnection
  PressedOnlyIfKilledEarly
PROPERTIES
  KeepsDaemon
CHECK_DEADLOCK FALSE
