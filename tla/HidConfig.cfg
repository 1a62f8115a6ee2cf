SPECIFICATION Spec
CONSTANTS
  LongMax = 63
  IntMax = 31
  ShortMax = 7
  Unreadable = Unreadable
  Files <- SmallFiles
  Environments <- SmallEnvironments
  Fallback <- SmallFallback
INVARIANTS
  LimitEndsMoves
  NumbersAsWritten
  GoodFileLoads
CHECK_DEADLOCK FALSE
