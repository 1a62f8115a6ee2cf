SPECIFICATION Spec
CONSTANTS
  Topics = {"plan", "metrics"}
  MaxSubscribers = 4
  MaxMessages = 3
INVARIANTS
  EveryoneHearsOnce
  OnlyNestedOvertake
  QueryIsRecent
CHECK_DEADLOCK FALSE
