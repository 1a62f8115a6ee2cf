SPECIFICATION FairSpec
CONSTANTS
  MaxClients = 2
  MaxFaults = 2
INVARIANTS
  DaemonInv
  NothingUsedAfterStop
  EndsInOrder
  NothingLeftRegistered
PROPERTIES
  StopsInTheEnd
CHECK_DEADLOCK FALSE
