SPECIFICATION Spec
CONSTANTS
  MaxSteps = 1
INVARIANTS
  PolicyEnforced
CHECK_DEADLOCK FALSE
