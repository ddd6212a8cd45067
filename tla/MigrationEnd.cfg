SPECIFICATION Spec
CONSTANTS
  NumPages = 2
  RingSize = 2
  ReadLen = 2
  Faults = {}
  MaxWrites = 2
  MaxCalls = 2
  MaxAttempts = 1
  MaxFaults = 0
INVARIANT TargetComplete
CHECK_DEADLOCK FALSE
