SPECIFICATION FairSpec
CONSTANTS
  N = 3
  MaxReq = 1
  Faults = {"mode1"}
PROPERTY FlagCleared
CHECK_DEADLOCK FALSE
