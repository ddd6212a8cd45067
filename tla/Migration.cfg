SPECIFICATION FairSpec
CONSTANTS
  NumPages = 2
  RingSize = 2
  ReadLen = 1
  Faults = {"setup", "suspend", "validate", "query", "copy", "import", "timeout", "flr", "init", "wgr", "access"}
  MaxWrites = 2
  MaxCalls = 1
  MaxAttempts = 2
  MaxFaults = 1
INVARIANTS NoPageForgotten RunsOnce
PROPERTY ReaderIsServed
CHECK_DEADLOCK FALSE
