SPECIFICATION FairSpec
CONSTANTS
  N = 3
  MaxReq = 3
  Faults = {"alloc", "mode1", "reinit"}
INVARIANTS TypeOK ResetTogether BarrierClean NoOrphan
PROPERTIES FlagClearedUnharmed RequestsServed NoChainAfterFailure
CHECK_DEADLOCK FALSE
