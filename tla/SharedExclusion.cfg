SPECIFICATION FairSpec
CONSTANTS
  Thread = {t1, t2, t3, t4, t5}
  Group = {"FLR", "CP_DMA"}
INVARIANTS TypeOK Exclusion TokenPerWaiter
PROPERTIES WaiterIsLetIn
CHECK_DEADLOCK FALSE
