SPECIFICATION FairSpec
CONSTANTS
  VF = {v1}
  Requester = {v1, PF}
  PF = PF
  Client = {c1}
  Kinds = {"FORCE_RESET_GPU", "ENTER_POWER_SAVING", "EXIT_POWER_SAVING", "SUSPEND", "RESUME", "REL_GPU_INIT", "INIT_VF_FB", "SET_VF_COND_AVAIL", "REQ_GPU_INIT", "GPUMON"}
  Size = 3
  NoVf = NoVf
  NoClient = NoClient
  NoEvent = NoEvent
  MaxEvents = 4
INVARIANTS TypeOK NextIsMostUrgent NoLostWaiter OneRequestEach
PROPERTIES NoTakeover CallReturns
CHECK_DEADLOCK FALSE
