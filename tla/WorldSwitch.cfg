SPECIFICATION Spec
CONSTANTS
  NumVF = 2
  Events = {"REQ_GPU_INIT", "REQ_GPU_FINI", "REL_GPU_INIT", "REL_GPU_FINI", "REQ_GPU_RESET", "SUSPEND", "RESUME", "INIT_VF_FB", "FORCE_RESET_VF", "REMOVE_VF", "FORCE_RESET_GPU", "STOP_VF", "SUSPEND_VF", "RESUME_VF"}
  Faults = {"vf", "pf", "flr"}
  MaxEvents = 8
  MaxFaulty = 5
  MaxFails = 2
INVARIANTS AssertsWithoutFault StoppedAsserts FullAccessExclusive ListMatches HwAgrees
CHECK_DEADLOCK FALSE
