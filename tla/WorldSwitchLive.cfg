SPECIFICATION FairSpec
CONSTANTS
  NumVF = 2
  Events = {"REQ_GPU_INIT", "REQ_GPU_FINI", "REL_GPU_INIT", "REL_GPU_FINI", "REQ_GPU_RESET", "SUSPEND", "RESUME", "FORCE_RESET_VF", "FORCE_RESET_GPU"}
  Faults = {"vf", "flr"}
  MaxEvents = 5
  MaxFaulty = 5
  MaxFails = 2
INVARIANTS ContextAsserts
PROPERTIES HungVfIsReset Reactivated EveryVfRuns
CHECK_DEADLOCK FALSE
