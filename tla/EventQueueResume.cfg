SPECIFICATION FairSpec
CONSTANTS
  VF = {v1}
  Requester = {v1}
  PF = PF
  Client = {c1, c2}
  Kinds = {"SUSPEND", "RESUME", "GPUMON"}
  Size = 3
  NoVf = NoVf
  NoClient = NoClient
  NoEvent = NoEvent
  MaxEvents = 3
PROPERTY DeferredTillResume
CHECK_DEADLOCK FALSE
