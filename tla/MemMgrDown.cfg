SPECIFICATION Spec
CONSTANTS
  Client = {c1}
  Offset = 4
  Sizes = {10}
  FbSize = 14
  PageLen = 2
  Requests <- MCRequests
  Managers = {"gpu"}
  MaxIndex = 3
  MaxBad = 2
  MaxNps = 0
INVARIANT RightPage
CHECK_DEADLOCK FALSE
