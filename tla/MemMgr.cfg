SPECIFICATION Spec
CONSTANTS
  Client = {c1, c2}
  Offset = 4
  Sizes = {8, 10}
  FbSize = 14
  PageLen = 2
  Requests <- MCRequests
  Managers = {"pf", "gpu"}
  MaxIndex = 3
  MaxBad = 2
  MaxNps = 4
INVARIANTS WellFormed AvoidsNps BadPageKept
PROPERTIES Implements ReplaceClears
CHECK_DEADLOCK FALSE
