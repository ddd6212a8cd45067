CONSTANTS
  NumVf = 1
  e1 = e1
  e2 = e2
  HwSched <- MCHwSched
  LegacyFlr = FALSE
SYMMETRY Symmetry
SPECIFICATION Spec
INVARIANTS
  TypeOK
  OneLiveContext
  LegalOutsideFlr
  SuccessMeansArrived
  NoInfiniteLoop
