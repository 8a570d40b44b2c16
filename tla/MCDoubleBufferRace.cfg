CONSTANTS
  N = 2
  MaxEntries = 9
  Timely = FALSE
  OpenMayFail = FALSE
SPECIFICATION Spec
INVARIANT NoOverrun
CHECK_DEADLOCK FALSE
