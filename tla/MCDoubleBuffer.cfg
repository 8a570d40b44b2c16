CONSTANTS
  N = 2
  MaxEntries = 9
  Timely = TRUE
  OpenMayFail = TRUE
SPECIFICATION Spec
INVARIANT TypeOK
PROPERTIES ImplementsEventLog LogIsFaithful FullIsWritten
CHECK_DEADLOCK FALSE
