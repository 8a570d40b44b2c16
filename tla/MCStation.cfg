CONSTANTS
  Port = {p1, p2}
  Body = 1
  PortCap = 6
  Total = 3
SPECIFICATION StationSpec
INVARIANTS StationTypeOK InStep LogIndexValid
PROPERTIES ClosingEndsWorker StopClosesModem StartOpensModem SilenceHeals
CHECK_DEADLOCK FALSE
