CONSTANTS
  zero = zero
  a = a
  key = key
  Code = {zero, a}
  ZeroCode = zero
  Interlock = {}
  BurstSize = 1
  ShutdownTime = 0
  ChanCap = 1
  ValveStates = {"ARMED"}
SPECIFICATION LiveSpec
PROPERTIES AutoShutdown PersistentOperatorFires
