CONSTANTS
  zero = zero
  a = a
  key = key
  Code = {zero, a}
  ZeroCode = zero
  Interlock = {key}
  BurstSize = 2
  ShutdownTime = 1
  ChanCap = 2
  ValveStates = {"ARMED"}
  MaxOrders = 3
SPECIFICATION HSpec
INVARIANTS TypeOK IgniterIffOn OnePressOneOrder 
PROPERTY ImplementsTwoStep
