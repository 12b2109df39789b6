CONSTANTS
  Addrs = {a1, a2}
  ManualAddr = a1
  NoAddr = noAddr
  Params = {p1}
  StaleTicks = 0
  MaxReports = 1
  RegisterReturns = TRUE
SPECIFICATION Spec
INVARIANTS
  TypeOK
  OneListenerPerDevice
  HandlerSeesCompleteInfo
  DeviceIndexUnique
  EventsHaveResources
CHECK_DEADLOCK FALSE
