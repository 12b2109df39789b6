CONSTANTS
  Addrs = {a1}
  ManualAddr = a1
  NoAddr = noAddr
  Params = {p1}
  StaleTicks = 0
  MaxReports = 1
  RegisterReturns = TRUE
SPECIFICATION FairSpec
PROPERTIES
  ReportsHandled
  SignalStops
CHECK_DEADLOCK FALSE
