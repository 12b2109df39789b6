CONSTANTS
  Addrs = {a1, a2}
  ManualAddr = a1
  NoAddr = noAddr
  Params = {p1}
  StaleTicks = 0
  MaxReports = 0
  RegisterReturns = FALSE
SPECIFICATION FairSpec
PROPERTY ConnectRegisters
CHECK_DEADLOCK FALSE
