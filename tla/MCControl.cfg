CONSTANTS
  Clients = {c1}
  Objects = {o1, o2}
  Plain = {o2}
  MaxWrites = 2
  MaxSubs = 2
  SenderIDs = {s1, s2}
  TransportParams = {p1}
SPECIFICATION ControlSpec
INVARIANTS
  NcpTypeOK
  SettledSubscribersAgree
  OnlyAcceptedShown
PROPERTIES
  WritesEnd
  GoneClientLeaves
  OnlyImmediateActivates
CHECK_DEADLOCK FALSE
