CONSTANTS
  Services = {mdns}
  MdnsRecords <- MCMdns
  SlpRecords <- MCSlp
  ChannelSize = 1
  Addrs <- MCAddrs
SPECIFICATION FairSpec
INVARIANTS
  ClientsSeeWholeDevices
  ReportsReachTheirWorker
  OnlyDrainsSendLate
CHECK_DEADLOCK FALSE
PROPERTIES
  DiscovererStopReturns
  AnnouncedArrives
