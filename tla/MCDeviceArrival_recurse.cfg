CONSTANTS
  Services = {mdns}
  MdnsRecords <- MCMdns
  SlpRecords <- MCSlp
  ChannelSize = 1
  Addrs <- MCAddrs
SPECIFICATION Spec
INVARIANT RecursiveSearchFindsNested
CHECK_DEADLOCK FALSE
