CONSTANTS
  Clients = {c1}
  Sources = {s1}
  MaxEvents = 2
SPECIFICATION FairSpec
INVARIANT CacheIsNewest
PROPERTIES
  SilentClientExpires
  RemovedReaderExits
CHECK_DEADLOCK FALSE
