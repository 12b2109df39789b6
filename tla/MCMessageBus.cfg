CONSTANTS
  Senders = {l1, l2}
  Cap = 1
  MaxCalls = 3
SPECIFICATION FairSpec
INVARIANTS
  TypeOK
  NoLossWhileForwarding
  DeliveredIsPrefix
  ParkedOnlyWhenFull
PROPERTIES
  ImplementsFifo
  CloseReturns
  SendersReleased
  AcceptedIsDelivered
CHECK_DEADLOCK FALSE
