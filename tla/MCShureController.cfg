CONSTANTS
  EventCap = 1
  MaxLines = 4
SPECIFICATION FairSpec
INVARIANTS
  TypeOK
  ReportsInOrder
  JoinUnreachable
PROPERTIES
  StopEndsReader
CHECK_DEADLOCK FALSE
