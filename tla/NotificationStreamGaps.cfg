SPECIFICATION FairSpec
CONSTANTS
  n1 = n1
  n2 = n2
  n3 = n3
  c1 = c1
  Notices <- MCNotices
  Clients <- MCClients
  Limit = 2
  MaxFaults = 1
INVARIANTS
  TypeOK
  StreamCompletesList
PROPERTIES
  CreatedIsStreamed
CHECK_DEADLOCK FALSE
