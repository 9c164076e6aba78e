SPECIFICATION FairSpec
CONSTANTS
  a1 = a1
  a2 = a2
  a3 = a3
  Methods = {"tcp", "ja4t", "quic"}
  Addresses <- AllAddresses
  IPv4 <- FamilyIPv4
  HostName = HostName
  Lists <- AddressLists
  MaxRules = 2
  Timeouts = {0, 2, 7}
  QUICDefault = 2
  Latency = 1
  Patience = 3
INVARIANTS
  TypeOK
  LookupMeansTheLast
  TriesInOrder
  SharesTime
  CodeTellsWhy
  SocketsClosed
PROPERTIES
  DialEnds
CHECK_DEADLOCK FALSE
