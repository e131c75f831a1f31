CONSTANTS
  c1 = c1
  c2 = c2
  NoConn = NoConn
  Conns = {c1, c2}
  Fds = {3, 4}
  Packets <- MCPackets
  MaxPackets <- MCMaxPackets
  Cuts = {0, 3, 4}
  Pieces = {4, 10}
SPECIFICATION FairSpec
INVARIANTS
  TypeOK
  SocketsMatch
  StraysAreStale
  TransportInv
PROPERTIES
  ChannelSpec
  EverythingHeard
CHECK_DEADLOCK FALSE
