SPECIFICATION FairSpec
CONSTANTS
  Clients = {c1, c2}
  MaxPackets = 2
  SockBuf = 1
  Closing = TRUE
INVARIANTS
  PacketsStayWhole
  SameOrder
PROPERTIES
  PacketsAreRelayed
\* The clients may fall silent, and the server may wait for them for ever.
CHECK_DEADLOCK FALSE
