SPECIFICATION Spec
CONSTANTS
  Clients = {c1, c2}
  MaxPackets = 1
  SockBuf = 2
  Closing = TRUE
INVARIANTS
  DataHasArrived
\* The clients may fall silent, and the server may wait for them for ever.
CHECK_DEADLOCK FALSE
