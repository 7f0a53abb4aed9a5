SPECIFICATION FairSpec
CONSTANTS
  MaxChunks = 6
  SEQ_MOD = 4
  NetCap = 4
  Timely = {TRUE, FALSE}
INVARIANTS
  FileIsPrefix
  ClosedIsWhole
  DoneIsReceived
PROPERTIES
  ClientFinishes
  FileArrives
\* The client ends, and the server may wait for ever.
CHECK_DEADLOCK FALSE
