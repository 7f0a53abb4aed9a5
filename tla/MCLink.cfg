SPECIFICATION FairSpec
CONSTANTS
  MaxFrames = 3
  MaxReverse = 2
  BUFFER_SIZE = 2
  serialization_delay = 2
  delay = 2
  Loss = TRUE
  Corrupt = TRUE
  corrupt2 = FALSE
INVARIANTS
  BufferBound
  WaitsOnlyWhenIdle
  DequeueFindsFrame
  Paced
PROPERTIES
  EachWayIsFifo
  AcceptedIsDelivered
\* A failed assertion aborts the process: the system really stops.
CHECK_DEADLOCK FALSE
