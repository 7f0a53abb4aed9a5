SPECIFICATION Spec
CONSTANTS
  MaxFrames = 2
  MaxReverse = 0
  BUFFER_SIZE = 2
  serialization_delay = 1
  delay = 1
  Loss = FALSE
  Corrupt = FALSE
  corrupt2 = FALSE
INVARIANTS
  BlocksOnEmptyBuffer
\* A failed assertion aborts the process: the system really stops.
CHECK_DEADLOCK FALSE
