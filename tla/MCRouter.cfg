SPECIFICATION FairSpec
CONSTANTS
  WORD = 6
  Kinds = {"Tema1", "lab4"}
  Tables <- MCTables
  MaxTtl = 3
  MaxPackets = 1
INVARIANTS
  ChecksumsHold
  HopsBounded
  OneFramePerPacket
PROPERTY
  PacketsDie
CHECK_DEADLOCK FALSE
