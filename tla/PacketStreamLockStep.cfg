\* A peer that keeps at most MaxBatch frames outstanding, and whose outstanding
\* frames fit the receive buffer.
CONSTANTS
  NFrames = 4
  HeaderSize = 2
  MaxBody = 1
  Capacity = 6
  PacketCap = 6
  ReadMax = 6
  MaxBatch = 2
  Window = 2
SPECIFICATION FairSpec
INVARIANTS NoStall NothingLostAtEof NoDrop
PROPERTY ImplementsFairChannel
\* The connection ends.
CHECK_DEADLOCK FALSE
