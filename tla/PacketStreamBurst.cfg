\* A peer that sends without waiting: more frames than one batch decodes, more
\* bytes than the buffer holds, a frame larger than the buffer, a bad magic.
CONSTANTS
  NFrames = 3
  HeaderSize = 2
  MaxBody = 5
  Capacity = 6
  PacketCap = 6
  ReadMax = 6
  MaxBatch = 2
  Window = 3
SPECIFICATION Spec
INVARIANTS TypeOK InOrder CopyNeverThrows ClosedForCause StallOnlyAfterFullBatch
PROPERTY ImplementsChannel
\* The connection ends.
CHECK_DEADLOCK FALSE
