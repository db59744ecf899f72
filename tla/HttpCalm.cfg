\* A peer that stays and sends its request in up to four reads.
CONSTANTS
  Requests <- MCRequests
  MaxReads = 3
  MaxEnds = 1
  WriteOutcomes = {"flushed", "failed"}
  ZeroReads = FALSE
  PeerFails = FALSE
SPECIFICATION FairSpec
INVARIANT NothingLost
PROPERTY ImplementsFairExchange
\* The connection ends.
CHECK_DEADLOCK FALSE
