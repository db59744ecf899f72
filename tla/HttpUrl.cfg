\* A request cut into reads: is the url the handler sees the one that was sent?
CONSTANTS
  Requests <- MCRequests
  MaxReads = 2
  MaxEnds = 1
  WriteOutcomes = {"flushed"}
  ZeroReads = FALSE
  PeerFails = FALSE
SPECIFICATION Spec
INVARIANT UrlWhole
\* The connection ends.
CHECK_DEADLOCK FALSE
