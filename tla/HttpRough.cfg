\* Everything a peer and the socket may do, and a response that is ended twice.
CONSTANTS
  Requests <- MCRequests
  MaxReads = 3
  MaxEnds = 2
  WriteOutcomes = {"queued", "flushed", "failed", "refused"}
  ZeroReads = TRUE
  PeerFails = TRUE
SPECIFICATION Spec
INVARIANTS TypeOK HeadersWhole WholeWhenUncut ErrorForCause SafeOnceHandled
PROPERTY ImplementsExchange
\* The connection ends.
CHECK_DEADLOCK FALSE
