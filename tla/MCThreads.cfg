\* Work and over callbacks end in every way; stores are seen out of order, creations
\* throw, and objects are destroyed.
CONSTANTS
  None = None
  Requests = {r1, r2, r3}
  Workers = {w1, w2}
  WorkEnds = {"value", "void", "throws"}
  OverEnds = {"returns", "libra", "other"}
  QueueErrors = TRUE
  Threads = {t1, t2, t3}
  NoThread = NoThread
  MaxCalls = 2
  Reorders = TRUE
  Throws = TRUE
SPECIFICATION MCSpec
INVARIANT OwnershipSound
PROPERTIES Answered SingletonSound CallsEnd
\* All requests are done and all calls made, or the run has ended in a fault.
CHECK_DEADLOCK FALSE
