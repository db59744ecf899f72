\* A stream, a timer or a signal; every call at every moment, or a careful application.
CONSTANTS
  MaxCalls = 4
  MaxCaught = 2
  Signals = {"sig1", "sig2"}
  Throws = {"libra", "other"}
SPECIFICATION FairSpec
INVARIANTS HandleSound MisheardForCause CarefulIsSafe
PROPERTIES ImplementsCompletion CloseReleases
\* The calls are used up, the handle has been freed, or the run has ended in a fault.
CHECK_DEADLOCK FALSE
