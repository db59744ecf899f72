\* Writes succeed and peers stay until they are accepted.
CONSTANTS
  Clients = {c1, c2}
  MaxBatch = 2
  MaxPackets = 2
  MaxWrites = 2
  WriteOutcomes = {"flushed"}
  SyncWriteErrors = FALSE
  PeernameErrors = FALSE
SPECIFICATION FairSpec
INVARIANT NeverFaults
PROPERTY Released
\* All connections end.
CHECK_DEADLOCK FALSE
