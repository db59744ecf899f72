\* Everything the code must survive: writes that wait, fail late or fail at once,
\* peers gone before they are accepted, sends from every callback.
CONSTANTS
  Clients = {c1, c2}
  MaxBatch = 2
  MaxPackets = 2
  MaxWrites = 2
  WriteOutcomes = {"queued", "flushed", "failed"}
  SyncWriteErrors = TRUE
  PeernameErrors = TRUE
SPECIFICATION Spec
INVARIANTS TypeOK HeldAlive OverExactlyOnce HandleFollowsClient
PROPERTY SilentAfterOver
\* All connections end, and a use of a deleted Client stops the run.
CHECK_DEADLOCK FALSE
