SPECIFICATION Spec
CONSTANTS
  RAFT_LOG_QUEUE_SIZE = 1
  RAFT_APPLIED_LOG_QUEUE_SIZE = 1
  RAFT_APPLIED_LOG_CACHE_SIZE = 2
  RAFT_LOG_PER_FILE = 2
  LeaderLogs <- ConflictingLogs
  StatMachFails = TRUE
  MaxTerm = 2
  MaxLog = 3
  MaxRestarts = 1
PROPERTY ImplementsRaftLog
INVARIANTS TypeOK QueueHoldsUnapplied ReadsTheLog HeartbeatFindsEntry
\* The bounds, or a process that has died, end a behaviour.
CHECK_DEADLOCK FALSE
