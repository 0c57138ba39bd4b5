SPECIFICATION Spec
CONSTANTS
  s1 = s1  s2 = s2  s3 = s3  v1 = v1  v2 = v2
  Server = {s1, s2, s3}
  Starters = {s1}
  Value = {v1, v2}
  Nil = Nil
  RAFT_MAX_LOG_IN_MSG = 2
  RAFT_LOG_QUEUE_SIZE = 1
  Uninit = {0}
  MaxTerm = 1
  MaxNet = 2
SYMMETRY Symmetry
INVARIANTS   AgreedWithinLog
\* MaxTerm stops the elections, so the group may stop.
CHECK_DEADLOCK FALSE
