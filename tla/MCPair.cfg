SPECIFICATION Spec
CONSTANTS
  s1 = s1  s2 = s2  v1 = v1  v2 = v2
  Server = {s1, s2}
  Starters = {s1, s2}
  Value = {v1, v2}
  Nil = Nil
  RAFT_MAX_LOG_IN_MSG = 2
  RAFT_LOG_QUEUE_SIZE = 0
  Uninit = {0, 1}
  MaxTerm = 2
  MaxNet = 1
SYMMETRY Symmetry
INVARIANTS TypeOK IndexOrder LogBounded
\* MaxTerm stops the elections, so the group may stop.
CHECK_DEADLOCK FALSE
