SPECIFICATION TakeoverSpec
CONSTANTS
  s1 = s1  s2 = s2  s3 = s3  a = a  b = b  c = c  d = d
  Server = {s1, s2, s3}
  Starters = {s1, s2}
  Value = {a, b, c, d}
  Nil = Nil
  RAFT_MAX_LOG_IN_MSG = 2
  RAFT_LOG_QUEUE_SIZE = 1
  Uninit = {0}
  MaxTerm = 2
  MaxNet = 2
PROPERTIES CommittedPrefixStable 
\* MaxTerm stops the elections, so the group may stop.
CHECK_DEADLOCK FALSE
