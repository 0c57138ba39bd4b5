----------------------------- MODULE MCRaftLogMgr -----------------------------
(* The logs that the leaders of the instances have: two that conflict.        *)
EXTENDS RaftLogMgr

ConflictingLogs == {<<1, 1, 1>>, <<1, 2>>}
OneLog == {<<1, 2, 2>>}
==============================================================================
