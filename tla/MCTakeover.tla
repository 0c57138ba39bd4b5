---- MODULE MCTakeover ----
(* JimoRaft from a state that TLC does not reach from the start in         *)
(* reasonable time: two leaders with conflicting logs. s1, elected in term *)
(* 1 by s3, has stored a and is about to store b when s2, elected in term  *)
(* 2 by s3, has stored c and d; no request of either has arrived anywhere. *)
EXTENDS JimoRaft

CONSTANTS s1, s2, s3, a, b, c, d

ByServer(x1, x2, x3) == [s \in Server |-> IF s = s1 THEN x1 ELSE IF s = s2 THEN x2 ELSE x3]

TakeoverInit ==
  /\ mRole = ByServer("eLeader", "eLeader", "eFollower")
  /\ mVotedFor = ByServer(Nil, Nil, s2)
  /\ mVotedForTermId = ByServer(0, 0, 2)
  /\ mLeaderId = ByServer(s1, s2, Nil)
  /\ mNumVotedForMe = ByServer(2, 2, 0)
  /\ mHeartBeatRecved = ByServer(FALSE, FALSE, FALSE)
  /\ mCurTermId = ByServer(1, 2, 2)
  /\ mLogQueue = ByServer(<<[term |-> 1, val |-> a]>>,
                          <<[term |-> 2, val |-> c], [term |-> 2, val |-> d]>>, <<>>)
  /\ mServerRecved = ByServer(<<1>>, <<1, 1>>, <<>>)
  /\ mCommitIndex = ByServer(0, 0, 0)
  /\ mLastLogIdApplied = ByServer(0, 0, 0)
  /\ mLastAgreed = [s \in Server |-> [p \in Server |-> 0]]
  /\ mNextToReplicate = [s \in Server |-> [p \in Server |-> IF s = s3 THEN 0 ELSE 1]]
  /\ mainPc = ByServer("leaderWait", "leaderWait", "followerWait")
  /\ termRead = ByServer(0, 0, 0)
  /\ granting = ByServer(Nil, Nil, Nil)
  /\ dataPc = ByServer("popped", "idle", "idle")
  /\ dataLog = ByServer([logId |-> 0, term |-> 0, val |-> b], Nil, Nil)
  /\ clientData = Value \ {a, b, c, d}
  /\ net = {}

TakeoverSpec == TakeoverInit /\ [][Next]_vars
====
