--------------------------- MODULE RaftFollower ---------------------------
(***************************************************************************)
(* The follower: followerMain of the main thread and the handlers the      *)
(* message thread runs for it (JimoRaft/RaftFollower.cpp).                 *)
(***************************************************************************)
EXTENDS RaftServer

(* The switch, followerInit, the loop test and the head of the first round. *)
FollowerInit(s) ==
  /\ mainPc[s] = "switch" /\ mRole[s] = "eFollower"
  /\ InitVote(s)
  /\ mHeartBeatRecved' = [mHeartBeatRecved EXCEPT ![s] = FALSE]
  /\ mLeaderId' = [mLeaderId EXCEPT ![s] = Nil]
  /\ mainPc' = [mainPc EXCEPT ![s] = "followerWait"]
  /\ UNCHANGED <<mRole, mNumVotedForMe, granting, mCurTermId, termRead, logVars, peerVars,
                 dataVars, net>>

(* The timedWait ends and there was a heartbeat or a vote: the next round  *)
(* of the loop clears both.                                                *)
FollowerNextRound(s) ==
  /\ mainPc[s] = "followerWait"
  /\ mHeartBeatRecved[s] \/ mVotedFor[s] # Nil
  /\ mHeartBeatRecved' = [mHeartBeatRecved EXCEPT ![s] = FALSE]
  /\ mVotedFor' = [mVotedFor EXCEPT ![s] = Nil]
  /\ UNCHANGED <<mRole, mVotedForTermId, mLeaderId, mNumVotedForMe, granting, mCurTermId, mainVars,
                 logVars, peerVars, dataVars, net>>

(* The timedWait ends and nothing was heard ...                            *)
FollowerTimeout(s) ==
  /\ s \in Starters /\ mCurTermId[s] < MaxTerm
  /\ mainPc[s] = "followerWait"
  /\ ~mHeartBeatRecved[s] /\ mVotedFor[s] = Nil
  /\ mainPc' = [mainPc EXCEPT ![s] = "followerTimedOut"]
  /\ UNCHANGED <<mRole, mLeaderId, mHeartBeatRecved, mCurTermId, termRead, voteVars, logVars,
                 peerVars, dataVars, net>>

(* ... so there is an election, whatever is heard meanwhile.               *)
FollowerStartElection(s) ==
  /\ mainPc[s] = "followerTimedOut"
  /\ mRole' = [mRole EXCEPT ![s] = "eCandidate"]
  /\ mainPc' = [mainPc EXCEPT ![s] = "switch"]
  /\ UNCHANGED <<mLeaderId, mHeartBeatRecved, mCurTermId, termRead, voteVars, logVars,
                 peerVars, dataVars, net>>

---------------------------------------------------------------------------
(* followerHandleAppendEntryReq                                            *)

(* Requests the follower answers with false before it looks at any entry.  *)
OutOfOrder(s, m) ==
  \/ m.firstLogId > LastLogId(s) + 1
  \/ 0 < m.firstLogId /\ m.firstLogId <= mCommitIndex[s]

PrevConflicts(s, m) ==
  /\ ~OutOfOrder(s, m)
  /\ m.firstLogId > 1
  /\ mLogQueue[s][m.firstLogId - 1].term # m.prevLogTermId

(* Mutant: committed entries are removed as well.                          *)
KeptAlways(s, m) == m.firstLogId - 2

(* How many entries of the log stay in that case: the entry that conflicts *)
(* and all after it are removed, unless it is committed.                   *)
KeptOnConflict(s, m) ==
  IF m.firstLogId - 1 > mCommitIndex[s] THEN m.firstLogId - 2 ELSE LastLogId(s)

(* The first position of the request whose entry is missing here or has    *)
(* another term; Len(m.logs) + 1 if all of them are here already.          *)
FirstNew(s, m) ==
  Min({Len(m.logs) + 1} \cup
      {i \in DOMAIN m.logs :
         \/ m.firstLogId + i - 1 > LastLogId(s)
         \/ mLogQueue[s][m.firstLogId + i - 1].term # m.logs[i].term})

(* How many entries of the log stay when the request is appended: removeLogs *)
(* takes the first one that conflicts and all after it.                    *)
Kept(s, m) ==
  IF FirstNew(s, m) > Len(m.logs) THEN LastLogId(s) ELSE m.firstLogId + FirstNew(s, m) - 2

(* Mutant: entries that are here already are appended again.               *)
AppendedAgain(s, m) == mLogQueue[s] \o m.logs

Appended(s, m) ==
  SubSeq(mLogQueue[s], 1, Kept(s, m)) \o SubSeq(m.logs, FirstNew(s, m), Len(m.logs))

Refused(s, m) == FirstNew(s, m) <= Len(m.logs) /\ Len(Appended(s, m)) > Room(s)

(* The log becomes new, of which the first kept entries stay; an entry     *)
(* taken from a message has not been counted by anybody.                   *)
SetLog(s, new, kept) ==
  /\ mLogQueue' = [mLogQueue EXCEPT ![s] = new]
  /\ mServerRecved' = [mServerRecved EXCEPT ![s] =
                          [i \in 1..Len(new) |-> IF i <= kept THEN @[i] ELSE 0]]

FollowerHandleAppendEntryReq(s, m) ==
  /\ m.type = "AppendEntryReq"
  /\ RoleFor(s, m) = "eFollower"
  /\ StepDownTermAndRole(s, m)
  /\ StepDownVote(s, m)
  /\ UNCHANGED <<mNumVotedForMe, granting, mainVars, peerVars, dataVars>>
  /\ \/ (* a request of an old term *)
        /\ mCurTermId[s] > m.term
        /\ UNCHANGED <<mHeartBeatRecved, mLeaderId, logVars>>
        /\ Send({m}, {AppendRspTo(s, m, FALSE)})
     \/ /\ mCurTermId[s] <= m.term
        /\ mHeartBeatRecved' = [mHeartBeatRecved EXCEPT ![s] = TRUE]
        /\ mLeaderId' = [mLeaderId EXCEPT ![s] = m.from]
        /\ \/ /\ OutOfOrder(s, m)
              /\ UNCHANGED logVars
              /\ Send({m}, {AppendRspTo(s, m, FALSE)})
           \/ /\ PrevConflicts(s, m)
              /\ SetLog(s, SubSeq(mLogQueue[s], 1, KeptOnConflict(s, m)), KeptOnConflict(s, m))
              /\ UNCHANGED <<mCommitIndex, mLastLogIdApplied>>
              /\ Send({m}, {AppendRspTo(s, m, FALSE)})
           \/ (* no room for all of the entries: the rest is dropped, unanswered *)
              /\ ~OutOfOrder(s, m) /\ ~PrevConflicts(s, m)
              /\ Refused(s, m)
              /\ SetLog(s, SubSeq(Appended(s, m), 1, Max({Kept(s, m), Room(s)})), Kept(s, m))
              /\ UNCHANGED <<mCommitIndex, mLastLogIdApplied>>
              /\ Send({m}, {})
           \/ /\ ~OutOfOrder(s, m) /\ ~PrevConflicts(s, m)
              /\ ~Refused(s, m)
              /\ SetLog(s, Appended(s, m), Kept(s, m))
              /\ mCommitIndex' = [mCommitIndex EXCEPT ![s] =
                                    IF @ < m.commit THEN Min({Len(mLogQueue'[s]), m.commit}) ELSE @]
              /\ Send({m}, {AppendRspTo(s, m, TRUE)})
              /\ ApplyCommittedLogs(s)
===========================================================================
