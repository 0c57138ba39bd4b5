---------------------------- MODULE RaftLeader ----------------------------
(***************************************************************************)
(* The leader: leaderMain of the main thread, the handlers the message     *)
(* thread runs for it, and the data thread, which appends what clients     *)
(* store and sends it to the peers (JimoRaft/RaftLeader.cpp).              *)
(***************************************************************************)
EXTENDS RaftServer

(* Mutant: the peers keep what the last leadership knew of them.           *)
LeaderInitKeepsPeers(s) ==
  /\ mainPc[s] = "leaderInit"
  /\ InitVote(s)
  /\ mLeaderId' = [mLeaderId EXCEPT ![s] = s]
  /\ mainPc' = [mainPc EXCEPT ![s] = IF mRole[s] = "eLeader" THEN "leaderBeat" ELSE "switch"]
  /\ UNCHANGED <<mRole, mNumVotedForMe, granting, mHeartBeatRecved, mCurTermId, termRead, logVars,
                 peerVars, dataVars, net>>

(* leaderInit and the loop test: a server whose role was taken since the   *)
(* switch does all of leaderInit, but leads nobody.                        *)
LeaderInit(s) ==
  /\ mainPc[s] = "leaderInit"
  /\ InitVote(s)
  /\ mLastAgreed' = [mLastAgreed EXCEPT ![s] = [p \in Server |-> 0]]
  /\ mNextToReplicate' = [mNextToReplicate EXCEPT ![s] = [p \in Server |-> LastLogId(s) + 1]]
  /\ mLeaderId' = [mLeaderId EXCEPT ![s] = s]
  /\ mainPc' = [mainPc EXCEPT ![s] = IF mRole[s] = "eLeader" THEN "leaderBeat" ELSE "switch"]
  /\ UNCHANGED <<mRole, mNumVotedForMe, granting, mHeartBeatRecved, mCurTermId, termRead, logVars, dataVars,
                 net>>

Request(s, p, firstLogId, prevLogTermId, logs) ==
  [type |-> "AppendEntryReq", from |-> s, to |-> p, term |-> mCurTermId[s],
   firstLogId |-> firstLogId, prevLogTermId |-> prevLogTermId, logs |-> logs,
   commit |-> mCommitIndex'[s]]

(* broadcastHeartbeat. The message thread may have changed the role since  *)
(* the loop test: the heartbeat is sent all the same.                      *)
LeaderBeat(s) ==
  /\ mainPc[s] = "leaderBeat"
  /\ mainPc' = [mainPc EXCEPT ![s] = "leaderWait"]
  /\ UNCHANGED <<mRole, mLeaderId, mHeartBeatRecved, mCurTermId, termRead, voteVars, logVars,
                 peerVars, dataVars>>
  /\ Send({}, {Request(s, p, 0, PrevLogTerm(s, LastLogId(s)), <<>>) : p \in Peers(s)})

(* The timedWait ends: another heartbeat, or back to the switch.           *)
LeaderWake(s) ==
  /\ mainPc[s] = "leaderWait"
  /\ mainPc' = [mainPc EXCEPT ![s] =
                  IF mRole[s] = "eLeader" THEN "leaderBeat" ELSE "switch"]
  /\ UNCHANGED <<mRole, mLeaderId, mHeartBeatRecved, mCurTermId, termRead, voteVars, logVars,
                 peerVars, dataVars, net>>

---------------------------------------------------------------------------
(* leaderHandleAppendEntryReq: somebody else believes it is the leader.    *)
LeaderHandleAppendEntryReq(s, m) ==
  /\ m.type = "AppendEntryReq"
  /\ RoleFor(s, m) = "eLeader"
  /\ UNCHANGED <<mCurTermId, mLeaderId, mHeartBeatRecved, mainVars, voteVars, logVars,
                 peerVars, dataVars>>
  /\ \/ /\ mCurTermId[s] > m.term
        /\ Send({m}, {AppendRspTo(s, m, FALSE)})
        /\ UNCHANGED mRole
     \/ /\ mCurTermId[s] <= m.term
        /\ Send({m}, {})
        /\ mRole' = [mRole EXCEPT ![s] = "eCandidate"]

LeaderHandleVoteReq(s, m) ==
  /\ m.type = "VoteReq"
  /\ RoleFor(s, m) = "eLeader"
  /\ UNCHANGED <<mRole, mCurTermId, mLeaderId, mHeartBeatRecved, mainVars, voteVars, logVars,
                 peerVars, dataVars>>
  /\ Send({m}, {VoteRspTo(s, m, FALSE)})

(* Whether the entry the data thread holds is still the one in the log.    *)
StillThere(s) ==
  /\ dataLog[s].logId <= LastLogId(s)
  /\ mLogQueue[s][dataLog[s].logId] = [term |-> dataLog[s].term, val |-> dataLog[s].val]

(* Mutant: a response counts for the whole log.                            *)
CountedAll(s, m) == {i \in DOMAIN mLogQueue[s] : mCommitIndex[s] < i}

(* The entries a response counts: all that are not committed, up to the    *)
(* sender's last one, whether or not they are what the sender holds.       *)
Counted(s, m) == {i \in DOMAIN mLogQueue[s] : mCommitIndex[s] < i /\ i <= m.lastLogId}

(* Those that become committed: of the current term and received by more   *)
(* than half.                                                              *)
Committable(s, m) ==
  {i \in Counted(s, m) :
     /\ mLogQueue[s][i].term = mCurTermId[s]
     /\ Inc(mServerRecved[s][i]) > Half}

(* incReceivedCount is not atomic: when the data thread counts its new     *)
(* entry at the same time, one of the two is lost.                         *)
CountReceived(s, m) ==
  /\ \E lost \in SUBSET {i \in Counted(s, m) :
                          dataPc[s] = "appended" /\ StillThere(s) /\ i = dataLog[s].logId} :
       mServerRecved' = [mServerRecved EXCEPT ![s] =
         [i \in DOMAIN @ |-> IF i \in Counted(s, m) \ lost THEN Inc(@[i]) ELSE @[i]]]
  /\ mCommitIndex' = [mCommitIndex EXCEPT ![s] = Max({@} \cup Committable(s, m))]

(* sendAppendEntryReq: a group of entries from the peer's next one on.     *)
NextRequests(s, p) ==
  LET first == mNextToReplicate'[s][p]
      last  == Min({first + RAFT_MAX_LOG_IN_MSG - 1, LastLogId(s)})
  IN  IF first \in DOMAIN mLogQueue[s]
      THEN {Request(s, p, first, PrevLogTerm(s, first), SubSeq(mLogQueue[s], first, last))}
      ELSE {}

LeaderHandleAppendEntryRsp(s, m) ==
  /\ m.type = "AppendEntryRsp"
  /\ RoleFor(s, m) = "eLeader"
  /\ UNCHANGED <<mRole, mCurTermId, mLeaderId, mHeartBeatRecved, mainVars, voteVars,
                 mLogQueue, dataVars>>
  /\ \/ (* an answer older than one seen already *)
        /\ m.lastLogId < mLastAgreed[s][m.from]
        /\ Send({m}, {})
        /\ UNCHANGED <<mServerRecved, mCommitIndex, mLastLogIdApplied, peerVars>>
     \/ (* the sender holds more than I do: what was counted stays counted *)
        /\ m.lastLogId > mLastAgreed[s][m.from]
        /\ m.lastLogId > LastLogId(s)
        /\ CountReceived(s, m)
        /\ Send({m}, {})
        /\ UNCHANGED <<mLastLogIdApplied, peerVars>>
     \/ /\ m.lastLogId > mLastAgreed[s][m.from]
        /\ m.lastLogId <= LastLogId(s)
        /\ CountReceived(s, m)
        /\ mLastAgreed' = [mLastAgreed EXCEPT ![s][m.from] = m.lastLogId]
        /\ mNextToReplicate' = [mNextToReplicate EXCEPT ![s][m.from] = m.lastLogId + 1]
        /\ Send({m}, NextRequests(s, m.from))
        /\ ApplyCommittedLogs(s)
     \/ /\ m.lastLogId = mLastAgreed[s][m.from]
        /\ UNCHANGED <<mServerRecved, mCommitIndex, peerVars>>
        /\ Send({m}, NextRequests(s, m.from))
        /\ ApplyCommittedLogs(s)

---------------------------------------------------------------------------
(* The data thread, dataThreadFunc.                                        *)

(* It is the leader's and there is client data: pop one. (The queue itself *)
(* and what clears it are left out: a value may stay in clientData.)       *)
DataPop(s) ==
  /\ dataPc[s] = "idle" /\ mRole[s] = "eLeader"
  /\ \E v \in clientData :
       /\ clientData' = clientData \ {v}
       /\ dataLog' = [dataLog EXCEPT ![s] = [logId |-> 0, term |-> 0, val |-> v]]
  /\ dataPc' = [dataPc EXCEPT ![s] = "popped"]
  /\ UNCHANGED <<mRole, mLeaderId, mHeartBeatRecved, mCurTermId, mainVars, voteVars, logVars,
                 peerVars, net>>

(* appendLog, with the term of now, whatever the role has become; an entry *)
(* that is refused ends the thread.                                        *)
DataAppend(s) ==
  /\ dataPc[s] = "popped"
  /\ UNCHANGED <<mRole, mLeaderId, mHeartBeatRecved, mCurTermId, mainVars, voteVars,
                 mCommitIndex, mLastLogIdApplied, peerVars, clientData, net>>
  /\ \/ /\ LastLogId(s) >= Room(s)
        /\ dataPc' = [dataPc EXCEPT ![s] = "ended"]
        /\ UNCHANGED <<dataLog, mLogQueue, mServerRecved>>
     \/ /\ LastLogId(s) < Room(s)
        /\ dataPc' = [dataPc EXCEPT ![s] = "appended"]
        /\ dataLog' = [dataLog EXCEPT ![s] =
                         [logId |-> LastLogId(s) + 1, term |-> mCurTermId[s], val |-> @.val]]
        /\ mLogQueue' = [mLogQueue EXCEPT ![s] =
                           Append(@, [term |-> mCurTermId[s], val |-> dataLog[s].val])]
        /\ mServerRecved' = [mServerRecved EXCEPT ![s] = Append(@, 0)]

(* incReceivedCount, the leader's own.                                     *)
DataCount(s) ==
  /\ dataPc[s] = "appended"
  /\ mServerRecved' = [mServerRecved EXCEPT ![s] =
        [i \in DOMAIN @ |-> IF i = dataLog[s].logId /\ StillThere(s) THEN Inc(@[i]) ELSE @[i]]]
  /\ dataPc' = [dataPc EXCEPT ![s] = "counted"]
  /\ UNCHANGED <<mRole, mLeaderId, mHeartBeatRecved, mCurTermId, mainVars, voteVars, mLogQueue,
                 mCommitIndex, mLastLogIdApplied, peerVars, dataLog, clientData, net>>

(* broadcastAppendEntryReq, to the peers that wait for exactly this entry. *)
(* The entry before it may have been removed meanwhile: reading its term   *)
(* goes through a null pointer and the process dies.                       *)
DataBroadcast(s) ==
  /\ dataPc[s] = "counted"
  /\ dataLog' = [dataLog EXCEPT ![s] = Nil]
  /\ UNCHANGED <<mRole, mLeaderId, mHeartBeatRecved, mCurTermId, termRead, voteVars, logVars,
                 peerVars, clientData>>
  /\ LET e == dataLog[s]
         waiting == {p \in Peers(s) : mNextToReplicate[s][p] = e.logId}
     IN  \/ /\ e.logId - 1 <= LastLogId(s)
            /\ dataPc' = [dataPc EXCEPT ![s] = "idle"]
            /\ UNCHANGED mainPc
            /\ Send({}, {Request(s, p, e.logId, PrevLogTerm(s, e.logId),
                                 <<[term |-> e.term, val |-> e.val]>>) : p \in waiting})
         \/ /\ e.logId - 1 > LastLogId(s)
            /\ dataPc' = [dataPc EXCEPT ![s] = "ended"]
            /\ mainPc' = [mainPc EXCEPT ![s] = "down"]
            /\ UNCHANGED net
===========================================================================
