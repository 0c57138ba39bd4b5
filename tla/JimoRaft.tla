----------------------------- MODULE JimoRaft -----------------------------
(***************************************************************************)
(* A JimoRaft group: the servers' threads and the messages between them,   *)
(* and what the group is meant to guarantee.                               *)
(***************************************************************************)
EXTENDS RaftFollower, RaftCandidate, RaftLeader

MainThread(s) ==
  \/ MainSwitch(s)
  \/ FollowerInit(s) \/ FollowerNextRound(s) \/ FollowerTimeout(s) \/ FollowerStartElection(s)
  \/ CandidateInit(s) \/ CandidateRound(s) \/ CandidateVote(s) \/ CandidateWake(s)
  \/ LeaderInit(s) \/ LeaderBeat(s) \/ LeaderWake(s)

(* handleMsg, for a message of any sender: mMsgQueue is filled by the ten  *)
(* threads of JimoCallServer, so messages arrive in any order.             *)
MsgThread(s, m) ==
  \/ HandleVoteReq(s, m) \/ IgnoreMsg(s, m)
  \/ FollowerHandleAppendEntryReq(s, m)
  \/ CandidateHandleAppendEntryReq(s, m) \/ CandidateHandleVoteRsp(s, m)
  \/ LeaderHandleAppendEntryReq(s, m) \/ LeaderHandleVoteReq(s, m)
  \/ LeaderHandleAppendEntryRsp(s, m)

DataThread(s) == DataPop(s) \/ DataAppend(s) \/ DataCount(s) \/ DataBroadcast(s)

Next ==
  \/ \E s \in Server : MainThread(s) \/ DataThread(s)
  \/ \E s \in Server : mainPc[s] # "down" /\ GrantVote(s)
  \/ \E m \in net : mainPc[m.to] # "down" /\ granting[m.to] = Nil /\ MsgThread(m.to, m)
  \/ \E m \in net : Lose(m)

Spec == Init /\ [][Next]_vars

---------------------------------------------------------------------------
DataLog == [logId : Nat, term : Nat, val : Value]

RoleType ==
  /\ mRole \in [Server -> Role]
  /\ mLeaderId \in [Server -> Server \cup {Nil}]
  /\ mHeartBeatRecved \in [Server -> BOOLEAN]
  /\ mCurTermId \in [Server -> Nat]
  /\ mainPc \in [Server -> MainPc]
  /\ termRead \in [Server -> Nat]

VoteType ==
  /\ mVotedFor \in [Server -> Server \cup {Nil}]
  /\ mVotedForTermId \in [Server -> Nat]
  /\ mNumVotedForMe \in [Server -> Nat]
  /\ granting \in [Server -> VoteReq \cup {Nil}]

LogType ==
  /\ mLogQueue \in [Server -> Seq(Entry)]
  /\ mServerRecved \in [Server -> Seq(Nat)]
  /\ \A s \in Server : Len(mServerRecved[s]) = Len(mLogQueue[s])
  /\ mCommitIndex \in [Server -> Nat]
  /\ mLastLogIdApplied \in [Server -> Nat]

PeerType ==
  /\ mLastAgreed \in [Server -> [Server -> Nat]]
  /\ mNextToReplicate \in [Server -> [Server -> Nat]]

DataType ==
  /\ dataPc \in [Server -> DataPc]
  /\ dataLog \in [Server -> DataLog \cup {Nil}]
  /\ \A s \in Server : dataPc[s] \in {"popped", "appended", "counted"} => dataLog[s] \in DataLog
  /\ \A s \in Server : dataPc[s] \in {"appended", "counted"} => dataLog[s].logId > 0
  /\ clientData \subseteq Value

(* Every variable of the group has its type; every entry of a log has its  *)
(* count, and a data thread that is busy has an entry.                     *)
TypeOK == RoleType /\ VoteType /\ LogType /\ PeerType /\ DataType /\ net \subseteq Message

---------------------------------------------------------------------------
(* On every server what is applied is committed, and what is committed is  *)
(* in the log: setCommitIndex and setLastLogIdApplied never pass the end   *)
(* of the log, and removeLogs never cuts into them.                        *)
IndexOrder ==
  \A s \in Server : mLastLogIdApplied[s] <= mCommitIndex[s] /\ mCommitIndex[s] <= LastLogId(s)

(* A server never takes back what it has committed: the index only grows,  *)
(* and the entries up to it stay as they are, whatever leaders say later   *)
(* and whatever the data thread appends meanwhile.                         *)
CommittedPrefixStable ==
  [][\A s \in Server :
       /\ mCommitIndex[s] <= mCommitIndex'[s]
       /\ mLastLogIdApplied[s] <= mLastLogIdApplied'[s]
       /\ \A i \in 1..mCommitIndex[s] : i \in DOMAIN mLogQueue'[s] /\ mLogQueue'[s][i] = mLogQueue[s][i]]_vars

(* Not more entries than the queue's limit, and one, ever wait to be       *)
(* applied, whoever appends: the data thread, or a leader's requests.      *)
LogBounded ==
  \A s \in Server : LastLogId(s) - mLastLogIdApplied[s] <= RAFT_LOG_QUEUE_SIZE + 1

(* While leaderMain runs for a leader, what it believes of its peers stays *)
(* within its own log: no agreed entry it does not hold, no next entry     *)
(* beyond the one it will append next.                                     *)
AgreedWithinLog ==
  \A s \in Server : mainPc[s] \in {"leaderBeat", "leaderWait"} /\ mRole[s] # "eFollower" =>
    \A p \in Peers(s) :
       /\ mLastAgreed[s][p] <= LastLogId(s)
       /\ mNextToReplicate[s][p] \in 1..LastLogId(s) + 1

(* Once leaderMain runs its loop, a leader stays in the term it leads:     *)
(* whoever moves it to another term, the message thread in stepDown or a   *)
(* late round of candidateMain, takes the role from it in the same step.   *)
LeaderKeepsItsTerm ==
  [][\A s \in Server :
       mainPc[s] \in {"leaderBeat", "leaderWait"} /\ mRole[s] = "eLeader" /\ mRole'[s] = "eLeader" =>
         mCurTermId'[s] = mCurTermId[s]]_vars

---------------------------------------------------------------------------
(* What comments and tests of the source say of the group, and the code    *)
(* does not keep.                                                          *)

(* "initialize a new term round" (candidateMain): a candidate never starts *)
(* a round in a term it has been in before.                                *)
RoundsHaveNewTerms ==
  [][\A s \in Server : mainPc[s] = "candidateRound" /\ mainPc'[s] = "candidateVote" =>
       mCurTermId'[s] > mCurTermId[s]]_vars

(* "For each voting round, a server can only vote once, either itself or   *)
(* another server" (RaftServer.h): a vote is not replaced by another one   *)
(* of the same term.                                                       *)
OneVotePerRound ==
  [][\A s \in Server :
       mVotedFor[s] # Nil /\ mVotedForTermId'[s] = mVotedForTermId[s] =>
         mVotedFor'[s] \in {mVotedFor[s], Nil}]_vars

(* "get most votes, change to leader" (candidateHandleVoteRsp): a leader   *)
(* of a group in its loop has counted the votes of more than half.         *)
LeadsWithMostVotes ==
  \A s \in Server :
    mRole[s] = "eLeader" /\ mainPc[s] \in {"leaderBeat", "leaderWait"} /\ Peers(s) # {} =>
      mNumVotedForMe[s] > Half

(* "the different leader must be elected in different terms therefore have *)
(* different termid" (leaderHandleAppendEntryReq).                         *)
LeadersHaveDifferentTerms ==
  \A s, p \in Server :
    mRole[s] = "eLeader" /\ mRole[p] = "eLeader" /\ mCurTermId[s] = mCurTermId[p] => s = p

(* "> 1/2 and in current term, can be committed" (leaderHandleAppendEntry- *)
(* Rsp): what a leader commits in its term is held by more than half.      *)
CommittedByMajority ==
  \A s \in Server : \A i \in 1..mCommitIndex[s] :
    mRole[s] = "eLeader" /\ mLogQueue[s][i].term = mCurTermId[s] =>
      Cardinality({p \in Server : i <= LastLogId(p) /\ mLogQueue[p][i] = mLogQueue[s][i]}) > Half

(* "compare content in buff1 and buff2 byte by byte" (checkLogFile of      *)
(* RaftTester): what two servers have applied is the same.                 *)
StateMachinesAgree ==
  \A s, p \in Server : \A i \in 1..Min({mLastLogIdApplied[s], mLastLogIdApplied[p]}) :
    mLogQueue[s][i] = mLogQueue[p][i]

(* "the rsp message will tell the leader to send the previous logs"        *)
(* (followerHandleAppendEntryReq): a leader that is told of a follower     *)
(* whose log is shorter than its own sends it the entries it misses.       *)
AskedForLogsAreSent ==
  [][\A m \in net :
       /\ LeaderHandleAppendEntryRsp(m.to, m)
       /\ m.term = mCurTermId[m.to] /\ ~m.result
       /\ m.lastLogId < LastLogId(m.to)
       => \E r \in net' : /\ r.type = "AppendEntryReq"
                         /\ r.from = m.to /\ r.to = m.from
                         /\ r.firstLogId = m.lastLogId + 1]_vars
===========================================================================
