---------------------------- MODULE RaftServer ----------------------------
(***************************************************************************)
(* The state of a JimoRaft cluster and what the three roles share          *)
(* (JimoRaft/RaftServer, RaftMsg*, RaftPeer, RaftLogMgr's counters).       *)
(*                                                                         *)
(* Every server runs three threads over this state with almost no locks:   *)
(*   - the main thread (mainThreadFunc) runs the loop of the current role; *)
(*   - the message thread (msgThreadFunc) handles one message at a time;   *)
(*   - the data thread (dataThreadFunc) appends and replicates new data.   *)
(* A handler of the message thread is one step; the main and the data      *)
(* thread have program counters at the points where the other threads can  *)
(* change what they have just tested.                                      *)
(***************************************************************************)
EXTENDS Integers, Sequences, FiniteSets, FiniteSetsExt

CONSTANTS
  Server,               \* the servers of the group: mServerId and mPeerMap
  Value,                \* what clients ask to store
  Nil,                  \* mVotedFor and mLeaderId are -1
  RAFT_MAX_LOG_IN_MSG,  \* entries in one append request (1000)
  RAFT_LOG_QUEUE_SIZE,  \* entries not yet applied before appends are refused (1000)
  Uninit,               \* what mNextToReplicate may hold before leaderInit sets it
  Starters,             \* bound: the servers whose election timer ever fires
  MaxTerm,              \* bound on the number of election rounds
  MaxNet                \* bound on the messages in flight

ASSUME ServerAssumption == IsFiniteSet(Server) /\ Nil \notin Server /\ Starters \subseteq Server
ASSUME LimitAssumption ==
  /\ RAFT_MAX_LOG_IN_MSG \in Nat \ {0}
  /\ RAFT_LOG_QUEUE_SIZE \in Nat
  /\ Uninit \subseteq Nat
  /\ MaxTerm \in Nat /\ MaxNet \in Nat

VARIABLES
  mRole, mVotedFor, mVotedForTermId, mLeaderId, mNumVotedForMe,
  mHeartBeatRecved,     \* whether mHeartBeatRecved > 0: all followerMain asks
  mCurTermId, mLogQueue, mServerRecved, mCommitIndex, mLastLogIdApplied,
  mLastAgreed, mNextToReplicate,
  mainPc,
  termRead,             \* the term incCurTermId has read, 0 when it is not running
  granting,             \* the request whose vote the message thread is about to give
  dataPc, dataLog,
  clientData,           \* values whose clients have not been served yet
  net                   \* messages sent and not yet popped by a message thread

voteVars == <<mVotedFor, mVotedForTermId, mNumVotedForMe, granting>>
logVars  == <<mLogQueue, mServerRecved, mCommitIndex, mLastLogIdApplied>>
peerVars == <<mLastAgreed, mNextToReplicate>>
dataVars == <<dataPc, dataLog, clientData>>
mainVars == <<mainPc, termRead>>
vars == <<mRole, mLeaderId, mHeartBeatRecved, mCurTermId, net,
          mainVars, voteVars, logVars, peerVars, dataVars>>

Role == {"eFollower", "eCandidate", "eLeader"}

(* Where the main thread is: at the switch of mainThreadFunc, about to     *)
(* enter a role, in a timedWait, between a test of its loop and what the   *)
(* test decides, between the new term of a round and its vote, or dead     *)
(* with its process.                                                       *)
MainPc == {"switch", "followerWait", "followerTimedOut",
           "candidateInit", "candidateRound", "candidateVote", "candidateWait",
           "leaderInit", "leaderBeat", "leaderWait", "down"}

(* Where the data thread is: between two entries, holding a value it has   *)
(* popped, an entry it has appended, one it has counted, or gone.          *)
DataPc == {"idle", "popped", "appended", "counted", "ended"}

Entry == [term : Nat, val : Value]

---------------------------------------------------------------------------
(* Messages. The constructor of RaftMsg copies the sender's state, here    *)
(* the fields some handler reads; a heartbeat is an append request without *)
(* entries whose firstLogId is 0.                                          *)

VoteReq    == [type : {"VoteReq"}, from : Server, to : Server, term : Nat,
               lastLogId : Nat, lastLogTerm : Nat]
VoteRsp    == [type : {"VoteRsp"}, from : Server, to : Server, term : Nat,
               result : BOOLEAN, votedFor : Server \cup {Nil}, votedForTermId : Nat]
Heartbeat  == [type : {"AppendEntryReq"}, from : Server, to : Server, term : Nat,
               firstLogId : {0}, prevLogTermId : Nat, logs : {<<>>}, commit : Nat]
AppendReq  == [type : {"AppendEntryReq"}, from : Server, to : Server, term : Nat,
               firstLogId : Nat \ {0}, prevLogTermId : Nat, logs : Seq(Entry), commit : Nat]
AppendRsp  == [type : {"AppendEntryRsp"}, from : Server, to : Server, term : Nat,
               result : BOOLEAN, lastLogId : Nat]
Message    == VoteReq \cup VoteRsp \cup Heartbeat \cup AppendReq \cup AppendRsp

Peers(s) == Server \ {s}

(* getTotalServers() / 2, which votes and acknowledgements must exceed.    *)
Half == Cardinality(Server) \div 2

(* Counting votes and acknowledgements. Bound: a count is only compared    *)
(* with Half, so it stays where it first exceeds it.                       *)
Inc(count) == IF count > Half THEN count ELSE count + 1

LastLogId(s) == Len(mLogQueue[s])

(* Mutant: one more.                                                       *)
RoomAndOne(s) == mLastLogIdApplied[s] + RAFT_LOG_QUEUE_SIZE + 2

(* appendLog refuses an entry when more than RAFT_LOG_QUEUE_SIZE of them   *)
(* wait to be applied: a log of Room entries takes no more.                *)
Room(s) == mLastLogIdApplied[s] + RAFT_LOG_QUEUE_SIZE + 1

(* getLastLogTerm *)
LastLogTerm(s) == IF LastLogId(s) < 1 THEN 0 ELSE mLogQueue[s][LastLogId(s)].term

(* The term of the entry before logId, 0 where the code reads none.        *)
PrevLogTerm(s, logId) == IF logId > 1 THEN mLogQueue[s][logId - 1].term ELSE 0

(* sendMsg: makeCall always answers true, so a message that is not kept    *)
(* (full sockets, mMsgQueue.clear()) is lost without a retry. MaxNet       *)
(* bounds what is in flight.                                               *)
Send(lost, sent) ==
  /\ net' = (net \ lost) \cup sent
  /\ Cardinality(net') <= MaxNet

---------------------------------------------------------------------------
(* Role management. handleMsg steps down before it looks at the role, so a *)
(* handler of message m starts from these values.                          *)

Newer(s, m) == m.term > mCurTermId[s]

TermFor(s, m) == IF Newer(s, m) THEN m.term ELSE mCurTermId[s]

RoleFor(s, m) == IF Newer(s, m) THEN "eFollower" ELSE mRole[s]

VotedForFor(s, m) == IF Newer(s, m) THEN Nil ELSE mVotedFor[s]

(* Mutant: the term of the vote is cleared as the vote is, to -1.          *)
ForgetVoteTerm(s, m) == IF Newer(s, m) THEN -1 ELSE mVotedForTermId[s]

VotedForTermIdFor(s, m) == IF Newer(s, m) THEN 0 ELSE mVotedForTermId[s]

LeaderIdFor(s, m) == IF Newer(s, m) THEN Nil ELSE mLeaderId[s]

(* Mutant: changeRole is forgotten.                                        *)
StepDownTermOnly(s, m) ==
  mCurTermId' = [mCurTermId EXCEPT ![s] = TermFor(s, m)] /\ UNCHANGED mRole

(* stepDown, whose last effect is changeRole(eFollower): term and role.    *)
StepDownTermAndRole(s, m) ==
  /\ mCurTermId' = [mCurTermId EXCEPT ![s] = TermFor(s, m)]
  /\ mRole' = [mRole EXCEPT ![s] = RoleFor(s, m)]

StepDownVote(s, m) ==
  /\ mVotedFor' = [mVotedFor EXCEPT ![s] = VotedForFor(s, m)]
  /\ mVotedForTermId' = [mVotedForTermId EXCEPT ![s] = VotedForTermIdFor(s, m)]

(* The switch of mainThreadFunc: the role may change before the role's     *)
(* init is run. (A follower's only by the main thread itself: FollowerInit *)
(* is one step with the switch.)                                           *)
MainSwitch(s) ==
  /\ mainPc[s] = "switch"
  /\ mRole[s] \in {"eCandidate", "eLeader"}
  /\ mainPc' = [mainPc EXCEPT ![s] = IF mRole[s] = "eLeader" THEN "leaderInit" ELSE "candidateInit"]
  /\ UNCHANGED <<mRole, mLeaderId, mHeartBeatRecved, mCurTermId, termRead, voteVars, logVars,
                 peerVars, dataVars, net>>

(* init(), run by the main thread when it enters a role: the vote is       *)
(* forgotten (the queues it clears are part of Lose below).                *)
InitVote(s) ==
  /\ mVotedFor' = [mVotedFor EXCEPT ![s] = Nil]
  /\ mVotedForTermId' = [mVotedForTermId EXCEPT ![s] = 0]

---------------------------------------------------------------------------
(* Common message handlers                                                 *)

VoteRspTo(s, m, granted) ==
  [type |-> "VoteRsp", from |-> s, to |-> m.from, term |-> mCurTermId'[s],
   result |-> granted, votedFor |-> mVotedFor'[s], votedForTermId |-> mVotedForTermId'[s]]

AppendRspTo(s, m, ok) ==
  [type |-> "AppendEntryRsp", from |-> s, to |-> m.from, term |-> mCurTermId'[s],
   result |-> ok, lastLogId |-> Len(mLogQueue'[s])]

(* cmpLogUpToDateWithMe(msg) <= 0: the sender's log is not behind mine.    *)
LogUpToDateWithMe(s, m) ==
  \/ m.lastLogTerm > LastLogTerm(s)
  \/ m.lastLogTerm = LastLogTerm(s) /\ m.lastLogId >= LastLogId(s)

(* handleVoteReq, of followers and candidates: a request of an old term is *)
(* denied, one that finds a vote already given or a better log is not      *)
(* answered, the rest are granted: but between the tests and the vote the  *)
(* main thread may vote, or forget a vote, itself.                         *)
HandleVoteReq(s, m) ==
  /\ m.type = "VoteReq"
  /\ RoleFor(s, m) \in {"eFollower", "eCandidate"}
  /\ StepDownTermAndRole(s, m)
  /\ mLeaderId' = [mLeaderId EXCEPT ![s] = LeaderIdFor(s, m)]
  /\ StepDownVote(s, m)
  /\ UNCHANGED <<mNumVotedForMe, mHeartBeatRecved, mainVars, logVars, peerVars, dataVars>>
  /\ \/ /\ mCurTermId[s] > m.term
        /\ Send({m}, {VoteRspTo(s, m, FALSE)})
        /\ UNCHANGED granting
     \/ /\ mCurTermId[s] <= m.term
        /\ VotedForFor(s, m) # Nil \/ ~LogUpToDateWithMe(s, m)
        /\ Send({m}, {})
        /\ UNCHANGED granting
     \/ /\ mCurTermId[s] <= m.term
        /\ VotedForFor(s, m) = Nil
        /\ LogUpToDateWithMe(s, m)
        /\ granting' = [granting EXCEPT ![s] = m]
        /\ Send({m}, {})

(* "grant vote": whatever has happened since the tests.                    *)
GrantVote(s) ==
  /\ granting[s] # Nil
  /\ mVotedFor' = [mVotedFor EXCEPT ![s] = granting[s].from]
  /\ mVotedForTermId' = [mVotedForTermId EXCEPT ![s] = granting[s].term]
  /\ granting' = [granting EXCEPT ![s] = Nil]
  /\ UNCHANGED <<mRole, mLeaderId, mHeartBeatRecved, mCurTermId, mNumVotedForMe, mainVars,
                 logVars, peerVars, dataVars>>
  /\ Send({}, {VoteRspTo(s, granting[s], TRUE)})

(* The kinds of message each role's switch handles; default: "don't care". *)
Handled(role) ==
  CASE role = "eFollower"  -> {"AppendEntryReq", "VoteReq"}
    [] role = "eCandidate" -> {"AppendEntryReq", "VoteReq", "VoteRsp"}
    [] role = "eLeader"    -> {"AppendEntryReq", "VoteReq", "AppendEntryRsp"}

IgnoreMsg(s, m) ==
  /\ m.type \notin Handled(RoleFor(s, m))
  /\ StepDownTermAndRole(s, m)
  /\ StepDownVote(s, m)
  /\ mLeaderId' = [mLeaderId EXCEPT ![s] = LeaderIdFor(s, m)]
  /\ Send({m}, {})
  /\ UNCHANGED <<mNumVotedForMe, granting, mHeartBeatRecved, mainVars, logVars, peerVars, dataVars>>

(* Mutant: everything in the log is applied.                               *)
ApplyAllLogs(s) ==
  mLastLogIdApplied' = [mLastLogIdApplied EXCEPT ![s] = Max({@, Len(mLogQueue'[s])})]

(* applyCommittedLogs: everything committed is applied; the state machine  *)
(* does not fail.                                                          *)
ApplyCommittedLogs(s) ==
  mLastLogIdApplied' = [mLastLogIdApplied EXCEPT ![s] = Max({@, mCommitIndex'[s]})]

(* A message is lost between the sender and the message thread: a datagram *)
(* dropped by the transport, mMsgQueue.clear() in init(), clearMessages(). *)
Lose(m) ==
  /\ Send({m}, {})
  /\ UNCHANGED <<mRole, mLeaderId, mHeartBeatRecved, mCurTermId, mainVars,
                 voteVars, logVars, peerVars, dataVars>>

(* The group before any thread has run: the constructor, with a new log.   *)
(* Nobody sets mNextToReplicate before leaderInit; one value stands for    *)
(* whatever the peers of all servers hold.                                 *)
Init ==
  /\ mRole = [s \in Server |-> "eFollower"]
  /\ mVotedFor = [s \in Server |-> Nil]
  /\ mVotedForTermId = [s \in Server |-> 0]
  /\ mLeaderId = [s \in Server |-> Nil]
  /\ mNumVotedForMe = [s \in Server |-> 0]
  /\ mHeartBeatRecved = [s \in Server |-> FALSE]
  /\ mCurTermId = [s \in Server |-> 0]
  /\ mLogQueue = [s \in Server |-> <<>>]
  /\ mServerRecved = [s \in Server |-> <<>>]
  /\ mCommitIndex = [s \in Server |-> 0]
  /\ mLastLogIdApplied = [s \in Server |-> 0]
  /\ mLastAgreed = [s \in Server |-> [p \in Server |-> 0]]
  /\ \E next \in Uninit : mNextToReplicate = [s \in Server |-> [p \in Server |-> next]]
  /\ mainPc = [s \in Server |-> "switch"]
  /\ termRead = [s \in Server |-> 0]
  /\ granting = [s \in Server |-> Nil]
  /\ dataPc = [s \in Server |-> "idle"]
  /\ dataLog = [s \in Server |-> Nil]
  /\ clientData = Value
  /\ net = {}
===========================================================================
