---- MODULE JimoRaftRoleProofs ----
(* Proofs about what a leader may rely on while its loop runs: its term    *)
(* and what it believes of its peers. The second is inductive only when it *)
(* also speaks of the candidate a leader becomes when it hears of another  *)
(* leader: the message thread may make it a leader again in the wait of    *)
(* the same round, and only a follower cuts its log.                       *)
(*                                                                         *)
(* The last part proves of a group with one elector what two leaders break *)
(* in any group: the state machines agree, and, in a group of at most      *)
(* three, what is committed is held by more than half.                     *)
EXTENDS JimoRaftProofs

(* What a server's term is after a step, when its role is not taken.       *)
TermKept(s) ==
  mainPc[s] \in {"leaderBeat", "leaderWait"} /\ mRole[s] = "eLeader" /\ mRole'[s] = "eLeader" =>
    mCurTermId'[s] = mCurTermId[s]

LEMMA MainThreadTerm ==
  ASSUME TypeOK, NEW q \in Server, NEW s \in Server, MainThread(s)
  PROVE  TermKept(q)
<1>1. CASE CandidateRound(s)
  <2>1. PICK term \in Nat : mCurTermId' = [mCurTermId EXCEPT ![s] = term + 1]
    BY <1>1 DEF CandidateRound, TypeOK, RoleType
  <2>2. mainPc[s] = "candidateRound"
    BY <1>1 DEF CandidateRound
  <2> QED BY <2>1, <2>2 DEF TermKept, TypeOK, RoleType
<1>2. CASE ~CandidateRound(s)
  BY <1>2 DEF TermKept, MainThread, MainSwitch, FollowerInit, FollowerNextRound, FollowerTimeout, FollowerStartElection,
     CandidateInit, CandidateVote, CandidateWake, LeaderInit, LeaderBeat, LeaderWake
<1> QED BY <1>1, <1>2

(* The message thread moves a server to another term only in stepDown,     *)
(* which takes its role, and no handler gives it back in the same step.    *)
LEMMA MsgThreadTerm ==
  ASSUME TypeOK, NEW q \in Server, NEW s \in Server, NEW m \in Message, MsgThread(s, m)
  PROVE  TermKept(q)
<1>1. CASE HandleVoteReq(s, m) \/ IgnoreMsg(s, m) \/ FollowerHandleAppendEntryReq(s, m)
  <2>1. /\ mCurTermId' = [mCurTermId EXCEPT ![s] = TermFor(s, m)]
        /\ mRole' = [mRole EXCEPT ![s] = RoleFor(s, m)]
    BY <1>1 DEF HandleVoteReq, IgnoreMsg, FollowerHandleAppendEntryReq, StepDownTermAndRole
  <2> QED BY <2>1 DEF TermKept, TermFor, RoleFor, TypeOK, RoleType
<1>2. CASE \/ CandidateHandleAppendEntryReq(s, m) \/ CandidateHandleVoteRsp(s, m)
           \/ LeaderHandleAppendEntryReq(s, m) \/ LeaderHandleVoteReq(s, m)
           \/ LeaderHandleAppendEntryRsp(s, m)
  BY <1>2 DEF TermKept, CandidateHandleAppendEntryReq, CandidateHandleVoteRsp,
     LeaderHandleAppendEntryReq, LeaderHandleVoteReq, LeaderHandleAppendEntryRsp
<1> QED BY <1>1, <1>2 DEF MsgThread

LEMMA NextTerm == TypeOK /\ [Next]_vars => \A q \in Server : TermKept(q)
<1> SUFFICES ASSUME TypeOK, [Next]_vars, NEW q \in Server PROVE TermKept(q)
  OBVIOUS
<1>1. ASSUME NEW s \in Server, MainThread(s) PROVE TermKept(q)
  BY <1>1, MainThreadTerm
<1>2. ASSUME NEW s \in Server, DataThread(s) \/ GrantVote(s) PROVE TermKept(q)
  BY <1>2 DEF TermKept, DataThread, DataPop, DataAppend, DataCount, DataBroadcast, GrantVote
<1>3. ASSUME NEW m \in net, MsgThread(m.to, m) PROVE TermKept(q)
  <2>1. m \in Message /\ m.to \in Server
    BY DEF TypeOK, Message, VoteReq, VoteRsp, Heartbeat, AppendReq, AppendRsp
  <2> QED BY <1>3, <2>1, MsgThreadTerm
<1>4. ASSUME NEW m \in net, Lose(m) PROVE TermKept(q)
  BY <1>4 DEF TermKept, Lose
<1>5. CASE UNCHANGED vars
  BY <1>5 DEF TermKept, vars
<1> QED BY <1>1, <1>2, <1>3, <1>4, <1>5 DEF Next

(* In its loop a leader is never moved to another term and left a leader,  *)
(* for any number of servers.                                              *)
THEOREM LeaderKeepsTerm == Spec => LeaderKeepsItsTerm
<1>1. TypeOK /\ [Next]_vars =>
        [\A s \in Server :
           mainPc[s] \in {"leaderBeat", "leaderWait"} /\ mRole[s] = "eLeader" /\ mRole'[s] = "eLeader" =>
             mCurTermId'[s] = mCurTermId[s]]_vars
  BY NextTerm DEF TermKept
<1> QED BY <1>1, TypeCorrect, PTL DEF Spec, LeaderKeepsItsTerm

---------------------------------------------------------------------------
(* What a leader believes of its peers.                                    *)

LEMMA InitAgreed == Init => AgreedWithinLog
BY DEF Init, AgreedWithinLog

(* What a step does to the log of a server that is no follower after it:   *)
(* only followers cut their log.                                           *)
LEMMA LogsOfOthersGrow ==
  ASSUME TypeOK, IndexOrder, [Next]_vars, NEW s \in Server, mRole'[s] # "eFollower"
  PROVE  LastLogId(s) <= Len(mLogQueue'[s])
<1>0. LastLogId(s) \in Nat /\ LastLogId(s) = Len(mLogQueue[s])
  BY LastLogTermType DEF TypeOK, LastLogId
<1>1. CASE UNCHANGED mLogQueue
  BY <1>0, <1>1
<1>2. ASSUME NEW p \in Server, MainThread(p) PROVE UNCHANGED mLogQueue
  BY <1>2 DEF MainThread, MainSwitch, FollowerInit, FollowerNextRound, FollowerTimeout, FollowerStartElection,
     CandidateInit, CandidateRound, CandidateVote, CandidateWake, LeaderInit, LeaderBeat, LeaderWake, logVars
<1>3. ASSUME NEW p \in Server, DataThread(p) PROVE LastLogId(s) <= Len(mLogQueue'[s])
  <2>1. CASE DataAppend(p)
    <3>1. CASE UNCHANGED mLogQueue
      BY <1>0, <3>1
    <3>2. CASE mLogQueue' = [mLogQueue EXCEPT ![p] = Append(mLogQueue[p], [term |-> mCurTermId[p], val |-> dataLog[p].val])]
      <4>1. mLogQueue[p] \in Seq(Entry) /\ dataLog[p] \in DataLog /\ mCurTermId[p] \in Nat
        BY <2>1 DEF DataAppend, TypeOK, RoleType, LogType, DataType
      <4>2. [term |-> mCurTermId[p], val |-> dataLog[p].val] \in Entry
        BY <4>1 DEF Entry, DataLog
      <4> DEFINE new == Append(mLogQueue[p], [term |-> mCurTermId[p], val |-> dataLog[p].val])
      <4>3. Len(new) = Len(mLogQueue[p]) + 1
        BY <4>1, <4>2, AppendProperties
      <4>4. mLogQueue' = [mLogQueue EXCEPT ![p] = new]
        BY <3>2
      <4> HIDE DEF new
      <4> QED BY <1>0, <4>3, <4>4 DEF TypeOK, LogType
    <3> QED BY <2>1, <3>1, <3>2 DEF DataAppend, TypeOK, LogType
  <2>2. CASE DataPop(p) \/ DataCount(p) \/ DataBroadcast(p)
    BY <1>1, <2>2 DEF DataPop, DataCount, DataBroadcast, logVars
  <2> QED BY <1>3, <2>1, <2>2 DEF DataThread
<1>4. ASSUME NEW m \in net, MsgThread(m.to, m) PROVE LastLogId(s) <= Len(mLogQueue'[s])
  <2>1. m.to \in Server
    BY DEF TypeOK, Message, VoteReq, VoteRsp, Heartbeat, AppendReq, AppendRsp
  <2>2. CASE FollowerHandleAppendEntryReq(m.to, m)
    <3>1. s # m.to
      BY <2>1, <2>2 DEF FollowerHandleAppendEntryReq, StepDownTermAndRole, TypeOK, RoleType
    <3>2. mLogQueue'[s] = mLogQueue[s]
      BY <2>1, <2>2, <3>1 DEF FollowerHandleAppendEntryReq, SetLog, TypeOK, LogType, logVars
    <3> QED BY <1>0, <3>2
  <2>3. CASE ~FollowerHandleAppendEntryReq(m.to, m)
    BY <1>1, <1>4, <2>3 DEF MsgThread, HandleVoteReq, IgnoreMsg, CandidateHandleAppendEntryReq,
       CandidateHandleVoteRsp, LeaderHandleAppendEntryReq, LeaderHandleVoteReq, LeaderHandleAppendEntryRsp, logVars
  <2> QED BY <2>2, <2>3
<1>5. ASSUME NEW m \in net, Lose(m) PROVE UNCHANGED mLogQueue
  BY <1>5 DEF Lose, logVars
<1>6. CASE UNCHANGED vars
  BY <1>1, <1>6 DEF vars, logVars
<1>7. ASSUME NEW p \in Server, GrantVote(p) PROVE UNCHANGED mLogQueue
  BY <1>7 DEF GrantVote, logVars
<1> QED BY <1>1, <1>2, <1>3, <1>4, <1>5, <1>6, <1>7 DEF Next

(* The peers as server s sees them, when its loop runs for a leader.       *)
Agreed(s) ==
  mainPc[s] \in {"leaderBeat", "leaderWait"} /\ mRole[s] # "eFollower" =>
    \A p \in Peers(s) :
       /\ mLastAgreed[s][p] <= LastLogId(s)
       /\ mNextToReplicate[s][p] \in 1..LastLogId(s) + 1

(* Steps that leave the peers of s alone and do not enter its leader loop. *)
LEMMA AgreedKept ==
  ASSUME TypeOK, TypeOK', NEW s \in Server, Agreed(s),
         mainPc'[s] \in {"leaderBeat", "leaderWait"} => mainPc[s] \in {"leaderBeat", "leaderWait"},
         mRole'[s] # "eFollower" => mRole[s] # "eFollower" /\ LastLogId(s) <= Len(mLogQueue'[s]),
         mLastAgreed'[s] = mLastAgreed[s], mNextToReplicate'[s] = mNextToReplicate[s]
  PROVE  Agreed(s)'
<1>1. LastLogId(s) \in Nat /\ Len(mLogQueue'[s]) \in Nat
  BY LastLogTermType DEF TypeOK, LogType
<1>2. \A p \in Peers(s) : mLastAgreed[s][p] \in Nat /\ mNextToReplicate[s][p] \in Nat
  BY DEF TypeOK, PeerType, Peers
<1> QED BY <1>1, <1>2 DEF Agreed, LastLogId

LEMMA MainThreadAgreed ==
  ASSUME TypeOK, TypeOK', NEW q \in Server, Agreed(q), NEW s \in Server, MainThread(s)
  PROVE  Agreed(q)'
<1>0. LastLogId(q) \in Nat /\ LastLogId(q) = Len(mLogQueue[q])
  BY LastLogTermType DEF TypeOK, LastLogId
<1>1. CASE LeaderInit(s)
  <2>1. CASE q = s
    <3>1. /\ mLastAgreed'[q] = [p \in Server |-> 0]
          /\ mNextToReplicate'[q] = [p \in Server |-> LastLogId(q) + 1]
          /\ UNCHANGED mLogQueue
      BY <1>1, <2>1 DEF LeaderInit, TypeOK, PeerType, logVars
    <3> QED BY <1>0, <3>1 DEF Agreed, LastLogId, Peers
  <2>2. CASE q # s
    <3>1. /\ mainPc'[q] = mainPc[q] /\ mRole'[q] = mRole[q] /\ mLogQueue'[q] = mLogQueue[q]
          /\ mLastAgreed'[q] = mLastAgreed[q] /\ mNextToReplicate'[q] = mNextToReplicate[q]
      BY <1>1, <2>2 DEF LeaderInit, TypeOK, RoleType, PeerType, logVars
    <3> QED BY <1>0, <3>1 DEF Agreed, LastLogId
  <2> QED BY <2>1, <2>2
<1>2. CASE ~LeaderInit(s)
  <2>1. UNCHANGED <<mLogQueue, mLastAgreed, mNextToReplicate>>
    BY <1>2 DEF MainThread, MainSwitch, FollowerInit, FollowerNextRound, FollowerTimeout, FollowerStartElection,
       CandidateInit, CandidateRound, CandidateVote, CandidateWake, LeaderBeat, LeaderWake, logVars, peerVars
  <2>2. mainPc'[q] \in {"leaderBeat", "leaderWait"} =>
          mainPc[q] \in {"leaderBeat", "leaderWait"} /\ mRole'[q] = mRole[q]
    BY <1>2 DEF MainThread, MainSwitch, FollowerInit, FollowerNextRound, FollowerTimeout, FollowerStartElection,
       CandidateInit, CandidateRound, CandidateVote, CandidateWake, LeaderBeat, LeaderWake,
       TypeOK, RoleType, mainVars
  <2> QED BY <1>0, <2>1, <2>2 DEF Agreed, LastLogId, Peers
<1> QED BY <1>1, <1>2

LEMMA DataThreadAgreed ==
  ASSUME TypeOK, TypeOK', NEW q \in Server, Agreed(q), NEW s \in Server, DataThread(s),
         mRole'[q] # "eFollower" => LastLogId(q) <= Len(mLogQueue'[q])
  PROVE  Agreed(q)'
<1>1. UNCHANGED <<mRole, mLastAgreed, mNextToReplicate>> /\ (mainPc' = mainPc \/ mainPc' = [mainPc EXCEPT ![s] = "down"])
  BY DEF DataThread, DataPop, DataAppend, DataCount, DataBroadcast, peerVars, mainVars
<1> QED BY <1>1, AgreedKept DEF TypeOK, RoleType

LEMMA MsgThreadAgreed ==
  ASSUME TypeOK, TypeOK', NEW q \in Server, Agreed(q), NEW s \in Server, NEW m \in Message, MsgThread(s, m),
         mRole'[q] # "eFollower" => LastLogId(q) <= Len(mLogQueue'[q])
  PROVE  Agreed(q)'
<1>0. LastLogId(q) \in Nat /\ LastLogId(q) = Len(mLogQueue[q])
  BY LastLogTermType DEF TypeOK, LastLogId
<1>1. mainPc' = mainPc
  BY DEF MsgThread, HandleVoteReq, IgnoreMsg, FollowerHandleAppendEntryReq, CandidateHandleAppendEntryReq,
     CandidateHandleVoteRsp, LeaderHandleAppendEntryReq, LeaderHandleVoteReq, LeaderHandleAppendEntryRsp, mainVars
<1>2. mRole'[q] # "eFollower" => mRole[q] # "eFollower"
  <2>1. CASE HandleVoteReq(s, m) \/ IgnoreMsg(s, m) \/ FollowerHandleAppendEntryReq(s, m)
    BY <2>1 DEF HandleVoteReq, IgnoreMsg, FollowerHandleAppendEntryReq, StepDownTermAndRole, RoleFor, TypeOK, RoleType
  <2>2. CASE CandidateHandleAppendEntryReq(s, m) \/ CandidateHandleVoteRsp(s, m)
    BY <2>2 DEF CandidateHandleAppendEntryReq, CandidateHandleVoteRsp, RoleFor, TypeOK, RoleType
  <2>3. CASE LeaderHandleAppendEntryReq(s, m) \/ LeaderHandleVoteReq(s, m) \/ LeaderHandleAppendEntryRsp(s, m)
    BY <2>3 DEF LeaderHandleAppendEntryReq, LeaderHandleVoteReq, LeaderHandleAppendEntryRsp, RoleFor, TypeOK, RoleType
  <2> QED BY <2>1, <2>2, <2>3 DEF MsgThread
<1>3. CASE UNCHANGED peerVars
  BY <1>1, <1>2, <1>3, AgreedKept DEF peerVars
<1>4. CASE LeaderHandleAppendEntryRsp(s, m) /\ ~UNCHANGED peerVars
  <2>1. /\ m.lastLogId <= LastLogId(s)
        /\ mLastAgreed' = [mLastAgreed EXCEPT ![s][m.from] = m.lastLogId]
        /\ mNextToReplicate' = [mNextToReplicate EXCEPT ![s][m.from] = m.lastLogId + 1]
        /\ m.type = "AppendEntryRsp" /\ UNCHANGED mLogQueue
    BY <1>4 DEF LeaderHandleAppendEntryRsp, peerVars
  <2>2. m.lastLogId \in Nat /\ m.from \in Server
    BY <2>1 DEF Message, VoteReq, VoteRsp, Heartbeat, AppendReq, AppendRsp
  <2>3. CASE q = s
    <3>1. \A p \in Server : \/ mLastAgreed'[q][p] = mLastAgreed[q][p] /\ mNextToReplicate'[q][p] = mNextToReplicate[q][p]
                            \/ mLastAgreed'[q][p] = m.lastLogId /\ mNextToReplicate'[q][p] = m.lastLogId + 1
      BY <2>1, <2>2, <2>3 DEF TypeOK, PeerType
    <3> QED BY <1>0, <1>1, <1>2, <2>1, <2>2, <2>3, <3>1 DEF Agreed, LastLogId, Peers
  <2>4. CASE q # s
    <3>1. mLastAgreed'[q] = mLastAgreed[q] /\ mNextToReplicate'[q] = mNextToReplicate[q]
      BY <2>1, <2>4 DEF TypeOK, PeerType
    <3> QED BY <1>1, <1>2, <3>1, AgreedKept
  <2> QED BY <2>3, <2>4
<1> QED BY <1>3, <1>4 DEF MsgThread, HandleVoteReq, IgnoreMsg, FollowerHandleAppendEntryReq,
       CandidateHandleAppendEntryReq, CandidateHandleVoteRsp, LeaderHandleAppendEntryReq, LeaderHandleVoteReq

LEMMA NextAgreed == TypeOK /\ IndexOrder /\ AgreedWithinLog /\ [Next]_vars => AgreedWithinLog'
<1> SUFFICES ASSUME TypeOK, IndexOrder, AgreedWithinLog, [Next]_vars, NEW q \in Server
             PROVE  Agreed(q)'
  BY DEF AgreedWithinLog, Agreed
<1>0. Agreed(q) /\ TypeOK' /\ (mRole'[q] # "eFollower" => LastLogId(q) <= Len(mLogQueue'[q]))
  BY NextTypeOK, LogsOfOthersGrow DEF AgreedWithinLog, Agreed
<1>1. ASSUME NEW s \in Server, MainThread(s) PROVE Agreed(q)'
  BY <1>0, <1>1, MainThreadAgreed
<1>2. ASSUME NEW s \in Server, DataThread(s) PROVE Agreed(q)'
  BY <1>0, <1>2, DataThreadAgreed
<1>3. ASSUME NEW m \in net, MsgThread(m.to, m) PROVE Agreed(q)'
  <2>1. m \in Message /\ m.to \in Server
    BY DEF TypeOK, Message, VoteReq, VoteRsp, Heartbeat, AppendReq, AppendRsp
  <2> QED BY <1>0, <1>3, <2>1, MsgThreadAgreed
<1>4. ASSUME NEW m \in net, Lose(m) PROVE Agreed(q)'
  BY <1>0, <1>4, AgreedKept DEF Lose, mainVars, logVars, peerVars
<1>5. CASE UNCHANGED vars
  BY <1>0, <1>5, AgreedKept DEF vars, mainVars, logVars, peerVars
<1>6. ASSUME NEW s \in Server, GrantVote(s) PROVE Agreed(q)'
  BY <1>0, <1>6, AgreedKept DEF GrantVote, mainVars, logVars, peerVars
<1> QED BY <1>1, <1>2, <1>3, <1>4, <1>5, <1>6 DEF Next

(* While its loop runs for a leader, a server believes nothing of a peer   *)
(* that goes beyond its own log, whatever answers arrive, late or early.   *)
THEOREM AgreedStaysWithinLog == Spec => []AgreedWithinLog
BY LogInvariant, InitAgreed, NextAgreed, PTL DEF Spec

---------------------------------------------------------------------------
(* A group with one elector: only l's election timer ever fires, whatever  *)
(* its size and however many elections there are.  The others stay         *)
(* followers, every log is a prefix of l's, and so is what a request       *)
(* carries, from its first entry on; nothing is ever removed from a log.   *)

(* The log is that of l, as far as it goes.                                *)
PrefixOf(l, log) ==
  Len(log) <= LastLogId(l) /\ \A i \in 1..Len(log) : log[i] = mLogQueue[l][i]

OnePrefix(l) == \A s \in Server : PrefixOf(l, mLogQueue[s])

OthersFollow(l) ==
  \A s \in Server \ {l} :
    mRole[s] = "eFollower" /\ mainPc[s] \in {"switch", "followerWait"} /\ dataPc[s] = "idle"

(* What the data thread has appended is still where it was.                *)
EntryInLog(l) ==
  dataPc[l] \in {"appended", "counted"} =>
    /\ dataLog[l].logId \in 1..LastLogId(l)
    /\ mLogQueue[l][dataLog[l].logId] = [term |-> dataLog[l].term, val |-> dataLog[l].val]

RequestOf(l, m) ==
  /\ m.from = l /\ m.to # l
  /\ \A i \in 1..Len(m.logs) :
       /\ m.firstLogId + i - 1 \in 1..LastLogId(l)
       /\ m.logs[i] = mLogQueue[l][m.firstLogId + i - 1]
  /\ m.firstLogId > 1 =>
       /\ m.firstLogId - 1 <= LastLogId(l)
       /\ m.prevLogTermId = mLogQueue[l][m.firstLogId - 1].term

(* A request is one of l's; who answers has what it says and is not l.     *)
MsgOf(l, m) ==
  /\ m.type = "AppendEntryReq" => RequestOf(l, m)
  /\ m.type = "AppendEntryRsp" => m.from # l /\ m.lastLogId <= LastLogId(m.from)

MsgsOf(l) == \A m \in net : MsgOf(l, m)

(* What l has committed is held by one of the others.                      *)
PeerHolds(l) ==
  mCommitIndex[l] > 0 => \E p \in Peers(l) : mCommitIndex[l] <= LastLogId(p)

OneElector(l) ==
  OthersFollow(l) /\ OnePrefix(l) /\ EntryInLog(l) /\ MsgsOf(l) /\ PeerHolds(l)

(* What a step does to the logs.                                           *)
LogGrows(s) ==
  /\ LastLogId(s) <= Len(mLogQueue'[s])
  /\ \A i \in 1..LastLogId(s) : mLogQueue'[s][i] = mLogQueue[s][i]

LogsGrow == \A s \in Server : LogGrows(s)

LEMMA InitOneElector ==
  ASSUME NEW l \in Server, Init
  PROVE  OneElector(l)
BY DEF Init, OneElector, OthersFollow, OnePrefix, PrefixOf, EntryInLog, MsgsOf, PeerHolds, LastLogId

(* Only l's threads lead, stand for election or append what clients send.  *)
LEMMA OnlyOneActs ==
  ASSUME NEW l \in Server, OthersFollow(l), NEW s \in Server, s # l, NEW m \in Message
  PROVE  /\ ~DataThread(s) /\ ~LeaderBeat(s)
         /\ ~CandidateHandleAppendEntryReq(s, m) /\ ~LeaderHandleAppendEntryReq(s, m)
         /\ ~CandidateHandleVoteRsp(s, m) /\ ~LeaderHandleVoteReq(s, m)
         /\ ~LeaderHandleAppendEntryRsp(s, m)
BY DEF OthersFollow, DataThread, DataPop, DataAppend, DataCount, DataBroadcast, LeaderBeat,
   CandidateHandleAppendEntryReq, LeaderHandleAppendEntryReq, CandidateHandleVoteRsp,
   LeaderHandleVoteReq, LeaderHandleAppendEntryRsp, RoleFor

LEMMA OthersStayFollowers ==
  ASSUME TypeOK, NEW l \in Server, Starters \subseteq {l}, OneElector(l), [Next]_vars
  PROVE  OthersFollow(l)'
<1> SUFFICES ASSUME NEW p \in Server \ {l}
             PROVE  mRole'[p] = "eFollower" /\ mainPc'[p] \in {"switch", "followerWait"} /\ dataPc'[p] = "idle"
  BY DEF OthersFollow
<1>0. /\ mRole[p] = "eFollower" /\ mainPc[p] \in {"switch", "followerWait"} /\ dataPc[p] = "idle"
      /\ OthersFollow(l)
      /\ mRole \in [Server -> Role] /\ mainPc \in [Server -> MainPc] /\ dataPc \in [Server -> DataPc]
  BY DEF OneElector, OthersFollow, TypeOK, RoleType, DataType
<1>1. ASSUME NEW s \in Server, MainThread(s)
      PROVE  mRole'[p] = "eFollower" /\ mainPc'[p] \in {"switch", "followerWait"} /\ dataPc'[p] = "idle"
  <2>1. CASE s = p
    <3>1. FollowerInit(p) \/ FollowerNextRound(p)
      BY <1>0, <1>1, <2>1 DEF MainThread, MainSwitch, FollowerTimeout, FollowerStartElection,
         CandidateInit, CandidateRound, CandidateVote, CandidateWake, LeaderInit, LeaderBeat, LeaderWake
    <3> QED BY <1>0, <3>1 DEF FollowerInit, FollowerNextRound, mainVars, dataVars
  <2>2. CASE s # p
    BY <1>0, <1>1, <2>2 DEF MainThread, MainSwitch, FollowerInit, FollowerNextRound, FollowerTimeout,
       FollowerStartElection, CandidateInit, CandidateRound, CandidateVote, CandidateWake,
       LeaderInit, LeaderBeat, LeaderWake, mainVars, dataVars
  <2> QED BY <2>1, <2>2
<1>2. ASSUME NEW s \in Server, DataThread(s)
      PROVE  mRole'[p] = "eFollower" /\ mainPc'[p] \in {"switch", "followerWait"} /\ dataPc'[p] = "idle"
  <2>1. s # p
    BY <1>0, <1>2 DEF DataThread, DataPop, DataAppend, DataCount, DataBroadcast
  <2> QED BY <1>0, <1>2, <2>1 DEF DataThread, DataPop, DataAppend, DataCount, DataBroadcast, mainVars
<1>3. ASSUME NEW m \in net, MsgThread(m.to, m)
      PROVE  mRole'[p] = "eFollower" /\ mainPc'[p] \in {"switch", "followerWait"} /\ dataPc'[p] = "idle"
  <2>0. m \in Message /\ m.to \in Server
    BY DEF TypeOK, Message, VoteReq, VoteRsp, Heartbeat, AppendReq, AppendRsp
  <2>1. UNCHANGED <<mainPc, dataPc>>
    BY <1>3 DEF MsgThread, HandleVoteReq, IgnoreMsg, FollowerHandleAppendEntryReq,
       CandidateHandleAppendEntryReq, CandidateHandleVoteRsp, LeaderHandleAppendEntryReq,
       LeaderHandleVoteReq, LeaderHandleAppendEntryRsp, mainVars, dataVars
  <2>2. CASE HandleVoteReq(m.to, m) \/ IgnoreMsg(m.to, m) \/ FollowerHandleAppendEntryReq(m.to, m)
    <3>1. mRole' = [mRole EXCEPT ![m.to] = RoleFor(m.to, m)]
      BY <2>2 DEF HandleVoteReq, IgnoreMsg, FollowerHandleAppendEntryReq, StepDownTermAndRole
    <3> QED BY <1>0, <2>0, <2>1, <3>1 DEF RoleFor
  <2>3. CASE ~(HandleVoteReq(m.to, m) \/ IgnoreMsg(m.to, m) \/ FollowerHandleAppendEntryReq(m.to, m))
    <3>1. m.to = l
      BY <1>0, <1>3, <2>0, <2>3, OnlyOneActs DEF MsgThread
    <3> QED BY <1>0, <1>3, <2>0, <2>1, <2>3, <3>1 DEF MsgThread, CandidateHandleAppendEntryReq,
           CandidateHandleVoteRsp, LeaderHandleAppendEntryReq, LeaderHandleVoteReq, LeaderHandleAppendEntryRsp
  <2> QED BY <2>2, <2>3
<1>4. CASE UNCHANGED <<mRole, mainPc, dataPc>>
  BY <1>0, <1>4
<1>5. ASSUME NEW m \in net, Lose(m) PROVE UNCHANGED <<mRole, mainPc, dataPc>>
  BY <1>5 DEF Lose, mainVars, dataVars
<1>6. ASSUME NEW s \in Server, GrantVote(s) PROVE UNCHANGED <<mRole, mainPc, dataPc>>
  BY <1>6 DEF GrantVote, mainVars, dataVars
<1>7. CASE UNCHANGED vars
  BY <1>4, <1>7 DEF vars, mainVars, dataVars
<1> QED BY <1>1, <1>2, <1>3, <1>4, <1>5, <1>6, <1>7 DEF Next

(* A follower of l's keeps its log and takes what comes after it.          *)
LEMMA AppendedPrefix ==
  ASSUME TypeOK, NEW l \in Server, NEW s \in Server, PrefixOf(l, mLogQueue[s]),
         NEW m \in Heartbeat \cup AppendReq, RequestOf(l, m), ~OutOfOrder(s, m)
  PROVE  /\ ~PrevConflicts(s, m)
         /\ Kept(s, m) = LastLogId(s)
         /\ PrefixOf(l, Appended(s, m))
<1> DEFINE New == {i \in DOMAIN m.logs :
                     \/ m.firstLogId + i - 1 > LastLogId(s)
                     \/ mLogQueue[s][m.firstLogId + i - 1].term # m.logs[i].term}
           S == {Len(m.logs) + 1} \cup New
           n == FirstNew(s, m)
           k == Kept(s, m)
<1>0. /\ m.logs \in Seq(Entry) /\ Len(m.logs) \in Nat /\ DOMAIN m.logs = 1..Len(m.logs) /\ m.firstLogId \in Nat
      /\ m.firstLogId = 0 => Len(m.logs) = 0
  BY RequestFields
<1>1. /\ LogType /\ mLogQueue[s] \in Seq(Entry) /\ LastLogId(s) = Len(mLogQueue[s]) /\ LastLogId(s) \in Nat
      /\ LastLogId(l) \in Nat
  BY LastLogTermType DEF TypeOK, LogType
<1>2. /\ LastLogId(s) <= LastLogId(l)
      /\ \A i \in 1..LastLogId(s) : mLogQueue[s][i] = mLogQueue[l][i]
  BY <1>1 DEF PrefixOf
<1>3. ~PrevConflicts(s, m)
  <2> SUFFICES ASSUME m.firstLogId > 1 PROVE mLogQueue[s][m.firstLogId - 1].term = m.prevLogTermId
    BY DEF PrevConflicts
  <2>1. m.firstLogId - 1 \in 1..LastLogId(s)
    BY <1>0, <1>1 DEF OutOfOrder
  <2> QED BY <1>2, <2>1 DEF RequestOf
<1>4. \A i \in 1..Len(m.logs) :
        /\ m.firstLogId + i - 1 \in 1..LastLogId(l)
        /\ m.logs[i] = mLogQueue[l][m.firstLogId + i - 1]
  BY DEF RequestOf
<1>5. n \in 1..Len(m.logs) + 1 /\ k \in 0..LastLogId(s)
      /\ (m.firstLogId = 0 => k = LastLogId(s)) /\ (m.firstLogId > 0 => k >= m.firstLogId - 1)
  BY <1>1, KeptEntries
<1>6. n \in S
  <2>1. S \in SUBSET Nat /\ S # {}
    BY <1>0
  <2> HIDE DEF S
  <2>2. Min(S) \in S
    BY <2>1, MinOf
  <2> QED BY <2>2 DEF S, FirstNew
<1>7. ASSUME n <= Len(m.logs)
      PROVE  m.firstLogId + n - 1 > LastLogId(s) /\ k = m.firstLogId + n - 2
  <2>1. n \in New /\ n \in 1..Len(m.logs)
    BY <1>0, <1>5, <1>6, <1>7
  <2>2. m.firstLogId + n - 1 \notin 1..LastLogId(s)
    <3> SUFFICES ASSUME m.firstLogId + n - 1 \in 1..LastLogId(s) PROVE FALSE
      OBVIOUS
    <3>1. mLogQueue[s][m.firstLogId + n - 1] = m.logs[n]
      BY <1>2, <1>4, <2>1
    <3>2. ~(m.firstLogId + n - 1 > LastLogId(s))
      BY <1>1
    <3> QED BY <2>1, <3>1, <3>2
  <2>3. m.firstLogId + n - 1 \in 1..LastLogId(l)
    BY <1>4, <2>1
  <2>4. m.firstLogId + n - 1 > LastLogId(s)
    <3> HIDE DEF n
    <3> QED BY <1>1, <2>2, <2>3
  <2>5. ~(FirstNew(s, m) > Len(m.logs))
    BY <1>0, <1>5, <1>7
  <2> QED BY <2>4, <2>5 DEF Kept
<1> HIDE DEF New, S, n, k
<1>8. k = LastLogId(s)
  <2>1. CASE n <= Len(m.logs)
    BY <1>0, <1>1, <1>5, <1>7, <2>1
  <2>2. CASE ~(n <= Len(m.logs))
    <3>1. FirstNew(s, m) > Len(m.logs)
      BY <1>0, <1>5, <2>2 DEF n
    <3> QED BY <3>1 DEF k, Kept
  <2> QED BY <2>1, <2>2
<1>9. PrefixOf(l, Appended(s, m))
  <2> DEFINE old == SubSeq(mLogQueue[s], 1, k)
             new == SubSeq(m.logs, n, Len(m.logs))
             all == old \o new
  <2>1. /\ old \in Seq(Entry) /\ Len(old) = k
        /\ \A i \in 1..k : old[i] = mLogQueue[s][i]
    <3>1. k \in Int /\ \A i \in 1..k : mLogQueue[s][i] \in Entry
      BY <1>1, <1>8, ElementOfSeq
    <3> QED BY <1>1, <1>8, <3>1, SubSeqProperties
  <2>2. /\ new \in Seq(Entry) /\ Len(new) = Len(m.logs) - n + 1
        /\ \A i \in 1..Len(m.logs) - n + 1 : new[i] = m.logs[n + i - 1]
    <3>1. n \in Int /\ Len(m.logs) \in Int /\ \A i \in n..Len(m.logs) : m.logs[i] \in Entry
      BY <1>0, <1>5, ElementOfSeq
    <3> QED BY <1>0, <1>5, <3>1, SubSeqProperties
  <2> HIDE DEF old, new
  <2>3. /\ Len(all) = Len(old) + Len(new)
        /\ \A i \in 1..Len(old) + Len(new) : all[i] = IF i <= Len(old) THEN old[i] ELSE new[i - Len(old)]
    BY <2>1, <2>2, ConcatProperties
  <2> HIDE DEF all
  <2>4. /\ k \in Nat /\ n \in 1..Len(m.logs) + 1 /\ Len(m.logs) \in Nat /\ m.firstLogId \in Nat
        /\ Len(all) = k + (Len(m.logs) - n + 1)
        /\ n <= Len(m.logs) => k = m.firstLogId + n - 2
    <3>1. k \in Nat
      BY <1>1, <1>8
    <3>2. n <= Len(m.logs) => k = m.firstLogId + n - 2
      BY <1>7
    <3>3. Len(all) = k + (Len(m.logs) - n + 1)
      BY <2>1, <2>2, <2>3
    <3> QED BY <1>0, <1>5, <3>1, <3>2, <3>3
  <2>5. Len(all) <= LastLogId(l)
    <3>1. CASE n <= Len(m.logs)
      <4>1. Len(m.logs) \in 1..Len(m.logs)
        BY <2>4, <3>1
      <4>2. m.firstLogId + Len(m.logs) - 1 <= LastLogId(l)
        BY <1>1, <1>4, <2>4, <4>1
      <4> QED BY <2>4, <3>1, <4>2
    <3>2. CASE ~(n <= Len(m.logs))
      <4>1. Len(all) = k
        BY <2>4, <3>2
      <4> QED BY <1>2, <1>8, <4>1
    <3> QED BY <3>1, <3>2
  <2>6. ASSUME NEW i \in 1..Len(all) PROVE all[i] = mLogQueue[l][i]
    <3>1. CASE i <= k
      <4>1. i \in 1..k /\ i \in 1..LastLogId(s)
        BY <1>8, <2>4, <3>1
      <4>2. all[i] = old[i]
        BY <2>1, <2>2, <2>3, <2>4, <3>1
      <4> QED BY <1>2, <2>1, <4>1, <4>2
    <3>2. CASE ~(i <= k)
      <4>1. i - k \in 1..Len(m.logs) - n + 1
        BY <2>4, <3>2
      <4>2. all[i] = new[i - k]
        BY <2>1, <2>2, <2>3, <2>4, <3>2
      <4>3. all[i] = m.logs[n + (i - k) - 1]
        BY <2>2, <4>1, <4>2
      <4>4. n <= Len(m.logs) /\ n + (i - k) - 1 \in 1..Len(m.logs)
        BY <2>4, <4>1
      <4>5. m.firstLogId + (n + (i - k) - 1) - 1 = i
        BY <2>4, <4>4
      <4>6. m.logs[n + (i - k) - 1] = mLogQueue[l][m.firstLogId + (n + (i - k) - 1) - 1]
        BY <1>4, <4>4
      <4> QED BY <4>3, <4>5, <4>6
    <3> QED BY <3>1, <3>2
  <2> QED BY <2>5, <2>6 DEF PrefixOf, Appended, all, old, new, n, k
<1> QED BY <1>3, <1>8, <1>9 DEF k

(* A beginning of a prefix is one.                                         *)
LEMMA PrefixOfPrefix ==
  ASSUME LogType, NEW l \in Server, NEW log \in Seq(Entry), PrefixOf(l, log), NEW n \in Nat, n <= Len(log)
  PROVE  /\ PrefixOf(l, SubSeq(log, 1, n)) /\ Len(SubSeq(log, 1, n)) = n
         /\ SubSeq(log, 1, n) \in Seq(Entry)
<1>1. Len(log) \in Nat /\ LastLogId(l) \in Nat
  BY LastLogTermType
<1>2. \A i \in 1..n : log[i] \in Entry
  BY <1>1, ElementOfSeq
<1>3. /\ SubSeq(log, 1, n) \in Seq(Entry) /\ Len(SubSeq(log, 1, n)) = n
      /\ \A i \in 1..n : SubSeq(log, 1, n)[i] = log[i]
  BY <1>2, SubSeqProperties
<1> QED BY <1>1, <1>3 DEF PrefixOf

LEMMA SameLogsGrow ==
  ASSUME TypeOK, UNCHANGED mLogQueue
  PROVE  LogsGrow
<1>1. \A s \in Server : LastLogId(s) \in Nat /\ LastLogId(s) = Len(mLogQueue[s])
  BY LastLogTermType DEF TypeOK
<1> QED BY <1>1 DEF LogsGrow, LogGrows

(* One log is replaced by a longer one that begins with it.                *)
LEMMA OneLogGrows ==
  ASSUME TypeOK, NEW s \in Server, NEW new \in Seq(Entry), LastLogId(s) <= Len(new),
         \A i \in 1..LastLogId(s) : new[i] = mLogQueue[s][i],
         mLogQueue' = [mLogQueue EXCEPT ![s] = new]
  PROVE  LogsGrow
<1> SUFFICES ASSUME NEW p \in Server PROVE LogGrows(p)
  BY DEF LogsGrow
<1>1. LastLogId(p) \in Nat /\ LastLogId(p) = Len(mLogQueue[p])
  BY LastLogTermType DEF TypeOK
<1>2. mLogQueue'[p] = IF p = s THEN new ELSE mLogQueue[p]
  BY DEF TypeOK, LogType
<1> QED BY <1>1, <1>2 DEF LogGrows

LEMMA FollowerLogs ==
  ASSUME TypeOK, NEW l \in Server, OneElector(l), NEW s \in Server, NEW m \in net,
         m.to = s, FollowerHandleAppendEntryReq(s, m)
  PROVE  LogsGrow /\ OnePrefix(l)' /\ s # l
<1>0. /\ m \in Heartbeat \cup AppendReq /\ RequestOf(l, m) /\ s # l
      /\ PrefixOf(l, mLogQueue[s]) /\ OnePrefix(l)
  BY MessageKinds DEF TypeOK, FollowerHandleAppendEntryReq, OneElector, MsgsOf, MsgOf, RequestOf, OnePrefix
<1>1. /\ LogType /\ mLogQueue[s] \in Seq(Entry) /\ LastLogId(s) = Len(mLogQueue[s]) /\ LastLogId(s) \in Nat
  BY LastLogTermType DEF TypeOK, LogType
<1>2. ASSUME UNCHANGED mLogQueue PROVE OnePrefix(l)'
  BY <1>0, <1>2 DEF OnePrefix, PrefixOf, LastLogId
<1>3. ASSUME NEW new \in Seq(Entry), LastLogId(s) <= Len(new), PrefixOf(l, new),
             mLogQueue' = [mLogQueue EXCEPT ![s] = new]
      PROVE  LogsGrow /\ OnePrefix(l)'
  <2>1. \A i \in 1..LastLogId(s) : new[i] = mLogQueue[s][i]
    BY <1>0, <1>1, <1>3 DEF PrefixOf
  <2>2. LogsGrow
    BY <1>3, <2>1, OneLogGrows
  <2>3. \A p \in Server : mLogQueue'[p] = IF p = s THEN new ELSE mLogQueue[p]
    BY <1>1, <1>3 DEF LogType
  <2>4. mLogQueue'[l] = mLogQueue[l]
    BY <1>0, <2>3
  <2>5. OnePrefix(l)'
    BY <1>0, <1>3, <2>3, <2>4 DEF OnePrefix, PrefixOf, LastLogId
  <2> QED BY <2>2, <2>5
<1>4. ASSUME ~OutOfOrder(s, m)
      PROVE  /\ ~PrevConflicts(s, m) /\ Kept(s, m) = LastLogId(s)
             /\ PrefixOf(l, Appended(s, m)) /\ Appended(s, m) \in Seq(Entry)
             /\ LastLogId(s) <= Len(Appended(s, m)) /\ Len(Appended(s, m)) \in Nat
  <2>1. /\ ~PrevConflicts(s, m) /\ Kept(s, m) = LastLogId(s)
        /\ PrefixOf(l, Appended(s, m))
    BY <1>0, <1>4, AppendedPrefix
  <2>2. /\ Appended(s, m) \in Seq(Entry)
        /\ Len(Appended(s, m)) = Kept(s, m) + Len(m.logs) - FirstNew(s, m) + 1
    BY <1>0, <1>1, <1>4, AppendedEntries
  <2>3. FirstNew(s, m) \in 1..Len(m.logs) + 1 /\ Len(m.logs) \in Nat
    BY <1>0, <1>1, <1>4, KeptEntries, RequestFields
  <2> QED BY <1>1, <2>1, <2>2, <2>3
<1>5. CASE UNCHANGED mLogQueue
  BY <1>0, <1>2, <1>5, SameLogsGrow
<1>6. CASE PrevConflicts(s, m)
  BY <1>4, <1>6 DEF PrevConflicts
<1>7. CASE /\ ~OutOfOrder(s, m) /\ Refused(s, m)
           /\ SetLog(s, SubSeq(Appended(s, m), 1, Max({Kept(s, m), Room(s)})), Kept(s, m))
  <2> DEFINE n == Max({Kept(s, m), Room(s)})
             new == SubSeq(Appended(s, m), 1, n)
  <2>1. Room(s) \in Nat
    BY LimitAssumption DEF Room, TypeOK, LogType
  <2>2. n \in Nat /\ n >= LastLogId(s) /\ n <= Len(Appended(s, m))
    <3>1. Kept(s, m) \in Nat /\ Kept(s, m) = LastLogId(s)
      BY <1>1, <1>4, <1>7
    <3>2. n = IF Kept(s, m) <= Room(s) THEN Room(s) ELSE Kept(s, m)
      BY <2>1, <3>1, MaxOfTwo
    <3> QED BY <1>4, <1>7, <2>1, <3>1, <3>2 DEF Refused
  <2>3. mLogQueue' = [mLogQueue EXCEPT ![s] = new]
    BY <1>7 DEF SetLog
  <2> HIDE DEF n
  <2>4. new \in Seq(Entry) /\ PrefixOf(l, new) /\ Len(new) = n
    BY <1>1, <1>4, <1>7, <2>2, PrefixOfPrefix
  <2> HIDE DEF new
  <2> QED BY <1>0, <1>3, <2>2, <2>3, <2>4
<1>8. CASE /\ ~OutOfOrder(s, m) /\ SetLog(s, Appended(s, m), Kept(s, m))
  <2>1. mLogQueue' = [mLogQueue EXCEPT ![s] = Appended(s, m)]
    BY <1>8 DEF SetLog
  <2> QED BY <1>0, <1>3, <1>4, <1>8, <2>1
<1> QED BY <1>5, <1>6, <1>7, <1>8 DEF FollowerHandleAppendEntryReq, logVars

(* The elector's own entries.                                              *)
LEMMA AppendLogs ==
  ASSUME TypeOK, NEW l \in Server, OneElector(l), DataAppend(l)
  PROVE  /\ LogsGrow /\ OnePrefix(l)' /\ EntryInLog(l)'
<1>0. /\ mLogQueue[l] \in Seq(Entry) /\ LastLogId(l) = Len(mLogQueue[l]) /\ LastLogId(l) \in Nat
      /\ dataLog[l] \in DataLog /\ mCurTermId[l] \in Nat /\ OnePrefix(l)
      /\ \A p \in Server : Len(mLogQueue[p]) \in Nat
  BY LastLogTermType DEF TypeOK, DataAppend, LogType, DataType, RoleType, OneElector
<1>1. CASE dataPc' = [dataPc EXCEPT ![l] = "ended"] /\ UNCHANGED mLogQueue
  BY <1>0, <1>1, SameLogsGrow DEF OnePrefix, PrefixOf, LastLogId, EntryInLog, TypeOK, DataType
<1>2. CASE /\ dataLog' = [dataLog EXCEPT ![l] =
                            [logId |-> LastLogId(l) + 1, term |-> mCurTermId[l], val |-> @.val]]
           /\ mLogQueue' = [mLogQueue EXCEPT ![l] = Append(@, [term |-> mCurTermId[l], val |-> dataLog[l].val])]
  <2> DEFINE e == [term |-> mCurTermId[l], val |-> dataLog[l].val]
             new == Append(mLogQueue[l], e)
  <2>1. e \in Entry
    BY <1>0 DEF Entry, DataLog
  <2>2. mLogQueue' = [mLogQueue EXCEPT ![l] = new]
    BY <1>2 DEF TypeOK, LogType
  <2>3. dataLog'[l] = [logId |-> LastLogId(l) + 1, term |-> mCurTermId[l], val |-> dataLog[l].val]
    BY <1>2 DEF TypeOK, DataType
  <2>4. dataLog'[l].logId = LastLogId(l) + 1 /\ e = [term |-> dataLog'[l].term, val |-> dataLog'[l].val]
    BY <2>3
  <2> HIDE DEF e
  <2>5. /\ new \in Seq(Entry) /\ Len(new) = LastLogId(l) + 1
        /\ \A i \in 1..LastLogId(l) : new[i] = mLogQueue[l][i]
        /\ new[LastLogId(l) + 1] = e
    BY <1>0, <2>1, AppendProperties
  <2> HIDE DEF new
  <2>6. \A p \in Server : mLogQueue'[p] = IF p = l THEN new ELSE mLogQueue[p]
    BY <2>2 DEF TypeOK, LogType
  <2>7. LogsGrow
    <3>1. LastLogId(l) <= Len(new)
      BY <1>0, <2>5
    <3> QED BY <2>2, <2>5, <3>1, OneLogGrows
  <2>8. OnePrefix(l)'
    <3> SUFFICES ASSUME NEW p \in Server, p # l PROVE PrefixOf(l, mLogQueue[p])'
      BY <2>6 DEF OnePrefix, PrefixOf, LastLogId
    <3>1. mLogQueue'[p] = mLogQueue[p] /\ mLogQueue'[l] = new /\ Len(mLogQueue[p]) \in Nat
      BY <1>0, <2>6
    <3>2. Len(mLogQueue[p]) <= LastLogId(l) /\ \A i \in 1..Len(mLogQueue[p]) : mLogQueue[p][i] = mLogQueue[l][i]
      BY <1>0 DEF OnePrefix, PrefixOf
    <3>3. Len(mLogQueue[p]) <= Len(new) /\ \A i \in 1..Len(mLogQueue[p]) : mLogQueue[p][i] = new[i]
      BY <1>0, <2>5, <3>1, <3>2
    <3> QED BY <3>1, <3>3 DEF PrefixOf, LastLogId
  <2>9. EntryInLog(l)'
    <3>1. mLogQueue'[l] = new
      BY <2>6
    <3>2. LastLogId(l) + 1 \in 1..Len(new)
      BY <1>0, <2>5
    <3> QED BY <2>4, <2>5, <3>1, <3>2 DEF EntryInLog, LastLogId
  <2> QED BY <2>7, <2>8, <2>9
<1> QED BY <1>1, <1>2 DEF DataAppend

(* No step removes an entry, and every log stays a prefix of l's.          *)
LEMMA LogsStayPrefixes ==
  ASSUME TypeOK, NEW l \in Server, OneElector(l), [Next]_vars
  PROVE  LogsGrow /\ OnePrefix(l)'
<1>1. ASSUME UNCHANGED mLogQueue PROVE LogsGrow /\ OnePrefix(l)'
  BY <1>1, SameLogsGrow DEF OneElector, OnePrefix, PrefixOf, LastLogId
<1>2. ASSUME NEW s \in Server, MainThread(s) PROVE UNCHANGED mLogQueue
  BY <1>2 DEF MainThread, MainSwitch, FollowerInit, FollowerNextRound, FollowerTimeout, FollowerStartElection,
     CandidateInit, CandidateRound, CandidateVote, CandidateWake, LeaderInit, LeaderBeat, LeaderWake, logVars
<1>3. ASSUME NEW s \in Server, DataThread(s) PROVE UNCHANGED mLogQueue \/ DataAppend(l)
  <2>1. s = l
    BY <1>3 DEF OneElector, OthersFollow, DataThread, DataPop, DataAppend, DataCount, DataBroadcast
  <2> QED BY <1>3, <2>1 DEF DataThread, DataPop, DataCount, DataBroadcast, logVars
<1>4. ASSUME NEW m \in net, MsgThread(m.to, m)
      PROVE  LogsGrow /\ OnePrefix(l)'
  <2>1. m.to \in Server
    BY DEF TypeOK, Message, VoteReq, VoteRsp, Heartbeat, AppendReq, AppendRsp
  <2>2. ASSUME ~FollowerHandleAppendEntryReq(m.to, m) PROVE UNCHANGED mLogQueue
    <3>1. ASSUME LeaderHandleAppendEntryRsp(m.to, m) PROVE UNCHANGED mLogQueue
      BY <3>1 DEF LeaderHandleAppendEntryRsp
    <3>2. ASSUME ~LeaderHandleAppendEntryRsp(m.to, m) PROVE UNCHANGED mLogQueue
      <4>1. UNCHANGED logVars
        BY <1>4, <2>2, <3>2 DEF MsgThread, HandleVoteReq, IgnoreMsg, CandidateHandleAppendEntryReq,
           CandidateHandleVoteRsp, LeaderHandleAppendEntryReq, LeaderHandleVoteReq
      <4> QED BY <4>1 DEF logVars
    <3> QED BY <3>1, <3>2
  <2>3. CASE FollowerHandleAppendEntryReq(m.to, m)
    BY <2>1, <2>3, FollowerLogs
  <2>4. CASE ~FollowerHandleAppendEntryReq(m.to, m)
    BY <1>1, <2>2, <2>4
  <2> QED BY <2>3, <2>4
<1>5. ASSUME NEW m \in net, Lose(m) PROVE UNCHANGED mLogQueue
  BY <1>5 DEF Lose, logVars
<1>6. ASSUME NEW s \in Server, GrantVote(s) PROVE UNCHANGED mLogQueue
  BY <1>6 DEF GrantVote, logVars
<1>7. CASE UNCHANGED vars
  BY <1>1, <1>7 DEF vars, logVars
<1> QED BY <1>1, <1>2, <1>3, <1>4, <1>5, <1>6, <1>7, AppendLogs DEF Next

LEMMA EntryStaysInLog ==
  ASSUME TypeOK, NEW l \in Server, OneElector(l), [Next]_vars, LogsGrow
  PROVE  EntryInLog(l)'
<1>0. /\ EntryInLog(l) /\ LastLogId(l) \in Nat /\ LogGrows(l)
      /\ dataPc \in [Server -> DataPc] /\ dataLog \in [Server -> DataLog \cup {Nil}]
  BY LastLogTermType DEF OneElector, TypeOK, LogsGrow, DataType
<1>1. ASSUME dataLog'[l] = dataLog[l],
             dataPc'[l] \in {"appended", "counted"} => dataPc[l] \in {"appended", "counted"}
      PROVE  EntryInLog(l)'
  <2> SUFFICES ASSUME dataPc'[l] \in {"appended", "counted"}
               PROVE  /\ dataLog'[l].logId \in 1..Len(mLogQueue'[l])
                      /\ mLogQueue'[l][dataLog'[l].logId] = [term |-> dataLog'[l].term, val |-> dataLog'[l].val]
    BY DEF EntryInLog, LastLogId
  <2>1. /\ dataLog[l].logId \in 1..LastLogId(l)
        /\ mLogQueue[l][dataLog[l].logId] = [term |-> dataLog[l].term, val |-> dataLog[l].val]
    BY <1>0, <1>1 DEF EntryInLog
  <2>2. LastLogId(l) <= Len(mLogQueue'[l]) /\ Len(mLogQueue'[l]) \in Nat
    <3>1. TypeOK'
      BY NextTypeOK
    <3> QED BY <1>0, <3>1 DEF LogGrows, TypeOK, LogType
  <2>3. mLogQueue'[l][dataLog[l].logId] = mLogQueue[l][dataLog[l].logId]
    BY <1>0, <2>1 DEF LogGrows
  <2> QED BY <1>0, <1>1, <2>1, <2>2, <2>3
<1>2. ASSUME NEW s \in Server, DataThread(s) PROVE EntryInLog(l)'
  <2>1. s = l
    BY <1>2 DEF OneElector, OthersFollow, DataThread, DataPop, DataAppend, DataCount, DataBroadcast
  <2>2. CASE DataAppend(l)
    BY <2>2, AppendLogs
  <2>3. CASE DataPop(l) \/ DataBroadcast(l)
    <3>1. dataPc'[l] \notin {"appended", "counted"}
      BY <1>0, <2>3 DEF DataPop, DataBroadcast
    <3> QED BY <3>1 DEF EntryInLog
  <2>4. CASE DataCount(l)
    BY <1>0, <1>1, <2>4 DEF DataCount
  <2> QED BY <1>2, <2>1, <2>2, <2>3, <2>4 DEF DataThread
<1>3. ASSUME NEW s \in Server, MainThread(s) PROVE UNCHANGED dataVars
  BY <1>3 DEF MainThread, MainSwitch, FollowerInit, FollowerNextRound, FollowerTimeout, FollowerStartElection,
     CandidateInit, CandidateRound, CandidateVote, CandidateWake, LeaderInit, LeaderBeat, LeaderWake
<1>4. ASSUME NEW m \in net, MsgThread(m.to, m) PROVE UNCHANGED dataVars
  BY <1>4 DEF MsgThread, HandleVoteReq, IgnoreMsg, FollowerHandleAppendEntryReq, CandidateHandleAppendEntryReq,
     CandidateHandleVoteRsp, LeaderHandleAppendEntryReq, LeaderHandleVoteReq, LeaderHandleAppendEntryRsp
<1>5. ASSUME NEW m \in net, Lose(m) PROVE UNCHANGED dataVars
  BY <1>5 DEF Lose
<1>6. ASSUME NEW s \in Server, GrantVote(s) PROVE UNCHANGED dataVars
  BY <1>6 DEF GrantVote
<1>7. CASE UNCHANGED dataVars
  BY <1>1, <1>7 DEF dataVars
<1>8. CASE UNCHANGED vars
  BY <1>7, <1>8 DEF vars
<1> QED BY <1>2, <1>3, <1>4, <1>5, <1>6, <1>7, <1>8 DEF Next

---------------------------------------------------------------------------
(* Messages.                                                               *)

(* What is in flight stays true, since logs only grow.                     *)
LEMMA OldMsgs ==
  ASSUME TypeOK, TypeOK', NEW l \in Server, LogsGrow, NEW m \in Message, MsgOf(l, m)
  PROVE  MsgOf(l, m)'
<1>0. \A s \in Server : LastLogId(s) \in Nat /\ Len(mLogQueue'[s]) \in Nat /\ LogGrows(s)
  BY LastLogTermType DEF TypeOK, LogType, LogsGrow
<1>1. CASE m.type = "AppendEntryReq"
  <2>1. m \in Heartbeat \cup AppendReq /\ RequestOf(l, m)
    BY <1>1, MessageKinds DEF MsgOf
  <2>2. m.firstLogId \in Nat /\ Len(m.logs) \in Nat
    BY <2>1, RequestFields
  <2>3. \A i \in 1..Len(m.logs) :
          /\ m.firstLogId + i - 1 \in 1..Len(mLogQueue'[l])
          /\ m.logs[i] = mLogQueue'[l][m.firstLogId + i - 1]
    <3> SUFFICES ASSUME NEW i \in 1..Len(m.logs)
                 PROVE  /\ m.firstLogId + i - 1 \in 1..Len(mLogQueue'[l])
                        /\ m.logs[i] = mLogQueue'[l][m.firstLogId + i - 1]
      OBVIOUS
    <3>1. m.firstLogId + i - 1 \in 1..LastLogId(l) /\ m.logs[i] = mLogQueue[l][m.firstLogId + i - 1]
      BY <2>1 DEF RequestOf
    <3> QED BY <1>0, <2>2, <3>1 DEF LogGrows
  <2>4. ASSUME m.firstLogId > 1
        PROVE  /\ m.firstLogId - 1 <= Len(mLogQueue'[l])
               /\ m.prevLogTermId = mLogQueue'[l][m.firstLogId - 1].term
    <3>1. m.firstLogId - 1 \in 1..LastLogId(l) /\ m.prevLogTermId = mLogQueue[l][m.firstLogId - 1].term
      BY <1>0, <2>1, <2>2, <2>4 DEF RequestOf
    <3> QED BY <1>0, <2>2, <3>1 DEF LogGrows
  <2> QED BY <1>1, <2>1, <2>3, <2>4 DEF MsgOf, RequestOf, LastLogId
<1>2. CASE m.type = "AppendEntryRsp"
  <2>1. m \in AppendRsp
    BY <1>2, MessageKinds
  <2>2. m.from \in Server /\ m.lastLogId \in Nat
    BY <2>1 DEF AppendRsp
  <2>3. m.lastLogId <= Len(mLogQueue'[m.from])
    BY <1>0, <1>2, <2>2 DEF LogGrows, MsgOf
  <2> QED BY <1>2, <2>3 DEF MsgOf, LastLogId
<1> QED BY <1>1, <1>2 DEF MsgOf

(* What l sends is of its log.                                             *)
LEMMA BeatOf ==
  ASSUME NEW l \in Server, NEW p \in Peers(l), NEW prev
  PROVE  MsgOf(l, Request(l, p, 0, prev, <<>>))
BY DEF MsgOf, RequestOf, Request, Peers

LEMMA EntryOf ==
  ASSUME TypeOK, NEW l \in Server, EntryInLog(l), dataPc[l] = "counted", NEW p \in Peers(l)
  PROVE  MsgOf(l, Request(l, p, dataLog[l].logId, PrevLogTerm(l, dataLog[l].logId),
                          <<[term |-> dataLog[l].term, val |-> dataLog[l].val]>>))
<1> DEFINE e == dataLog[l]
           entry == [term |-> e.term, val |-> e.val]
           m == Request(l, p, e.logId, PrevLogTerm(l, e.logId), <<entry>>)
<1>1. /\ LastLogId(l) \in Nat /\ e.logId \in 1..LastLogId(l) /\ mLogQueue[l][e.logId] = entry
  BY LastLogTermType DEF TypeOK, EntryInLog
<1>2. /\ m.type = "AppendEntryReq" /\ m.from = l /\ m.to = p /\ p # l
      /\ m.firstLogId = e.logId /\ m.logs = <<entry>> /\ m.prevLogTermId = PrevLogTerm(l, e.logId)
  BY DEF Request, Peers
<1> HIDE DEF e, entry, m
<1>3. Len(m.logs) = 1 /\ m.logs[1] = entry
  BY <1>2
<1>4. \A i \in 1..Len(m.logs) : i = 1
  BY <1>3
<1>5. \A i \in 1..Len(m.logs) :
        m.firstLogId + i - 1 \in 1..LastLogId(l) /\ m.logs[i] = mLogQueue[l][m.firstLogId + i - 1]
  <2>1. e.logId + 1 - 1 = e.logId
    BY <1>1
  <2> QED BY <1>1, <1>2, <1>3, <1>4, <2>1
<1>6. m.firstLogId > 1 =>
        m.firstLogId - 1 <= LastLogId(l) /\ m.prevLogTermId = mLogQueue[l][m.firstLogId - 1].term
  BY <1>1, <1>2 DEF PrevLogTerm
<1>7. MsgOf(l, m)
  BY <1>2, <1>5, <1>6 DEF MsgOf, RequestOf
<1> QED BY <1>7 DEF m, e, entry

LEMMA NextRequestsOf ==
  ASSUME TypeOK, TypeOK', NEW l \in Server, NEW p \in Peers(l), NEW m \in NextRequests(l, p)
  PROVE  MsgOf(l, m)
<1> DEFINE first == mNextToReplicate'[l][p]
           last  == Min({first + RAFT_MAX_LOG_IN_MSG - 1, LastLogId(l)})
<1>1. /\ first \in DOMAIN mLogQueue[l]
      /\ m = Request(l, p, first, PrevLogTerm(l, first), SubSeq(mLogQueue[l], first, last))
  BY DEF NextRequests
<1>2. /\ mLogQueue[l] \in Seq(Entry) /\ LastLogId(l) = Len(mLogQueue[l]) /\ LastLogId(l) \in Nat
      /\ first \in 1..LastLogId(l)
  BY <1>1, LastLogTermType, LenProperties DEF TypeOK, LogType
<1>3. first + RAFT_MAX_LOG_IN_MSG - 1 \in Nat
  BY <1>2, LimitAssumption
<1>4. last \in Nat /\ last <= LastLogId(l)
  BY <1>2, <1>3, MinOfTwo
<1> HIDE DEF first, last
<1> DEFINE logs == SubSeq(mLogQueue[l], first, last)
<1>5. first \in Int /\ last \in Int /\ \A i \in first..last : mLogQueue[l][i] \in Entry
  BY <1>2, <1>4, ElementOfSeq
<1>6. /\ Len(logs) = IF first <= last THEN last - first + 1 ELSE 0
      /\ \A i \in 1..last - first + 1 : logs[i] = mLogQueue[l][first + i - 1]
  BY <1>5, SubSeqProperties
<1>7. /\ m.type = "AppendEntryReq" /\ m.from = l /\ m.to = p /\ p # l
      /\ m.firstLogId = first /\ m.logs = logs /\ m.prevLogTermId = PrevLogTerm(l, first)
  BY <1>1 DEF Request, Peers
<1> HIDE DEF logs
<1>8. \A i \in 1..Len(logs) : i \in 1..last - first + 1 /\ first + i - 1 \in 1..LastLogId(l)
  BY <1>2, <1>4, <1>6
<1>9. first > 1 => first - 1 <= LastLogId(l) /\ PrevLogTerm(l, first) = mLogQueue[l][first - 1].term
  BY <1>2 DEF PrevLogTerm
<1>10. RequestOf(l, m)
  BY <1>6, <1>7, <1>8, <1>9 DEF RequestOf
<1> QED BY <1>7, <1>10 DEF MsgOf

LEMMA MsgsStayTrue ==
  ASSUME TypeOK, NEW l \in Server, OneElector(l), [Next]_vars, LogsGrow
  PROVE  MsgsOf(l)'
<1>0. TypeOK' /\ net \subseteq Message /\ net' \subseteq Message /\ OthersFollow(l)
      /\ \A m \in net : MsgOf(l, m) /\ m \in Message /\ m.to \in Server
  <2>1. TypeOK'
    BY NextTypeOK
  <2> QED BY <2>1 DEF TypeOK, OneElector, MsgsOf, Message, VoteReq, VoteRsp, Heartbeat, AppendReq, AppendRsp
<1>1. \A m \in net : MsgOf(l, m)'
  BY <1>0, OldMsgs
<1>2. ASSUME net' \subseteq net PROVE MsgsOf(l)'
  BY <1>1, <1>2 DEF MsgsOf
<1>3. ASSUME NEW m, m.type \notin {"AppendEntryReq", "AppendEntryRsp"} PROVE MsgOf(l, m)'
  BY <1>3 DEF MsgOf
<1>4. ASSUME NEW s \in Server, MainThread(s) PROVE MsgsOf(l)'
  <2>1. CASE LeaderBeat(s)
    <3>1. s = l
      BY <1>0, <2>1 DEF LeaderBeat, OthersFollow
    <3>2. ASSUME NEW m \in net', m \notin net PROVE MsgOf(l, m)'
      <4>1. PICK p \in Peers(l) : m = Request(l, p, 0, PrevLogTerm(l, LastLogId(l)), <<>>)
        BY <2>1, <3>1, <3>2 DEF LeaderBeat, Send
      <4>2. MsgOf(l, m) /\ m \in Message
        BY <1>0, <4>1, BeatOf
      <4> QED BY <1>0, <4>2, OldMsgs
    <3> QED BY <1>1, <3>2 DEF MsgsOf
  <2>2. CASE CandidateVote(s)
    <3>1. net' \subseteq net \cup {VoteReqTo(s, p) : p \in Peers(s)}
      BY <2>2 DEF CandidateVote, Send
    <3>2. \A p \in Peers(s) : VoteReqTo(s, p).type = "VoteReq"
      BY DEF VoteReqTo
    <3> QED BY <1>1, <1>3, <3>1, <3>2 DEF MsgsOf
  <2>3. CASE ~LeaderBeat(s) /\ ~CandidateVote(s)
    BY <1>2, <1>4, <2>3 DEF MainThread, MainSwitch, FollowerInit, FollowerNextRound, FollowerTimeout,
       FollowerStartElection, CandidateInit, CandidateRound, CandidateWake, LeaderInit, LeaderWake
  <2> QED BY <2>1, <2>2, <2>3
<1>5. ASSUME NEW s \in Server, DataThread(s) PROVE MsgsOf(l)'
  <2>1. s = l
    BY <1>5 DEF OneElector, OthersFollow, DataThread, DataPop, DataAppend, DataCount, DataBroadcast
  <2>2. CASE DataBroadcast(l)
    <3>1. EntryInLog(l) /\ dataPc[l] = "counted"
      BY <2>2 DEF OneElector, DataBroadcast
    <3>2. ASSUME NEW m \in net', m \notin net PROVE MsgOf(l, m)'
      <4>1. PICK p \in Peers(l) :
              m = Request(l, p, dataLog[l].logId, PrevLogTerm(l, dataLog[l].logId),
                          <<[term |-> dataLog[l].term, val |-> dataLog[l].val]>>)
        BY <2>2, <3>2 DEF DataBroadcast, Send
      <4>2. MsgOf(l, m)
        BY <3>1, <4>1, EntryOf
      <4> QED BY <1>0, <4>2, OldMsgs
    <3> QED BY <1>1, <3>2 DEF MsgsOf
  <2>3. CASE ~DataBroadcast(l)
    BY <1>2, <1>5, <2>1, <2>3 DEF DataThread, DataPop, DataAppend, DataCount
  <2> QED BY <2>2, <2>3
<1>6. ASSUME NEW s \in Server, GrantVote(s) PROVE MsgsOf(l)'
  <2>1. ASSUME NEW m \in net', m \notin net PROVE MsgOf(l, m)'
    <3>1. m.type = "VoteRsp"
      BY <1>6, <2>1 DEF GrantVote, Send, VoteRspTo
    <3> QED BY <1>3, <3>1
  <2> QED BY <1>1, <2>1 DEF MsgsOf
<1>7. ASSUME NEW m \in net, MsgThread(m.to, m) PROVE MsgsOf(l)'
  <2> DEFINE s == m.to
  <2>0. m \in Message /\ s \in Server
    BY <1>0
  <2>1. CASE HandleVoteReq(s, m) \/ LeaderHandleVoteReq(s, m)
    <3>1. ASSUME NEW n \in net', n \notin net PROVE MsgOf(l, n)'
      <4>1. n.type = "VoteRsp"
        BY <2>1, <3>1 DEF HandleVoteReq, LeaderHandleVoteReq, Send, VoteRspTo
      <4> QED BY <1>3, <4>1
    <3> QED BY <1>1, <3>1 DEF MsgsOf
  <2>2. CASE FollowerHandleAppendEntryReq(s, m)
    <3>1. s # l
      BY <1>0, <2>2 DEF FollowerHandleAppendEntryReq, MsgOf, RequestOf
    <3>2. ASSUME NEW n \in net', n \notin net PROVE MsgOf(l, n)'
      <4>1. n = AppendRspTo(s, m, TRUE) \/ n = AppendRspTo(s, m, FALSE)
        BY <2>2, <3>2 DEF FollowerHandleAppendEntryReq, Send
      <4>2. n.type = "AppendEntryRsp" /\ n.from = s /\ n.lastLogId = Len(mLogQueue'[s])
        BY <4>1 DEF AppendRspTo
      <4>3. Len(mLogQueue'[s]) \in Nat
        BY <1>0, <2>0 DEF TypeOK, LogType
      <4> QED BY <3>1, <4>2, <4>3 DEF MsgOf, LastLogId
    <3> QED BY <1>1, <3>2 DEF MsgsOf
  <2>3. CASE LeaderHandleAppendEntryRsp(s, m)
    <3>1. s = l /\ m.from # l /\ m.from \in Peers(l)
      <4>1. s = l /\ m.type = "AppendEntryRsp"
        BY <1>0, <2>0, <2>3, OnlyOneActs DEF LeaderHandleAppendEntryRsp
      <4>2. m \in AppendRsp /\ m.from # l
        BY <1>0, <4>1, MessageKinds DEF MsgOf
      <4> QED BY <4>1, <4>2 DEF AppendRsp, Peers
    <3>2. ASSUME NEW n \in net', n \notin net PROVE MsgOf(l, n)'
      <4>1. n \in NextRequests(l, m.from)
        BY <2>3, <3>1, <3>2 DEF LeaderHandleAppendEntryRsp, Send
      <4>2. MsgOf(l, n)
        BY <1>0, <3>1, <4>1, NextRequestsOf
      <4> QED BY <1>0, <4>2, OldMsgs
    <3> QED BY <1>1, <3>2 DEF MsgsOf
  <2>4. CASE CandidateHandleAppendEntryReq(s, m) \/ LeaderHandleAppendEntryReq(s, m)
    <3>1. s = l
      BY <1>0, <2>0, <2>4, OnlyOneActs
    <3>2. m.type = "AppendEntryReq"
      BY <2>4 DEF CandidateHandleAppendEntryReq, LeaderHandleAppendEntryReq
    <3> QED BY <1>0, <3>1, <3>2 DEF MsgOf, RequestOf
  <2>5. CASE IgnoreMsg(s, m) \/ CandidateHandleVoteRsp(s, m)
    BY <1>2, <2>5 DEF IgnoreMsg, CandidateHandleVoteRsp, Send
  <2> QED BY <1>7, <2>1, <2>2, <2>3, <2>4, <2>5 DEF MsgThread
<1>8. ASSUME NEW m \in net, Lose(m) PROVE MsgsOf(l)'
  BY <1>2, <1>8 DEF Lose, Send
<1>9. CASE UNCHANGED vars
  BY <1>2, <1>9 DEF vars
<1> QED BY <1>4, <1>5, <1>6, <1>7, <1>8, <1>9 DEF Next

---------------------------------------------------------------------------
(* What the elector commits.                                               *)

(* The answer that lets it commit is of a server that holds the entry.     *)
LEMMA CommitsWhatIsAnswered ==
  ASSUME TypeOK, NEW s \in Server, NEW m \in AppendRsp, CountReceived(s, m)
  PROVE  mCommitIndex'[s] = mCommitIndex[s] \/ mCommitIndex'[s] <= m.lastLogId
<1> DEFINE S == {mCommitIndex[s]} \cup Committable(s, m)
           n == Max({mCommitIndex[s], LastLogId(s)})
<1>1. /\ mCommitIndex[s] \in Nat /\ LastLogId(s) \in Nat /\ m.lastLogId \in Nat
      /\ DOMAIN mLogQueue[s] = 1..LastLogId(s)
  BY LastLogTermType, LenProperties DEF TypeOK, LogType, LastLogId, AppendRsp
<1>2. n \in Nat /\ mCommitIndex[s] <= n /\ LastLogId(s) <= n
  BY <1>1, MaxOfTwo
<1> HIDE DEF n
<1>3. \A i \in Committable(s, m) : i \in 1..LastLogId(s) /\ i <= m.lastLogId
  BY <1>1 DEF Committable, Counted
<1>4. S \in SUBSET (0..n) /\ S # {}
  BY <1>1, <1>2, <1>3
<1> HIDE DEF S
<1>5. Max(S) \in S
  BY <1>2, <1>4, MaxOf
<1>6. mCommitIndex'[s] = Max(S)
  BY DEF CountReceived, S, TypeOK, LogType
<1> QED BY <1>3, <1>5, <1>6 DEF S

LEMMA PeerStillHolds ==
  ASSUME TypeOK, NEW l \in Server, OneElector(l), [Next]_vars, LogsGrow
  PROVE  PeerHolds(l)'
<1>0. /\ TypeOK' /\ PeerHolds(l) /\ OthersFollow(l) /\ mCommitIndex \in [Server -> Nat]
      /\ \A p \in Server : LastLogId(p) \in Nat /\ Len(mLogQueue'[p]) \in Nat /\ LastLogId(p) <= Len(mLogQueue'[p])
  <2>1. TypeOK'
    BY NextTypeOK
  <2> QED BY <2>1, LastLogTermType DEF TypeOK, LogType, OneElector, LogsGrow, LogGrows
<1>1. ASSUME mCommitIndex'[l] = mCommitIndex[l] PROVE PeerHolds(l)'
  <2> SUFFICES ASSUME mCommitIndex[l] > 0
               PROVE  \E p \in Peers(l) : mCommitIndex[l] <= Len(mLogQueue'[p])
    BY <1>1 DEF PeerHolds, LastLogId, Peers
  <2>1. PICK p \in Peers(l) : mCommitIndex[l] <= LastLogId(p)
    BY <1>0 DEF PeerHolds
  <2>2. p \in Server
    BY DEF Peers
  <2> QED BY <1>0, <2>1, <2>2
<1>2. ASSUME NEW s \in Server, MainThread(s) PROVE mCommitIndex'[l] = mCommitIndex[l]
  BY <1>2 DEF MainThread, MainSwitch, FollowerInit, FollowerNextRound, FollowerTimeout, FollowerStartElection,
     CandidateInit, CandidateRound, CandidateVote, CandidateWake, LeaderInit, LeaderBeat, LeaderWake, logVars
<1>3. ASSUME NEW s \in Server, DataThread(s) PROVE mCommitIndex'[l] = mCommitIndex[l]
  BY <1>3 DEF DataThread, DataPop, DataAppend, DataCount, DataBroadcast, logVars
<1>4. ASSUME NEW m \in net, MsgThread(m.to, m) PROVE PeerHolds(l)'
  <2>0. m \in Message /\ m.to \in Server /\ MsgOf(l, m)
    BY DEF TypeOK, OneElector, MsgsOf, Message, VoteReq, VoteRsp, Heartbeat, AppendReq, AppendRsp
  <2>1. CASE FollowerHandleAppendEntryReq(m.to, m)
    <3>1. m.to # l
      BY <2>0, <2>1, FollowerLogs
    <3>2. mCommitIndex'[l] = mCommitIndex[l]
      BY <1>0, <2>1, <3>1 DEF FollowerHandleAppendEntryReq, logVars
    <3> QED BY <1>1, <3>2
  <2>2. CASE LeaderHandleAppendEntryRsp(m.to, m)
    <3>1. m.to = l /\ m.type = "AppendEntryRsp"
      BY <1>0, <2>0, <2>2, OnlyOneActs DEF LeaderHandleAppendEntryRsp
    <3>2. m \in AppendRsp /\ m.from \in Peers(l) /\ m.from \in Server /\ m.lastLogId \in Nat
          /\ m.lastLogId <= LastLogId(m.from)
      BY <2>0, <3>1, MessageKinds DEF MsgOf, Peers, AppendRsp
    <3>3. CASE mCommitIndex'[l] = mCommitIndex[l]
      BY <1>1, <3>3
    <3>4. CASE mCommitIndex'[l] # mCommitIndex[l]
      <4>1. CountReceived(l, m)
        BY <2>2, <3>1, <3>4 DEF LeaderHandleAppendEntryRsp
      <4>2. mCommitIndex'[l] <= m.lastLogId
        BY <3>2, <3>4, <4>1, CommitsWhatIsAnswered
      <4>3. mCommitIndex'[l] <= Len(mLogQueue'[m.from])
        <5>1. mCommitIndex'[l] \in Nat
          BY <1>0 DEF TypeOK, LogType
        <5> QED BY <1>0, <3>2, <4>2, <5>1
      <4> QED BY <3>2, <4>3 DEF PeerHolds, LastLogId, Peers
    <3> QED BY <3>3, <3>4
  <2>3. CASE ~FollowerHandleAppendEntryReq(m.to, m) /\ ~LeaderHandleAppendEntryRsp(m.to, m)
    <3>1. UNCHANGED logVars
      BY <1>4, <2>3 DEF MsgThread, HandleVoteReq, IgnoreMsg, CandidateHandleAppendEntryReq,
         CandidateHandleVoteRsp, LeaderHandleAppendEntryReq, LeaderHandleVoteReq
    <3>2. mCommitIndex'[l] = mCommitIndex[l]
      BY <3>1 DEF logVars
    <3> QED BY <1>1, <3>2
  <2> QED BY <2>1, <2>2, <2>3
<1>5. ASSUME NEW m \in net, Lose(m) PROVE mCommitIndex'[l] = mCommitIndex[l]
  BY <1>5 DEF Lose, logVars
<1>6. ASSUME NEW s \in Server, GrantVote(s) PROVE mCommitIndex'[l] = mCommitIndex[l]
  BY <1>6 DEF GrantVote, logVars
<1>7. CASE UNCHANGED vars
  BY <1>1, <1>7 DEF vars, logVars
<1> QED BY <1>1, <1>2, <1>3, <1>4, <1>5, <1>6, <1>7 DEF Next

LEMMA NextOneElector ==
  ASSUME NEW l \in Server, Starters \subseteq {l}, TypeOK, OneElector(l), [Next]_vars
  PROVE  OneElector(l)' /\ LogsGrow
<1>1. LogsGrow /\ OnePrefix(l)'
  BY LogsStayPrefixes
<1>2. OthersFollow(l)' /\ EntryInLog(l)' /\ MsgsOf(l)' /\ PeerHolds(l)'
  BY <1>1, OthersStayFollowers, EntryStaysInLog, MsgsStayTrue, PeerStillHolds
<1> QED BY <1>1, <1>2 DEF OneElector

(* What is applied is in the log, and every log is a prefix of l's.        *)
LEMMA OnePrefixAgrees ==
  ASSUME TypeOK, IndexOrder, NEW l \in Server, OneElector(l)
  PROVE  StateMachinesAgree
<1> SUFFICES ASSUME NEW s \in Server, NEW p \in Server,
                    NEW i \in 1..Min({mLastLogIdApplied[s], mLastLogIdApplied[p]})
             PROVE  mLogQueue[s][i] = mLogQueue[p][i]
  BY DEF StateMachinesAgree
<1>1. \A q \in {s, p} : /\ mLastLogIdApplied[q] \in Nat /\ mCommitIndex[q] \in Nat /\ LastLogId(q) \in Nat
                        /\ mLastLogIdApplied[q] <= LastLogId(q)
  <2> SUFFICES ASSUME NEW q \in Server
               PROVE  /\ mLastLogIdApplied[q] \in Nat /\ mCommitIndex[q] \in Nat /\ LastLogId(q) \in Nat
                      /\ mLastLogIdApplied[q] <= LastLogId(q)
    OBVIOUS
  <2>1. LogType
    BY DEF TypeOK
  <2>2. LastLogId(q) \in Nat
    BY <2>1, LastLogTermType
  <2>3. mLastLogIdApplied[q] \in Nat /\ mCommitIndex[q] \in Nat
    BY <2>1 DEF LogType
  <2> QED BY <2>2, <2>3 DEF IndexOrder
<1>2. i \in 1..LastLogId(s) /\ i \in 1..LastLogId(p)
  <2>1. Min({mLastLogIdApplied[s], mLastLogIdApplied[p]}) =
          IF mLastLogIdApplied[s] <= mLastLogIdApplied[p] THEN mLastLogIdApplied[s] ELSE mLastLogIdApplied[p]
    BY <1>1, MinOfTwo
  <2> QED BY <1>1, <2>1
<1>3. \A q \in Server : \A j \in 1..LastLogId(q) : mLogQueue[q][j] = mLogQueue[l][j]
  BY DEF OneElector, OnePrefix, PrefixOf, LastLogId
<1> QED BY <1>2, <1>3

(* In a group of three, the leader and one peer are more than half.        *)
LEMMA TwoAreMost ==
  ASSUME TypeOK, IndexOrder, NEW l \in Server, OneElector(l), Cardinality(Server) <= 3
  PROVE  CommittedByMajority
<1> SUFFICES ASSUME NEW s \in Server, NEW i \in 1..mCommitIndex[s], mRole[s] = "eLeader"
             PROVE  Cardinality({p \in Server : i <= LastLogId(p) /\ mLogQueue[p][i] = mLogQueue[s][i]}) > Half
  BY DEF CommittedByMajority
<1> DEFINE holders == {p \in Server : i <= LastLogId(p) /\ mLogQueue[p][i] = mLogQueue[s][i]}
<1>1. s = l
  BY DEF OneElector, OthersFollow
<1>2. \A p \in Server : mCommitIndex[p] \in Nat /\ LastLogId(p) \in Nat /\ mCommitIndex[p] <= LastLogId(p)
  <2> SUFFICES ASSUME NEW p \in Server
               PROVE  mCommitIndex[p] \in Nat /\ LastLogId(p) \in Nat /\ mCommitIndex[p] <= LastLogId(p)
    OBVIOUS
  <2>1. LogType
    BY DEF TypeOK
  <2>2. LastLogId(p) \in Nat
    BY <2>1, LastLogTermType
  <2> QED BY <2>1, <2>2 DEF LogType, IndexOrder
<1>3. PICK q \in Peers(l) : mCommitIndex[l] <= LastLogId(q)
  BY <1>1, <1>2 DEF OneElector, PeerHolds
<1>4. q \in Server /\ q # l /\ i \in 1..LastLogId(q) /\ i \in 1..LastLogId(l)
  BY <1>1, <1>2, <1>3 DEF Peers
<1>5. mLogQueue[q][i] = mLogQueue[l][i]
  BY <1>4 DEF OneElector, OnePrefix, PrefixOf, LastLogId
<1>6. {l, q} \in SUBSET holders /\ holders \in SUBSET Server
  BY <1>1, <1>2, <1>4, <1>5
<1> HIDE DEF holders
<1>7. IsFiniteSet(holders)
  BY <1>6, ServerAssumption, FS_Subset
<1>8. Cardinality({l, q}) = 2
  <2>1. IsFiniteSet({l}) /\ Cardinality({l}) = 1
    BY FS_Singleton
  <2>2. {l, q} = {l} \cup {q} /\ q \notin {l}
    BY <1>4
  <2>3. Cardinality({l} \cup {q}) = Cardinality({l}) + 1
    BY <2>1, <2>2, FS_AddElement
  <2> QED BY <2>1, <2>2, <2>3
<1>9. Cardinality(holders) \in Nat /\ Cardinality(holders) >= 2
  BY <1>6, <1>7, <1>8, FS_Subset, FS_CardinalityType
<1>10. Half <= 1
  <2>1. Cardinality(Server) \in 0..3
    BY ServerAssumption, FS_CardinalityType
  <2> QED BY <2>1 DEF Half
<1> QED BY <1>9, <1>10, HalfNat DEF holders

(* With one elector, two state machines never differ, whatever is lost,    *)
(* reordered or repeated, in a group of any size and however many          *)
(* elections there are.                                                    *)
THEOREM OneElectorAgrees ==
  ASSUME NEW l \in Server, Starters \subseteq {l}
  PROVE  Spec => []StateMachinesAgree
<1>1. Init => OneElector(l)
  BY InitOneElector
<1>2. TypeOK /\ OneElector(l) /\ [Next]_vars => OneElector(l)'
  BY NextOneElector
<1>3. TypeOK /\ IndexOrder /\ OneElector(l) => StateMachinesAgree
  BY OnePrefixAgrees
<1> QED BY <1>1, <1>2, <1>3, TypeCorrect, IndexOrderHolds, PTL DEF Spec

(* With one elector in a group of at most three, what a leader commits is  *)
(* held by more than half.  In a group of four it is not.                  *)
THEOREM OneElectorHasMajority ==
  ASSUME NEW l \in Server, Starters \subseteq {l}, Cardinality(Server) <= 3
  PROVE  Spec => []CommittedByMajority
<1>1. Init => OneElector(l)
  BY InitOneElector
<1>2. TypeOK /\ OneElector(l) /\ [Next]_vars => OneElector(l)'
  BY NextOneElector
<1>3. TypeOK /\ IndexOrder /\ OneElector(l) => CommittedByMajority
  BY TwoAreMost
<1> QED BY <1>1, <1>2, <1>3, TypeCorrect, IndexOrderHolds, PTL DEF Spec
====
