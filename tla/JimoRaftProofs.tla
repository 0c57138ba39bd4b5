---- MODULE JimoRaftProofs ----
EXTENDS JimoRaft, FiniteSetTheorems, SequenceTheorems, TLAPS

(* A non-empty set of naturals has a least element, which Min is.          *)
LEMMA MinOf ==
  ASSUME NEW S \in SUBSET Nat, S # {}
  PROVE  Min(S) \in S /\ \A y \in S : Min(S) <= y
<1> DEFINE C == {S \cap (0..k) : k \in S}
           R == StrictSubsetOrdering(S)
<1>1. C \subseteq FiniteSubsetsOf(S) /\ C # {}
  <2>1. ASSUME NEW k \in S PROVE IsFiniteSet(S \cap (0..k))
    <3>1. S \cap (0..k) \in SUBSET Nat /\ k \in Nat /\ \A x \in S \cap (0..k) : x <= k
      OBVIOUS
    <3> QED BY <3>1, FS_BoundedSetOfNaturals
  <2> QED BY <2>1 DEF FiniteSubsetsOf
<1>2. PICK X \in C : \A Y \in C : <<Y, X>> \notin R
  <2> HIDE DEF C, R
  <2> QED BY <1>1, FS_StrictSubsetOrderingWellFounded, WFMin DEF R
<1>3. PICK k \in S : X = S \cap (0..k)
  OBVIOUS
<1>4. \A y \in S : k <= y
  <2> SUFFICES ASSUME NEW y \in S, y < k PROVE FALSE
    OBVIOUS
  <2>1. S \cap (0..y) \in C /\ S \cap (0..y) \subseteq X /\ S \cap (0..y) # X
    BY <1>3
  <2> QED BY <1>2, <2>1, <1>3 DEF StrictSubsetOrdering
<1> QED BY <1>4 DEF Min

(* A non-empty set of naturals with an upper bound has a greatest element. *)
LEMMA MaxOf ==
  ASSUME NEW n \in Nat, NEW S \in SUBSET (0..n), S # {}
  PROVE  Max(S) \in S /\ \A y \in S : y <= Max(S)
<1> DEFINE T == {n - y : y \in S}
<1>1. T \in SUBSET Nat /\ T # {}
  <2>1. \A y \in S : y \in 0..n
    OBVIOUS
  <2>2. \A y \in S : n - y \in Nat
    BY <2>1
  <2>3. PICK y \in S : TRUE
    OBVIOUS
  <2> QED BY <2>2, <2>3
<1>2. PICK x \in S : Min(T) = n - x
  <2> HIDE DEF T
  <2>1. Min(T) \in T BY <1>1, MinOf
  <2> QED BY <2>1 DEF T
<1>3. \A y \in S : n - x <= n - y
  <2>1. \A z \in T : Min(T) <= z
    <3> HIDE DEF T
    <3> QED BY <1>1, MinOf
  <2> QED BY <1>2, <2>1
<1>4. x \in S /\ \A y \in S : x >= y
  BY <1>3
<1> QED BY <1>4 DEF Max

LEMMA MinOfTwo ==
  ASSUME NEW a \in Nat, NEW b \in Nat
  PROVE  Min({a, b}) = IF a <= b THEN a ELSE b
<1>1. {a, b} \in SUBSET Nat /\ {a, b} # {}
  OBVIOUS
<1>2. Min({a, b}) \in {a, b} /\ \A y \in {a, b} : Min({a, b}) <= y
  BY <1>1, MinOf
<1> QED BY <1>2

LEMMA MaxOfTwo ==
  ASSUME NEW a \in Nat, NEW b \in Nat
  PROVE  Max({a, b}) = IF a <= b THEN b ELSE a
<1>1. a + b \in Nat /\ {a, b} \in SUBSET (0..a + b) /\ {a, b} # {}
  OBVIOUS
<1>2. Max({a, b}) \in {a, b} /\ \A y \in {a, b} : y <= Max({a, b})
  BY <1>1, MaxOf
<1> QED BY <1>2

LEMMA HalfNat == Half \in Nat
BY ServerAssumption, FS_CardinalityType DEF Half

LEMMA IncNat == ASSUME NEW c \in Nat PROVE Inc(c) \in Nat
BY HalfNat DEF Inc

LEMMA InitTypeOK == Init => TypeOK
BY ServerAssumption, LimitAssumption DEF Init, TypeOK, RoleType, VoteType, LogType, PeerType, DataType,
   Role, MainPc, DataPc, Message

(* What handleMsg starts from has the type of what it replaces.            *)
LEMMA StepDownTypes ==
  ASSUME TypeOK, NEW s \in Server, NEW m \in Message
  PROVE  /\ RoleFor(s, m) \in Role /\ TermFor(s, m) \in Nat
         /\ VotedForFor(s, m) \in Server \cup {Nil} /\ VotedForTermIdFor(s, m) \in Nat
         /\ LeaderIdFor(s, m) \in Server \cup {Nil}
         /\ m.term \in Nat /\ m.from \in Server
BY DEF TypeOK, RoleType, VoteType, RoleFor, TermFor, VotedForFor, VotedForTermIdFor, LeaderIdFor,
   Role, Message, VoteReq, VoteRsp, Heartbeat, AppendReq, AppendRsp

---------------------------------------------------------------------------
(* What the helpers build has its type.                                    *)

LEMMA VoteRspType ==
  ASSUME RoleType', VoteType', NEW s \in Server, NEW m \in Message, NEW ok \in BOOLEAN
  PROVE  VoteRspTo(s, m, ok) \in Message
BY DEF VoteRspTo, RoleType, VoteType, Message, VoteReq, VoteRsp, Heartbeat, AppendReq, AppendRsp

LEMMA AppendRspType ==
  ASSUME RoleType', LogType', NEW s \in Server, NEW m \in Message, NEW ok \in BOOLEAN
  PROVE  AppendRspTo(s, m, ok) \in Message
BY DEF AppendRspTo, RoleType, LogType, Message, VoteReq, VoteRsp, Heartbeat, AppendReq, AppendRsp

LEMMA LastLogTermType ==
  ASSUME LogType, NEW s \in Server
  PROVE  LastLogId(s) \in Nat /\ LastLogTerm(s) \in Nat /\ LastLogId(s) = Len(mLogQueue[s])
<1>1. LastLogId(s) \in Nat
  BY DEF LogType, LastLogId
<1>2. ASSUME LastLogId(s) >= 1 PROVE mLogQueue[s][LastLogId(s)] \in Entry
  BY <1>1, <1>2 DEF LogType, LastLogId
<1> QED BY <1>1, <1>2 DEF LastLogTerm, LastLogId, Entry

LEMMA PrevLogTermType ==
  ASSUME LogType, NEW s \in Server, NEW logId \in Nat, logId <= LastLogId(s) + 1
  PROVE  PrevLogTerm(s, logId) \in Nat
<1>1. ASSUME logId > 1 PROVE mLogQueue[s][logId - 1] \in Entry
  BY <1>1, LastLogTermType DEF LogType, LastLogId
<1> QED BY <1>1 DEF PrevLogTerm, Entry

LEMMA RequestType ==
  ASSUME RoleType, LogType', NEW s \in Server, NEW p \in Server, NEW first \in Nat \ {0},
         NEW prev \in Nat, NEW logs \in Seq(Entry)
  PROVE  Request(s, p, first, prev, logs) \in Message
BY DEF Request, RoleType, LogType, Message, AppendReq

LEMMA HeartbeatType ==
  ASSUME RoleType, LogType', NEW s \in Server, NEW p \in Server, NEW prev \in Nat
  PROVE  Request(s, p, 0, prev, <<>>) \in Message
BY DEF Request, RoleType, LogType, Message, Heartbeat

(* A message has the fields of its kind.                                   *)
LEMMA MessageKinds ==
  ASSUME NEW m \in Message
  PROVE  /\ m.type = "VoteReq" => m \in VoteReq
         /\ m.type = "VoteRsp" => m \in VoteRsp
         /\ m.type = "AppendEntryReq" => m \in Heartbeat \cup AppendReq
         /\ m.type = "AppendEntryRsp" => m \in AppendRsp
BY DEF Message, VoteReq, VoteRsp, Heartbeat, AppendReq, AppendRsp

---------------------------------------------------------------------------
(* Each step of the main thread keeps the types.                           *)

LEMMA FollowerMainType ==
  ASSUME TypeOK, NEW s \in Server,
         \/ MainSwitch(s)
         \/ FollowerInit(s) \/ FollowerNextRound(s) \/ FollowerTimeout(s) \/ FollowerStartElection(s)
  PROVE  TypeOK'
<1> USE DEF TypeOK, voteVars, logVars, peerVars, dataVars, mainVars
<1>1. ASSUME FollowerInit(s) PROVE RoleType' /\ VoteType' /\ UNCHANGED <<logVars, peerVars, dataVars, net>>
  BY <1>1 DEF FollowerInit, InitVote, RoleType, VoteType, MainPc
<1>2. ASSUME FollowerNextRound(s) PROVE RoleType' /\ VoteType' /\ UNCHANGED <<logVars, peerVars, dataVars, net>>
  BY <1>2 DEF FollowerNextRound, RoleType, VoteType
<1>3. ASSUME FollowerTimeout(s) PROVE RoleType' /\ VoteType' /\ UNCHANGED <<logVars, peerVars, dataVars, net>>
  BY <1>3 DEF FollowerTimeout, RoleType, VoteType, MainPc
<1>4. ASSUME FollowerStartElection(s) PROVE RoleType' /\ VoteType' /\ UNCHANGED <<logVars, peerVars, dataVars, net>>
  BY <1>4 DEF FollowerStartElection, RoleType, VoteType, MainPc, Role
<1>5. ASSUME MainSwitch(s) PROVE RoleType' /\ VoteType' /\ UNCHANGED <<logVars, peerVars, dataVars, net>>
  BY <1>5 DEF MainSwitch, RoleType, VoteType, MainPc
<1>6. RoleType' /\ VoteType' /\ UNCHANGED <<logVars, peerVars, dataVars, net>>
  BY <1>1, <1>2, <1>3, <1>4, <1>5
<1> QED BY <1>6 DEF LogType, PeerType, DataType

LEMMA CandidateMainType ==
  ASSUME TypeOK, NEW s \in Server,
         CandidateInit(s) \/ CandidateRound(s) \/ CandidateVote(s) \/ CandidateWake(s)
  PROVE  TypeOK'
<1> USE DEF TypeOK, voteVars, logVars, peerVars, dataVars, mainVars
<1>1. ASSUME CandidateInit(s) PROVE RoleType' /\ VoteType' /\ UNCHANGED <<logVars, peerVars, dataVars, net>>
  BY <1>1 DEF CandidateInit, InitVote, RoleType, VoteType, MainPc, Role
<1>2. ASSUME CandidateRound(s) PROVE RoleType' /\ VoteType' /\ UNCHANGED <<logVars, peerVars, dataVars, net>>
  BY <1>2 DEF CandidateRound, RoleType, VoteType, MainPc
<1>3. ASSUME CandidateVote(s)
      PROVE  RoleType' /\ VoteType' /\ UNCHANGED <<logVars, peerVars, dataVars>> /\ net' \subseteq Message
  <2>1. RoleType' /\ VoteType' /\ UNCHANGED <<logVars, peerVars, dataVars>>
    BY <1>3 DEF CandidateVote, RoleType, VoteType, MainPc
  <2>2. \A p \in Peers(s) : VoteReqTo(s, p) \in Message
    BY LastLogTermType DEF VoteReqTo, Peers, RoleType, Message, VoteReq
  <2> QED BY <1>3, <2>1, <2>2 DEF CandidateVote, Send
<1>4. ASSUME CandidateWake(s) PROVE RoleType' /\ VoteType' /\ UNCHANGED <<logVars, peerVars, dataVars, net>>
  BY <1>4 DEF CandidateWake, RoleType, VoteType, MainPc
<1>5. RoleType' /\ VoteType' /\ UNCHANGED <<logVars, peerVars, dataVars>> /\ net' \subseteq Message
  BY <1>1, <1>2, <1>3, <1>4
<1> QED BY <1>5 DEF LogType, PeerType, DataType

LEMMA LeaderMainType ==
  ASSUME TypeOK, NEW s \in Server, LeaderInit(s) \/ LeaderBeat(s) \/ LeaderWake(s)
  PROVE  TypeOK'
<1> USE DEF TypeOK, voteVars, logVars, peerVars, dataVars, mainVars
<1>1. ASSUME LeaderInit(s)
      PROVE  RoleType' /\ VoteType' /\ PeerType' /\ UNCHANGED <<logVars, dataVars, net>>
  <2>1. RoleType' /\ VoteType' /\ UNCHANGED <<logVars, dataVars, net>>
    BY <1>1 DEF LeaderInit, InitVote, RoleType, VoteType, MainPc
  <2>2. [p \in Server |-> 0] \in [Server -> Nat] /\ [p \in Server |-> LastLogId(s) + 1] \in [Server -> Nat]
    BY LastLogTermType
  <2>3. PeerType'
    BY <1>1, <2>2 DEF LeaderInit, PeerType
  <2> QED BY <2>1, <2>3
<1>2. ASSUME LeaderBeat(s)
      PROVE  RoleType' /\ VoteType' /\ PeerType' /\ UNCHANGED <<logVars, dataVars>> /\ net' \subseteq Message
  <2>1. RoleType' /\ VoteType' /\ PeerType' /\ UNCHANGED <<logVars, dataVars>>
    BY <1>2 DEF LeaderBeat, RoleType, VoteType, PeerType, MainPc
  <2>2. PrevLogTerm(s, LastLogId(s)) \in Nat
    BY LastLogTermType, PrevLogTermType
  <2>3. LogType'
    BY <2>1 DEF LogType
  <2>4. \A p \in Peers(s) : Request(s, p, 0, PrevLogTerm(s, LastLogId(s)), <<>>) \in Message
    <3> SUFFICES ASSUME NEW p \in Peers(s)
                 PROVE  Request(s, p, 0, PrevLogTerm(s, LastLogId(s)), <<>>) \in Message
      OBVIOUS
    <3>1. p \in Server 
      BY DEF Peers
    <3> HIDE DEF TypeOK
    <3> QED BY <2>2, <2>3, <3>1, HeartbeatType DEF TypeOK
  <2> QED BY <1>2, <2>1, <2>4 DEF LeaderBeat, Send
<1>3. ASSUME LeaderWake(s)
      PROVE  RoleType' /\ VoteType' /\ PeerType' /\ UNCHANGED <<logVars, dataVars, net>>
  BY <1>3 DEF LeaderWake, RoleType, VoteType, PeerType, MainPc
<1>4. RoleType' /\ VoteType' /\ PeerType' /\ UNCHANGED <<logVars, dataVars>> /\ net' \subseteq Message
  BY <1>1, <1>2, <1>3
<1> QED BY <1>4 DEF LogType, DataType

---------------------------------------------------------------------------
(* The log a follower's handler builds.                                    *)

LEMMA RequestFields ==
  ASSUME NEW m \in Heartbeat \cup AppendReq
  PROVE  /\ m.logs \in Seq(Entry) /\ Len(m.logs) \in Nat /\ DOMAIN m.logs = 1..Len(m.logs)
         /\ m.firstLogId \in Nat /\ m.commit \in Nat /\ m.term \in Nat /\ m.from \in Server
         /\ m.firstLogId = 0 => Len(m.logs) = 0
<1>1. CASE m \in Heartbeat
  <2>1. m.logs = <<>> /\ m.firstLogId = 0 /\ m.commit \in Nat /\ m.term \in Nat /\ m.from \in Server
    BY <1>1 DEF Heartbeat
  <2>2. <<>> \in Seq(Entry) /\ Len(<<>>) = 0 /\ DOMAIN <<>> = 1..0
    BY EmptySeq, LenProperties
  <2> QED BY <2>1, <2>2
<1>2. CASE m \in AppendReq
  <2>1. m.logs \in Seq(Entry) /\ m.firstLogId \in Nat \ {0} /\ m.commit \in Nat /\ m.term \in Nat /\ m.from \in Server
    BY <1>2 DEF AppendReq
  <2> QED BY <2>1, LenProperties
<1> QED BY <1>1, <1>2

(* The position of the first new entry, and how many entries stay.         *)
LEMMA KeptEntries ==
  ASSUME LogType, NEW s \in Server, NEW m \in Heartbeat \cup AppendReq, ~OutOfOrder(s, m)
  PROVE  /\ FirstNew(s, m) \in 1..Len(m.logs) + 1
         /\ Kept(s, m) \in 0..LastLogId(s)
         /\ m.firstLogId = 0 => Kept(s, m) = LastLogId(s)
         /\ m.firstLogId > 0 => Kept(s, m) >= m.firstLogId - 1
<1> DEFINE New == {i \in DOMAIN m.logs :
                     \/ m.firstLogId + i - 1 > LastLogId(s)
                     \/ mLogQueue[s][m.firstLogId + i - 1].term # m.logs[i].term}
           S == {Len(m.logs) + 1} \cup New
<1>1. m.logs \in Seq(Entry) /\ Len(m.logs) \in Nat /\ DOMAIN m.logs = 1..Len(m.logs) /\ m.firstLogId \in Nat
  BY RequestFields
<1>2. LastLogId(s) \in Nat /\ (m.firstLogId > 0 => m.firstLogId <= LastLogId(s) + 1)
  BY <1>1, LastLogTermType DEF OutOfOrder
<1>3. S \in SUBSET Nat /\ S # {} /\ S \subseteq 1..Len(m.logs) + 1
  BY <1>1
<1>4. FirstNew(s, m) \in S /\ \A i \in S : FirstNew(s, m) <= i
  <2> HIDE DEF S
  <2>1. Min(S) \in S /\ \A i \in S : Min(S) <= i
    BY <1>3, MinOf
  <2> QED BY <2>1 DEF S, FirstNew
<1>5. FirstNew(s, m) \in 1..Len(m.logs) + 1
  BY <1>3, <1>4
<1>6. m.firstLogId = 0 => FirstNew(s, m) > Len(m.logs)
  BY <1>5, RequestFields
<1>7. ASSUME FirstNew(s, m) <= Len(m.logs), FirstNew(s, m) # 1
      PROVE  m.firstLogId + FirstNew(s, m) - 2 <= LastLogId(s)
  <2>1. FirstNew(s, m) - 1 \notin New
    <3>1. FirstNew(s, m) - 1 \notin S
      <4> HIDE DEF S
      <4> QED BY <1>4, <1>5
    <3> QED BY <3>1
  <2>2. FirstNew(s, m) - 1 \in DOMAIN m.logs
    BY <1>1, <1>5, <1>7
  <2>3. ~(m.firstLogId + (FirstNew(s, m) - 1) - 1 > LastLogId(s))
    BY <2>1, <2>2
  <2> QED BY <2>3, <1>1, <1>2, <1>5
<1> HIDE DEF S, New
<1>8. CASE FirstNew(s, m) > Len(m.logs)
  BY <1>1, <1>2, <1>5, <1>8 DEF Kept
<1>9. CASE FirstNew(s, m) <= Len(m.logs)
  BY <1>1, <1>2, <1>5, <1>6, <1>7, <1>9 DEF Kept
<1> QED BY <1>1, <1>5, <1>8, <1>9

LEMMA AppendedEntries ==
  ASSUME LogType, NEW s \in Server, NEW m \in Heartbeat \cup AppendReq, ~OutOfOrder(s, m)
  PROVE  /\ Appended(s, m) \in Seq(Entry)
         /\ Len(Appended(s, m)) = Kept(s, m) + Len(m.logs) - FirstNew(s, m) + 1
         /\ \A i \in 1..Kept(s, m) : Appended(s, m)[i] = mLogQueue[s][i]
<1> DEFINE old == SubSeq(mLogQueue[s], 1, Kept(s, m))
           new == SubSeq(m.logs, FirstNew(s, m), Len(m.logs))
<1>1. m.logs \in Seq(Entry) /\ Len(m.logs) \in Nat /\ mLogQueue[s] \in Seq(Entry)
  BY RequestFields DEF LogType
<1>2. Kept(s, m) \in Nat /\ Kept(s, m) <= Len(mLogQueue[s]) /\ FirstNew(s, m) \in 1..Len(m.logs) + 1
  BY KeptEntries, LastLogTermType DEF LastLogId
<1>3. \A i \in 1..Kept(s, m) : mLogQueue[s][i] \in Entry
  BY <1>1, <1>2, ElementOfSeq
<1>4. \A i \in FirstNew(s, m)..Len(m.logs) : m.logs[i] \in Entry
  BY <1>1, <1>2, ElementOfSeq
<1>5. /\ old \in Seq(Entry) /\ Len(old) = Kept(s, m)
      /\ \A i \in 1..Kept(s, m) : old[i] = mLogQueue[s][i]
  BY <1>2, <1>3, SubSeqProperties
<1>6. new \in Seq(Entry) /\ Len(new) = Len(m.logs) - FirstNew(s, m) + 1
  BY <1>1, <1>2, <1>4, SubSeqProperties
<1> HIDE DEF old, new
<1>7. /\ old \o new \in Seq(Entry)
      /\ Len(old \o new) = Len(old) + Len(new)
      /\ \A i \in 1..Len(old) + Len(new) : (old \o new)[i] = IF i <= Len(old) THEN old[i] ELSE new[i - Len(old)]
  BY <1>5, <1>6, ConcatProperties
<1>8. Appended(s, m) = old \o new
  BY DEF Appended, old, new
<1> QED BY <1>1, <1>2, <1>5, <1>6, <1>7, <1>8

(* The log of s is a sequence of entries of which at least the first kept  *)
(* are those it had.                                                       *)
NewLog(s, new, kept) ==
  /\ new \in Seq(Entry)
  /\ kept \in 0..LastLogId(s) /\ kept <= Len(new)
  /\ \A i \in 1..kept : new[i] = mLogQueue[s][i]

LEMMA PrefixIsNewLog ==
  ASSUME LogType, NEW s \in Server, NEW kept \in 0..LastLogId(s)
  PROVE  NewLog(s, SubSeq(mLogQueue[s], 1, kept), kept) /\ Len(SubSeq(mLogQueue[s], 1, kept)) = kept
<1>1. mLogQueue[s] \in Seq(Entry) /\ LastLogId(s) = Len(mLogQueue[s]) /\ LastLogId(s) \in Nat
  BY LastLogTermType DEF LogType
<1>2. kept \in Int /\ \A i \in 1..kept : mLogQueue[s][i] \in Entry
  BY <1>1, ElementOfSeq
<1> QED BY <1>1, <1>2, SubSeqProperties DEF NewLog

LEMMA SetLogType ==
  ASSUME LogType, NEW s \in Server, NEW new, NEW kept, NewLog(s, new, kept), SetLog(s, new, kept),
         mCommitIndex' \in [Server -> Nat], mLastLogIdApplied' \in [Server -> Nat]
  PROVE  LogType'
<1> DEFINE counts == [i \in 1..Len(new) |-> IF i <= kept THEN mServerRecved[s][i] ELSE 0]
<1>1. new \in Seq(Entry) /\ Len(new) \in Nat /\ kept \in Nat /\ kept <= Len(mServerRecved[s])
      /\ mServerRecved[s] \in Seq(Nat)
  BY LastLogTermType DEF NewLog, LogType
<1>2. \A i \in 1..kept : mServerRecved[s][i] \in Nat
  BY <1>1, ElementOfSeq
<1>3. counts \in [1..Len(new) -> Nat]
  BY <1>1, <1>2
<1>4. counts \in Seq(Nat) /\ Len(counts) = Len(new)
  BY <1>1, <1>3, SeqDef
<1> HIDE DEF counts
<1>5. mServerRecved' = [mServerRecved EXCEPT ![s] = counts] /\ mLogQueue' = [mLogQueue EXCEPT ![s] = new]
  BY DEF SetLog, counts
<1> QED BY <1>1, <1>4, <1>5 DEF LogType

---------------------------------------------------------------------------
(* How a step may change the log and the indexes of a server.              *)

LogGrowth(s) ==
  /\ mCommitIndex[s] <= mCommitIndex'[s] /\ mCommitIndex'[s] <= Len(mLogQueue'[s])
  /\ mLastLogIdApplied[s] <= mLastLogIdApplied'[s] /\ mLastLogIdApplied'[s] <= mCommitIndex'[s]
  /\ \A i \in 1..mCommitIndex[s] : mLogQueue'[s][i] = mLogQueue[s][i]
  /\ Len(mLogQueue'[s]) <= Room(s) \/ Len(mLogQueue'[s]) <= LastLogId(s)

LogGrowths == \A s \in Server : LogGrowth(s)

LEMMA SameLogGrowth ==
  ASSUME LogType, IndexOrder, UNCHANGED <<mLogQueue, mCommitIndex, mLastLogIdApplied>>
  PROVE  LogGrowths
BY LastLogTermType DEF LogGrowths, LogGrowth, IndexOrder, LogType

LEMMA SetLogGrowth ==
  ASSUME LogType, IndexOrder, NEW s \in Server,
         NEW new, NEW kept, NewLog(s, new, kept), mCommitIndex[s] <= kept,
         Len(new) <= Room(s) \/ Len(new) <= LastLogId(s),
         NEW c \in mCommitIndex[s]..Len(new), NEW a \in mLastLogIdApplied[s]..c,
         mLogQueue' = [mLogQueue EXCEPT ![s] = new],
         mCommitIndex' = [mCommitIndex EXCEPT ![s] = c],
         mLastLogIdApplied' = [mLastLogIdApplied EXCEPT ![s] = a]
  PROVE  LogGrowths
<1> SUFFICES ASSUME NEW p \in Server PROVE LogGrowth(p)
  BY DEF LogGrowths
<1>1. CASE p # s
  BY <1>1, LastLogTermType DEF LogGrowth, IndexOrder, LogType
<1>2. CASE p = s
  <2>1. \A i \in 1..mCommitIndex[s] : i \in 1..kept
    BY DEF NewLog, LogType
  <2>2. \A i \in 1..mCommitIndex[s] : new[i] = mLogQueue[s][i]
    BY <2>1 DEF NewLog
  <2>3. Len(new) \in Nat
    BY DEF NewLog
  <2> QED BY <1>2, <2>2, <2>3 DEF LogGrowth, IndexOrder, LogType
<1> QED BY <1>1, <1>2

(* applyCommittedLogs applies up to the commit index.                      *)
LEMMA AppliedIndex ==
  ASSUME LogType, IndexOrder, NEW s \in Server, NEW c \in Nat, mCommitIndex[s] <= c,
         mCommitIndex' = [mCommitIndex EXCEPT ![s] = c], ApplyCommittedLogs(s)
  PROVE  mLastLogIdApplied' = [mLastLogIdApplied EXCEPT ![s] = c] /\ mLastLogIdApplied[s] <= c
<1>1. mCommitIndex'[s] = c /\ mLastLogIdApplied[s] \in Nat /\ mLastLogIdApplied[s] <= c
  BY DEF LogType, IndexOrder
<1>2. Max({mLastLogIdApplied[s], c}) = c
  BY <1>1, MaxOfTwo
<1> QED BY <1>1, <1>2 DEF ApplyCommittedLogs

LEMMA AppliedType ==
  ASSUME LogType, NEW s \in Server, mCommitIndex' \in [Server -> Nat], ApplyCommittedLogs(s)
  PROVE  mLastLogIdApplied' \in [Server -> Nat]
<1>1. Max({mLastLogIdApplied[s], mCommitIndex'[s]}) \in Nat
  <2>1. mLastLogIdApplied[s] \in Nat /\ mCommitIndex'[s] \in Nat
    BY DEF LogType
  <2> QED BY <2>1, MaxOfTwo
<1> QED BY <1>1 DEF ApplyCommittedLogs, LogType

---------------------------------------------------------------------------
(* The requests of a leader: what a follower's handler does to its log.    *)

LEMMA ConflictKept ==
  ASSUME LogType, NEW s \in Server, NEW m \in Heartbeat \cup AppendReq, PrevConflicts(s, m)
  PROVE  /\ KeptOnConflict(s, m) \in 0..LastLogId(s)
         /\ mCommitIndex[s] <= LastLogId(s) => mCommitIndex[s] <= KeptOnConflict(s, m)
<1>1. m.firstLogId \in Nat /\ LastLogId(s) \in Nat /\ mCommitIndex[s] \in Nat
  BY RequestFields, LastLogTermType DEF LogType
<1>2. m.firstLogId > 1 /\ m.firstLogId <= LastLogId(s) + 1
  BY <1>1 DEF PrevConflicts, OutOfOrder
<1> QED BY <1>1, <1>2 DEF KeptOnConflict

LEMMA CommitKept ==
  ASSUME LogType, NEW s \in Server, NEW m \in Heartbeat \cup AppendReq, ~OutOfOrder(s, m),
         mCommitIndex[s] <= LastLogId(s)
  PROVE  mCommitIndex[s] <= Kept(s, m)
BY KeptEntries, RequestFields, LastLogTermType DEF LogType, OutOfOrder

(* What a follower takes of the entries when there is no room for all.     *)
LEMMA RefusedNewLog ==
  ASSUME LogType, NEW s \in Server, NEW m \in Heartbeat \cup AppendReq, ~OutOfOrder(s, m), Refused(s, m)
  PROVE  LET new == SubSeq(Appended(s, m), 1, Max({Kept(s, m), Room(s)}))
         IN  /\ NewLog(s, new, Kept(s, m))
             /\ Len(new) <= Room(s) \/ Len(new) <= LastLogId(s)
<1> DEFINE n == Max({Kept(s, m), Room(s)})
           new == SubSeq(Appended(s, m), 1, n)
<1>1. Kept(s, m) \in 0..LastLogId(s) /\ LastLogId(s) \in Nat /\ FirstNew(s, m) \in 1..Len(m.logs) + 1
  BY KeptEntries, LastLogTermType
<1>2. Room(s) \in Nat
  BY LimitAssumption DEF Room, LogType
<1>3. n \in {Kept(s, m), Room(s)} /\ n >= Kept(s, m) /\ n \in Nat
  BY <1>1, <1>2, MaxOfTwo
<1>4. /\ Appended(s, m) \in Seq(Entry)
      /\ Len(Appended(s, m)) = Kept(s, m) + Len(m.logs) - FirstNew(s, m) + 1
      /\ \A i \in 1..Kept(s, m) : Appended(s, m)[i] = mLogQueue[s][i]
  BY AppendedEntries
<1>5. n <= Len(Appended(s, m))
  BY <1>1, <1>2, <1>3, <1>4, RequestFields DEF Refused
<1>6. \A i \in 1..n : Appended(s, m)[i] \in Entry
  BY <1>3, <1>4, <1>5, ElementOfSeq
<1> HIDE DEF n
<1>7. new \in Seq(Entry) /\ Len(new) = n /\ \A i \in 1..n : new[i] = Appended(s, m)[i]
  BY <1>3, <1>6, SubSeqProperties
<1> HIDE DEF new
<1>8. \A i \in 1..Kept(s, m) : new[i] = mLogQueue[s][i]
  <2> SUFFICES ASSUME NEW i \in 1..Kept(s, m) PROVE new[i] = mLogQueue[s][i]
    OBVIOUS
  <2>1. i \in 1..n
    BY <1>1, <1>3
  <2> QED BY <2>1, <1>4, <1>7
<1>9. Len(new) <= Room(s) \/ Len(new) <= LastLogId(s)
  BY <1>1, <1>3, <1>7
<1>10. NewLog(s, new, Kept(s, m))
  BY <1>1, <1>3, <1>7, <1>8 DEF NewLog
<1> QED BY <1>9, <1>10 DEF new, n

LEMMA AcceptedNewLog ==
  ASSUME LogType, NEW s \in Server, NEW m \in Heartbeat \cup AppendReq, ~OutOfOrder(s, m), ~Refused(s, m)
  PROVE  /\ NewLog(s, Appended(s, m), Kept(s, m))
         /\ Len(Appended(s, m)) <= Room(s) \/ Len(Appended(s, m)) <= LastLogId(s)
<1>1. Kept(s, m) \in 0..LastLogId(s) /\ LastLogId(s) \in Nat /\ FirstNew(s, m) \in 1..Len(m.logs) + 1
  BY KeptEntries, LastLogTermType
<1>2. /\ Appended(s, m) \in Seq(Entry)
      /\ Len(Appended(s, m)) = Kept(s, m) + Len(m.logs) - FirstNew(s, m) + 1
      /\ \A i \in 1..Kept(s, m) : Appended(s, m)[i] = mLogQueue[s][i]
  BY AppendedEntries
<1>3. Room(s) \in Nat
  BY LimitAssumption DEF Room, LogType
<1> QED BY <1>1, <1>2, <1>3, RequestFields DEF NewLog, Refused

LEMMA FollowerRequestLog ==
  ASSUME TypeOK, NEW s \in Server, NEW m \in net, FollowerHandleAppendEntryReq(s, m)
  PROVE  LogType' /\ (IndexOrder => LogGrowths)
<1>0. LogType /\ m \in Heartbeat \cup AppendReq /\ mCommitIndex \in [Server -> Nat]
      /\ mLastLogIdApplied \in [Server -> Nat] /\ LastLogId(s) \in Nat
  BY MessageKinds, LastLogTermType DEF TypeOK, FollowerHandleAppendEntryReq, LogType
<1>1. CASE UNCHANGED logVars
  BY <1>0, <1>1, SameLogGrowth DEF logVars, LogType
<1>2. CASE /\ PrevConflicts(s, m)
           /\ SetLog(s, SubSeq(mLogQueue[s], 1, KeptOnConflict(s, m)), KeptOnConflict(s, m))
           /\ UNCHANGED <<mCommitIndex, mLastLogIdApplied>>
  <2> DEFINE kept == KeptOnConflict(s, m)
             new == SubSeq(mLogQueue[s], 1, kept)
  <2>1. kept \in 0..LastLogId(s) /\ NewLog(s, new, kept) /\ Len(new) = kept
    BY <1>0, <1>2, ConflictKept, PrefixIsNewLog
  <2>2. LogType'
    BY <1>0, <1>2, <2>1, SetLogType
  <2>3. ASSUME IndexOrder PROVE LogGrowths
    <3>1. mCommitIndex[s] <= kept
      BY <1>0, <1>2, <2>3, ConflictKept DEF IndexOrder
    <3>2. mCommitIndex[s] \in mCommitIndex[s]..Len(new) /\ mLastLogIdApplied[s] \in mLastLogIdApplied[s]..mCommitIndex[s]
      BY <1>0, <2>1, <2>3, <3>1 DEF IndexOrder
    <3>3. /\ mLogQueue' = [mLogQueue EXCEPT ![s] = new]
          /\ mCommitIndex' = [mCommitIndex EXCEPT ![s] = mCommitIndex[s]]
          /\ mLastLogIdApplied' = [mLastLogIdApplied EXCEPT ![s] = mLastLogIdApplied[s]]
      BY <1>0, <1>2 DEF SetLog
    <3>4. Len(new) <= Room(s) \/ Len(new) <= LastLogId(s)
      BY <1>0, <2>1
    <3> HIDE DEF new, kept
    <3> QED BY <1>0, <2>1, <2>3, <3>1, <3>2, <3>3, <3>4, SetLogGrowth
  <2> QED BY <2>2, <2>3
<1>3. CASE /\ ~OutOfOrder(s, m) /\ Refused(s, m)
           /\ SetLog(s, SubSeq(Appended(s, m), 1, Max({Kept(s, m), Room(s)})), Kept(s, m))
           /\ UNCHANGED <<mCommitIndex, mLastLogIdApplied>>
  <2> DEFINE kept == Kept(s, m)
             new == SubSeq(Appended(s, m), 1, Max({Kept(s, m), Room(s)}))
  <2>1. NewLog(s, new, kept) /\ (Len(new) <= Room(s) \/ Len(new) <= LastLogId(s))
    BY <1>0, <1>3, RefusedNewLog
  <2>2. LogType'
    BY <1>0, <1>3, <2>1, SetLogType
  <2>3. ASSUME IndexOrder PROVE LogGrowths
    <3>1. mCommitIndex[s] <= kept
      BY <1>0, <1>3, <2>3, CommitKept DEF IndexOrder
    <3>2. mCommitIndex[s] \in mCommitIndex[s]..Len(new) /\ mLastLogIdApplied[s] \in mLastLogIdApplied[s]..mCommitIndex[s]
      BY <1>0, <2>1, <2>3, <3>1 DEF IndexOrder, NewLog
    <3>3. /\ mLogQueue' = [mLogQueue EXCEPT ![s] = new]
          /\ mCommitIndex' = [mCommitIndex EXCEPT ![s] = mCommitIndex[s]]
          /\ mLastLogIdApplied' = [mLastLogIdApplied EXCEPT ![s] = mLastLogIdApplied[s]]
      BY <1>0, <1>3 DEF SetLog
    <3> HIDE DEF new, kept
    <3> QED BY <1>0, <2>1, <2>3, <3>1, <3>2, <3>3, SetLogGrowth
  <2> QED BY <2>2, <2>3
<1>4. CASE /\ ~OutOfOrder(s, m) /\ ~Refused(s, m)
           /\ SetLog(s, Appended(s, m), Kept(s, m))
           /\ mCommitIndex' = [mCommitIndex EXCEPT ![s] =
                                 IF @ < m.commit THEN Min({Len(mLogQueue'[s]), m.commit}) ELSE @]
           /\ ApplyCommittedLogs(s)
  <2> DEFINE kept == Kept(s, m)
             new == Appended(s, m)
             c == IF mCommitIndex[s] < m.commit THEN Min({Len(new), m.commit}) ELSE mCommitIndex[s]
  <2>1. NewLog(s, new, kept) /\ (Len(new) <= Room(s) \/ Len(new) <= LastLogId(s))
    BY <1>0, <1>4, AcceptedNewLog
  <2>2. /\ mLogQueue' = [mLogQueue EXCEPT ![s] = new]
        /\ mCommitIndex' = [mCommitIndex EXCEPT ![s] = c]
    BY <1>0, <1>4 DEF SetLog, LogType
  <2>3. m.commit \in Nat /\ Len(new) \in Nat /\ mCommitIndex[s] \in Nat
    BY <1>0, <2>1, RequestFields DEF NewLog
  <2>4. c \in Nat /\ (mCommitIndex[s] < m.commit => c = IF Len(new) <= m.commit THEN Len(new) ELSE m.commit)
    BY <2>3, MinOfTwo
  <2> HIDE DEF c, new, kept
  <2>5. mCommitIndex' \in [Server -> Nat]
    BY <1>0, <2>2, <2>4
  <2>6. LogType'
    <3>1. mLastLogIdApplied' \in [Server -> Nat]
      BY <1>0, <1>4, <2>5, AppliedType
    <3> QED BY <1>0, <1>4, <2>1, <2>5, <3>1, SetLogType DEF new, kept
  <2>7. ASSUME IndexOrder PROVE LogGrowths
    <3>1. mCommitIndex[s] <= kept /\ kept <= Len(new) /\ kept \in Nat
      BY <1>0, <1>4, <2>1, <2>7, CommitKept DEF IndexOrder, NewLog, kept
    <3>2. c \in mCommitIndex[s]..Len(new)
      BY <2>3, <2>4, <3>1 DEF c
    <3>3. mLastLogIdApplied' = [mLastLogIdApplied EXCEPT ![s] = c] /\ c \in mLastLogIdApplied[s]..c
      <4>1. mCommitIndex[s] <= c /\ mLastLogIdApplied[s] \in Nat
        BY <1>0, <2>3, <3>2
      <4>2. mLastLogIdApplied' = [mLastLogIdApplied EXCEPT ![s] = c] /\ mLastLogIdApplied[s] <= c
        BY <1>0, <1>4, <2>2, <2>4, <2>7, <4>1, AppliedIndex
      <4> QED BY <2>4, <4>1, <4>2
    <3> QED BY <1>0, <2>1, <2>2, <2>7, <3>1, <3>2, <3>3, SetLogGrowth
  <2> QED BY <2>6, <2>7
<1> QED BY <1>1, <1>2, <1>3, <1>4 DEF FollowerHandleAppendEntryReq, logVars

---------------------------------------------------------------------------
(* Each message keeps the types.                                           *)

LEMMA CommonMsgType ==
  ASSUME TypeOK, NEW s \in Server, NEW m \in net, HandleVoteReq(s, m) \/ IgnoreMsg(s, m)
  PROVE  TypeOK'
<1>0. m \in Message BY DEF TypeOK
<1> USE DEF HandleVoteReq, IgnoreMsg
<1>1. RoleType'
  BY <1>0, StepDownTypes DEF RoleType, TypeOK, StepDownTermAndRole, mainVars
<1>2. VoteType'
  <2>1. \/ UNCHANGED granting
        \/ granting' = [granting EXCEPT ![s] = m] /\ m \in VoteReq
    BY <1>0, MessageKinds
  <2>2. granting' \in [Server -> VoteReq \cup {Nil}]
    BY <2>1 DEF VoteType, TypeOK
  <2>3. UNCHANGED mNumVotedForMe
    OBVIOUS
  <2> QED BY <1>0, <2>2, <2>3, StepDownTypes DEF VoteType, TypeOK, StepDownVote
<1>3. LogType' /\ PeerType' /\ DataType'
  BY DEF TypeOK, LogType, PeerType, DataType, logVars, peerVars, dataVars
<1>4. net' \subseteq Message
  <2>1. VoteRspTo(s, m, TRUE) \in Message /\ VoteRspTo(s, m, FALSE) \in Message
    BY <1>0, <1>1, <1>2, VoteRspType
  <2> QED BY <2>1 DEF Send, TypeOK
<1> QED BY <1>1, <1>2, <1>3, <1>4 DEF TypeOK

(* The second half of handleVoteReq: the request it holds names a server,  *)
(* the candidate, and the candidate's term.                                *)
LEMMA GrantVoteType ==
  ASSUME TypeOK, NEW s \in Server, GrantVote(s)
  PROVE  TypeOK' /\ UNCHANGED logVars
<1>1. /\ granting[s] \in VoteReq /\ granting[s] \in Message
      /\ granting[s].from \in Server /\ granting[s].term \in Nat
  BY DEF GrantVote, TypeOK, VoteType, VoteReq, Message
<1>2. RoleType' /\ LogType' /\ PeerType' /\ DataType' /\ UNCHANGED logVars
  BY DEF GrantVote, TypeOK, RoleType, LogType, PeerType, DataType, mainVars, logVars, peerVars, dataVars
<1>3. VoteType'
  BY <1>1 DEF GrantVote, TypeOK, VoteType
<1>4. VoteRspTo(s, granting[s], TRUE) \in Message
  BY <1>1, <1>2, <1>3, VoteRspType
<1>5. net' \subseteq Message
  BY <1>4 DEF GrantVote, Send, TypeOK
<1> QED BY <1>2, <1>3, <1>5 DEF TypeOK

LEMMA FollowerMsgType ==
  ASSUME TypeOK, NEW s \in Server, NEW m \in net, FollowerHandleAppendEntryReq(s, m)
  PROVE  TypeOK'
<1>0. m \in Message /\ m.from \in Server BY StepDownTypes DEF TypeOK
<1>1. RoleType'
  BY <1>0, StepDownTypes DEF FollowerHandleAppendEntryReq, RoleType, TypeOK, StepDownTermAndRole, mainVars
<1>2. VoteType'
  BY <1>0, StepDownTypes DEF FollowerHandleAppendEntryReq, VoteType, TypeOK, StepDownVote
<1>3. LogType'
  BY FollowerRequestLog
<1>4. PeerType' /\ DataType'
  BY DEF FollowerHandleAppendEntryReq, TypeOK, PeerType, DataType, peerVars, dataVars
<1>5. net' \subseteq Message
  <2>1. AppendRspTo(s, m, TRUE) \in Message /\ AppendRspTo(s, m, FALSE) \in Message
    BY <1>0, <1>1, <1>3, AppendRspType
  <2> QED BY <2>1 DEF FollowerHandleAppendEntryReq, Send, TypeOK
<1> QED BY <1>1, <1>2, <1>3, <1>4, <1>5 DEF TypeOK

LEMMA CandidateMsgType ==
  ASSUME TypeOK, NEW s \in Server, NEW m \in net,
         CandidateHandleAppendEntryReq(s, m) \/ CandidateHandleVoteRsp(s, m)
  PROVE  TypeOK'
<1> USE DEF TypeOK, voteVars, logVars, peerVars, dataVars, mainVars
<1>1. ASSUME CandidateHandleAppendEntryReq(s, m)
      PROVE  RoleType' /\ VoteType' /\ UNCHANGED <<logVars, peerVars, dataVars>>
  BY <1>1 DEF CandidateHandleAppendEntryReq, RoleType, VoteType, Role
<1>2. ASSUME CandidateHandleVoteRsp(s, m)
      PROVE  RoleType' /\ VoteType' /\ UNCHANGED <<logVars, peerVars, dataVars>>
  BY <1>2, IncNat DEF CandidateHandleVoteRsp, RoleType, VoteType, Role
<1>3. RoleType' /\ VoteType' /\ LogType' /\ PeerType' /\ DataType'
  BY <1>1, <1>2 DEF LogType, PeerType, DataType
<1>4. net' \subseteq Message
  <2>1. AppendRspTo(s, m, FALSE) \in Message
    BY <1>3, AppendRspType
  <2> QED BY <2>1 DEF CandidateHandleAppendEntryReq, CandidateHandleVoteRsp, Send
<1> QED BY <1>3, <1>4

LEMMA LeaderMsgType ==
  ASSUME TypeOK, NEW s \in Server, NEW m \in net,
         LeaderHandleAppendEntryReq(s, m) \/ LeaderHandleVoteReq(s, m)
  PROVE  TypeOK'
<1> USE DEF TypeOK, voteVars, logVars, peerVars, dataVars, mainVars
<1>1. RoleType' /\ VoteType' /\ LogType' /\ PeerType' /\ DataType'
  BY DEF LeaderHandleAppendEntryReq, LeaderHandleVoteReq, RoleType, VoteType, LogType, PeerType, DataType, Role
<1>2. net' \subseteq Message
  <2>1. AppendRspTo(s, m, FALSE) \in Message /\ VoteRspTo(s, m, FALSE) \in Message
    BY <1>1, AppendRspType, VoteRspType
  <2> QED BY <2>1 DEF LeaderHandleAppendEntryReq, LeaderHandleVoteReq, Send
<1> QED BY <1>1, <1>2

---------------------------------------------------------------------------
(* The answers of followers: what a leader's handler does.                 *)

LEMMA CountReceivedTypes ==
  ASSUME LogType, NEW s \in Server, NEW m \in AppendRsp, CountReceived(s, m)
  PROVE  /\ mServerRecved' \in [Server -> Seq(Nat)]
         /\ \A p \in Server : Len(mServerRecved'[p]) = Len(mServerRecved[p])
         /\ \E c \in mCommitIndex[s]..Max({mCommitIndex[s], LastLogId(s)}) :
              mCommitIndex' = [mCommitIndex EXCEPT ![s] = c]
<1>1. mServerRecved[s] \in [1..Len(mServerRecved[s]) -> Nat] /\ Len(mServerRecved[s]) \in Nat
  BY LenProperties DEF LogType
<1>2. PICK lost : mServerRecved' = [mServerRecved EXCEPT ![s] =
         [i \in DOMAIN @ |-> IF i \in Counted(s, m) \ lost THEN Inc(@[i]) ELSE @[i]]]
  BY DEF CountReceived
<1> DEFINE counts == [i \in DOMAIN mServerRecved[s] |->
                        IF i \in Counted(s, m) \ lost THEN Inc(mServerRecved[s][i]) ELSE mServerRecved[s][i]]
<1>3. counts \in [1..Len(mServerRecved[s]) -> Nat]
  BY <1>1, IncNat
<1>4. counts \in Seq(Nat) /\ Len(counts) = Len(mServerRecved[s])
  BY <1>1, <1>3, SeqDef, LenProperties
<1>5. mServerRecved' = [mServerRecved EXCEPT ![s] = counts]
  BY <1>2 DEF LogType
<1> HIDE DEF counts
<1>6. mServerRecved' \in [Server -> Seq(Nat)] /\ \A p \in Server : Len(mServerRecved'[p]) = Len(mServerRecved[p])
  BY <1>4, <1>5 DEF LogType
<1> DEFINE S == {mCommitIndex[s]} \cup Committable(s, m)
           n == Max({mCommitIndex[s], LastLogId(s)})
<1>7. mCommitIndex[s] \in Nat /\ LastLogId(s) \in Nat
      /\ DOMAIN mLogQueue[s] = 1..LastLogId(s)
  BY LastLogTermType, LenProperties DEF LogType, LastLogId
<1>8. n \in Nat /\ mCommitIndex[s] <= n /\ LastLogId(s) <= n
  BY <1>7, MaxOfTwo
<1> HIDE DEF n
<1>9. S \in SUBSET (0..n) /\ S # {} /\ mCommitIndex[s] \in S
  BY <1>7, <1>8 DEF Committable, Counted
<1> HIDE DEF S
<1>10. Max(S) \in 0..n /\ mCommitIndex[s] <= Max(S)
  BY <1>8, <1>9, MaxOf
<1>11. mCommitIndex' = [mCommitIndex EXCEPT ![s] = Max(S)]
  BY DEF CountReceived, S, LogType
<1>12. Max(S) \in mCommitIndex[s]..n
  BY <1>7, <1>8, <1>10
<1> QED BY <1>6, <1>11, <1>12 DEF n

LEMMA NextRequestsType ==
  ASSUME RoleType, LogType, LogType', PeerType', NEW s \in Server, NEW p \in Server
  PROVE  NextRequests(s, p) \subseteq Message
<1> DEFINE first == mNextToReplicate'[s][p]
           last  == Min({first + RAFT_MAX_LOG_IN_MSG - 1, LastLogId(s)})
<1> SUFFICES ASSUME first \in DOMAIN mLogQueue[s]
             PROVE  Request(s, p, first, PrevLogTerm(s, first), SubSeq(mLogQueue[s], first, last)) \in Message
  BY DEF NextRequests
<1>1. /\ mLogQueue[s] \in Seq(Entry) /\ LastLogId(s) = Len(mLogQueue[s]) /\ LastLogId(s) \in Nat
      /\ first \in 1..LastLogId(s)
  BY LastLogTermType, LenProperties DEF LogType
<1>2. first + RAFT_MAX_LOG_IN_MSG - 1 \in Nat
  BY <1>1, LimitAssumption
<1>3. last \in Nat /\ last <= LastLogId(s)
  BY <1>1, <1>2, MinOfTwo
<1> HIDE DEF first, last
<1>4. PrevLogTerm(s, first) \in Nat
  BY <1>1, PrevLogTermType
<1>5. first \in Int /\ last \in Int /\ \A i \in first..last : mLogQueue[s][i] \in Entry
  BY <1>1, <1>3, ElementOfSeq
<1>6. SubSeq(mLogQueue[s], first, last) \in Seq(Entry)
  BY <1>5, SubSeqProperties
<1>7. first \in Nat \ {0}
  BY <1>1
<1> QED BY <1>4, <1>6, <1>7, RequestType

LEMMA LeaderRspLog ==
  ASSUME TypeOK, NEW s \in Server, NEW m \in net, LeaderHandleAppendEntryRsp(s, m)
  PROVE  LogType' /\ PeerType' /\ (IndexOrder => LogGrowths)
<1>0. /\ LogType /\ PeerType /\ m \in AppendRsp /\ m.from \in Server /\ m.lastLogId \in Nat
      /\ LastLogId(s) \in Nat /\ LastLogId(s) = Len(mLogQueue[s]) /\ mCommitIndex[s] \in Nat
      /\ mLastLogIdApplied[s] \in Nat /\ mLogQueue[s] \in Seq(Entry) /\ UNCHANGED mLogQueue
  BY MessageKinds, LastLogTermType DEF TypeOK, LeaderHandleAppendEntryRsp, LogType, AppendRsp
<1>1. PeerType'
  <2>1. CASE UNCHANGED peerVars
    BY <1>0, <2>1 DEF PeerType, peerVars
  <2>2. CASE /\ mLastAgreed' = [mLastAgreed EXCEPT ![s][m.from] = m.lastLogId]
             /\ mNextToReplicate' = [mNextToReplicate EXCEPT ![s][m.from] = m.lastLogId + 1]
    <3>1. /\ [mLastAgreed[s] EXCEPT ![m.from] = m.lastLogId] \in [Server -> Nat]
          /\ [mNextToReplicate[s] EXCEPT ![m.from] = m.lastLogId + 1] \in [Server -> Nat]
      BY <1>0 DEF PeerType
    <3> QED BY <1>0, <2>2, <3>1 DEF PeerType
  <2> QED BY <2>1, <2>2 DEF LeaderHandleAppendEntryRsp
<1>2. \/ /\ mServerRecved' \in [Server -> Seq(Nat)]
         /\ \A p \in Server : Len(mServerRecved'[p]) = Len(mServerRecved[p])
         /\ \E c \in mCommitIndex[s]..Max({mCommitIndex[s], LastLogId(s)}) :
              mCommitIndex' = [mCommitIndex EXCEPT ![s] = c]
      \/ UNCHANGED <<mServerRecved, mCommitIndex>>
  BY <1>0, CountReceivedTypes DEF LeaderHandleAppendEntryRsp
<1>3. PICK c \in mCommitIndex[s]..Max({mCommitIndex[s], LastLogId(s)}) :
        mCommitIndex' = [mCommitIndex EXCEPT ![s] = c]
  <2>1. mCommitIndex[s] \in mCommitIndex[s]..Max({mCommitIndex[s], LastLogId(s)})
    BY <1>0, MaxOfTwo
  <2> QED BY <1>0, <1>2, <2>1 DEF LogType
<1>4. c \in Nat /\ mCommitIndex[s] <= c /\ (mCommitIndex[s] <= LastLogId(s) => c <= LastLogId(s))
  BY <1>0, MaxOfTwo
<1>5. ApplyCommittedLogs(s) \/ UNCHANGED mLastLogIdApplied
  BY DEF LeaderHandleAppendEntryRsp
<1>6. LogType'
  <2>1. mCommitIndex' \in [Server -> Nat]
    BY <1>0, <1>3, <1>4 DEF LogType
  <2>2. mLastLogIdApplied' \in [Server -> Nat]
    BY <1>0, <1>5, <2>1, AppliedType DEF LogType
  <2> QED BY <1>0, <1>2, <2>1, <2>2 DEF LogType
<1>7. ASSUME IndexOrder PROVE LogGrowths
  <2>1. NewLog(s, mLogQueue[s], LastLogId(s)) /\ mCommitIndex[s] <= LastLogId(s) /\ c \in mCommitIndex[s]..Len(mLogQueue[s])
    BY <1>0, <1>4, <1>7 DEF NewLog, IndexOrder
  <2>2. mLogQueue' = [mLogQueue EXCEPT ![s] = mLogQueue[s]]
    BY <1>0 DEF LogType
  <2>3. PICK a \in mLastLogIdApplied[s]..c : mLastLogIdApplied' = [mLastLogIdApplied EXCEPT ![s] = a]
    <3>1. CASE ApplyCommittedLogs(s)
      <4>1. mLastLogIdApplied' = [mLastLogIdApplied EXCEPT ![s] = c] /\ mLastLogIdApplied[s] <= c
        BY <1>0, <1>3, <1>4, <1>7, <3>1, AppliedIndex
      <4>2. c \in mLastLogIdApplied[s]..c
        BY <1>0, <1>4, <4>1
      <4> QED BY <4>1, <4>2
    <3>2. CASE UNCHANGED mLastLogIdApplied
      <4>1. mLastLogIdApplied[s] \in mLastLogIdApplied[s]..c
        BY <1>0, <1>4, <1>7 DEF IndexOrder
      <4> QED BY <1>0, <3>2, <4>1 DEF LogType
    <3> QED BY <1>5, <3>1, <3>2
  <2>4. Len(mLogQueue[s]) <= LastLogId(s)
    BY <1>0
  <2> QED BY <1>0, <1>3, <1>7, <2>1, <2>2, <2>3, <2>4, SetLogGrowth
<1> QED BY <1>1, <1>6, <1>7

LEMMA LeaderRspType ==
  ASSUME TypeOK, NEW s \in Server, NEW m \in net, LeaderHandleAppendEntryRsp(s, m)
  PROVE  TypeOK'
<1>1. RoleType' /\ VoteType' /\ DataType'
  BY DEF LeaderHandleAppendEntryRsp, TypeOK, RoleType, VoteType, DataType, voteVars, dataVars, mainVars
<1>2. LogType' /\ PeerType'
  BY LeaderRspLog
<1>3. m.from \in Server
  BY StepDownTypes DEF TypeOK
<1>4. NextRequests(s, m.from) \subseteq Message
  BY <1>2, <1>3, NextRequestsType DEF TypeOK
<1>5. net' \subseteq Message
  BY <1>4 DEF LeaderHandleAppendEntryRsp, Send, TypeOK
<1> QED BY <1>1, <1>2, <1>5 DEF TypeOK

---------------------------------------------------------------------------
(* The data thread.                                                        *)

LEMMA DataPopType ==
  ASSUME TypeOK, NEW s \in Server, DataPop(s)
  PROVE  TypeOK'
<1>1. RoleType' /\ VoteType' /\ LogType' /\ PeerType' /\ UNCHANGED net
  BY DEF DataPop, TypeOK, RoleType, VoteType, LogType, PeerType, voteVars, logVars, peerVars, mainVars
<1>2. DataType'
  <2>1. PICK v \in Value : /\ clientData' = clientData \ {v}
                           /\ dataLog' = [dataLog EXCEPT ![s] = [logId |-> 0, term |-> 0, val |-> v]]
    BY DEF DataPop, TypeOK, DataType
  <2>2. [logId |-> 0, term |-> 0, val |-> v] \in DataLog
    BY DEF DataLog
  <2> QED BY <2>1, <2>2 DEF DataPop, TypeOK, DataType, DataPc
<1> QED BY <1>1, <1>2 DEF TypeOK

LEMMA DataAppendLog ==
  ASSUME TypeOK, NEW s \in Server, DataAppend(s)
  PROVE  LogType' /\ DataType' /\ (IndexOrder => LogGrowths)
<1>0. /\ LogType /\ DataType /\ mLogQueue[s] \in Seq(Entry) /\ LastLogId(s) = Len(mLogQueue[s])
      /\ LastLogId(s) \in Nat /\ mCommitIndex[s] \in Nat /\ mLastLogIdApplied[s] \in Nat
      /\ dataLog[s] \in DataLog /\ UNCHANGED <<mCommitIndex, mLastLogIdApplied, clientData>>
      /\ mServerRecved[s] \in Seq(Nat) /\ mCurTermId[s] \in Nat
  BY LastLogTermType DEF TypeOK, DataAppend, LogType, DataType, RoleType
<1>1. CASE dataPc' = [dataPc EXCEPT ![s] = "ended"] /\ UNCHANGED <<dataLog, mLogQueue, mServerRecved>>
  BY <1>0, <1>1, SameLogGrowth DEF LogType, DataType, DataPc
<1>2. CASE /\ LastLogId(s) < Room(s)
           /\ dataPc' = [dataPc EXCEPT ![s] = "appended"]
           /\ dataLog' = [dataLog EXCEPT ![s] =
                            [logId |-> LastLogId(s) + 1, term |-> mCurTermId[s], val |-> @.val]]
           /\ mLogQueue' = [mLogQueue EXCEPT ![s] = Append(@, [term |-> mCurTermId[s], val |-> dataLog[s].val])]
           /\ mServerRecved' = [mServerRecved EXCEPT ![s] = Append(@, 0)]
  <2> DEFINE new == Append(mLogQueue[s], [term |-> mCurTermId[s], val |-> dataLog[s].val])
  <2>1. [term |-> mCurTermId[s], val |-> dataLog[s].val] \in Entry
    BY <1>0 DEF Entry, DataLog
  <2>2. /\ new \in Seq(Entry) /\ Len(new) = LastLogId(s) + 1
        /\ \A i \in 1..LastLogId(s) : new[i] = mLogQueue[s][i]
    BY <1>0, <2>1, AppendProperties
  <2>3. Append(mServerRecved[s], 0) \in Seq(Nat) /\ Len(Append(mServerRecved[s], 0)) = Len(mServerRecved[s]) + 1
    BY <1>0, AppendProperties
  <2>4. mLogQueue' = [mLogQueue EXCEPT ![s] = new] /\ mServerRecved' = [mServerRecved EXCEPT ![s] = Append(mServerRecved[s], 0)]
    BY <1>0, <1>2 DEF LogType
  <2> HIDE DEF new
  <2>5. LogType'
    BY <1>0, <2>2, <2>3, <2>4 DEF LogType
  <2>6. DataType'
    <3>1. dataLog'[s] \in DataLog /\ dataLog'[s].logId > 0
      BY <1>0, <1>2 DEF DataType, DataLog
    <3>2. \A p \in Server \ {s} : dataLog'[p] = dataLog[p] /\ dataPc'[p] = dataPc[p]
      BY <1>0, <1>2 DEF DataType
    <3>3. dataLog' \in [Server -> DataLog \cup {Nil}]
      BY <1>0, <1>2, <3>1, <3>2 DEF DataType
    <3> QED BY <1>0, <1>2, <3>1, <3>2, <3>3 DEF DataType, DataPc
  <2>7. ASSUME IndexOrder PROVE LogGrowths
    <3>1. mCommitIndex[s] <= LastLogId(s) /\ mLastLogIdApplied[s] <= mCommitIndex[s]
      BY <2>7 DEF IndexOrder
    <3>2. NewLog(s, new, LastLogId(s)) /\ Len(new) <= Room(s)
      BY <1>0, <1>2, <2>2, LimitAssumption DEF NewLog, Room
    <3>3. mCommitIndex[s] \in mCommitIndex[s]..Len(new) /\ mLastLogIdApplied[s] \in mLastLogIdApplied[s]..mCommitIndex[s]
      BY <1>0, <2>2, <3>1
    <3>4. /\ mCommitIndex' = [mCommitIndex EXCEPT ![s] = mCommitIndex[s]]
          /\ mLastLogIdApplied' = [mLastLogIdApplied EXCEPT ![s] = mLastLogIdApplied[s]]
      BY <1>0 DEF LogType
    <3>5. LogType
      BY <1>0
    <3> QED BY <2>4, <2>7, <3>1, <3>2, <3>3, <3>4, <3>5, SetLogGrowth
  <2> QED BY <2>5, <2>6, <2>7
<1> QED BY <1>1, <1>2 DEF DataAppend

LEMMA DataAppendType ==
  ASSUME TypeOK, NEW s \in Server, DataAppend(s)
  PROVE  TypeOK'
<1>1. RoleType' /\ VoteType' /\ PeerType' /\ UNCHANGED net
  BY DEF DataAppend, TypeOK, RoleType, VoteType, PeerType, voteVars, peerVars, mainVars
<1> QED BY <1>1, DataAppendLog DEF TypeOK

LEMMA DataCountType ==
  ASSUME TypeOK, NEW s \in Server, DataCount(s)
  PROVE  TypeOK' /\ UNCHANGED <<mLogQueue, mCommitIndex, mLastLogIdApplied>>
<1> DEFINE counts == [i \in DOMAIN mServerRecved[s] |->
                       IF i = dataLog[s].logId /\ StillThere(s) THEN Inc(mServerRecved[s][i])
                                                               ELSE mServerRecved[s][i]]
<1>1. mServerRecved[s] \in [1..Len(mServerRecved[s]) -> Nat] /\ Len(mServerRecved[s]) \in Nat
  BY LenProperties DEF TypeOK, LogType
<1>2. counts \in [1..Len(mServerRecved[s]) -> Nat]
  BY <1>1, IncNat
<1>3. counts \in Seq(Nat) /\ Len(counts) = Len(mServerRecved[s])
  BY <1>1, <1>2, SeqDef, LenProperties
<1>4. mServerRecved' = [mServerRecved EXCEPT ![s] = counts]
  BY DEF DataCount, TypeOK, LogType
<1> HIDE DEF counts
<1>5. UNCHANGED <<mLogQueue, mCommitIndex, mLastLogIdApplied>>
  BY DEF DataCount
<1>6. LogType'
  BY <1>3, <1>4, <1>5 DEF TypeOK, LogType
<1>7. RoleType' /\ VoteType' /\ PeerType'
  BY DEF DataCount, TypeOK, RoleType, VoteType, PeerType, mainVars, voteVars, peerVars
<1>8. dataPc' = [dataPc EXCEPT ![s] = "counted"] /\ dataPc[s] = "appended"
      /\ UNCHANGED <<dataLog, clientData, net>>
  BY DEF DataCount
<1>9. DataType'
  BY <1>8 DEF TypeOK, DataType, DataPc
<1> QED BY <1>5, <1>6, <1>7, <1>8, <1>9 DEF TypeOK

LEMMA DataBroadcastType ==
  ASSUME TypeOK, NEW s \in Server, DataBroadcast(s)
  PROVE  TypeOK' /\ UNCHANGED <<mLogQueue, mCommitIndex, mLastLogIdApplied>>
<1> DEFINE e == dataLog[s]
           logs == <<[term |-> e.term, val |-> e.val]>>
<1>0. UNCHANGED <<mLogQueue, mCommitIndex, mLastLogIdApplied>>
  BY DEF DataBroadcast, logVars
<1>1. e \in DataLog /\ e.logId \in Nat \ {0} /\ e.term \in Nat /\ e.val \in Value
  BY DEF DataBroadcast, TypeOK, DataType, DataLog
<1>2. logs \in Seq(Entry)
  <2>1. [term |-> e.term, val |-> e.val] \in Entry
    BY <1>1 DEF Entry
  <2>2. logs = Append(<<>>, [term |-> e.term, val |-> e.val]) /\ <<>> \in Seq(Entry)
    BY <2>1, EmptySeq
  <2> QED BY <2>1, <2>2, AppendProperties
<1>3. RoleType' /\ VoteType' /\ PeerType' /\ DataType'
  <2>1. \/ mainPc' = mainPc /\ dataPc' = [dataPc EXCEPT ![s] = "idle"]
        \/ mainPc' = [mainPc EXCEPT ![s] = "down"] /\ dataPc' = [dataPc EXCEPT ![s] = "ended"]
    BY DEF DataBroadcast
  <2>2. RoleType'
    BY <2>1 DEF DataBroadcast, TypeOK, RoleType, MainPc
  <2>3. VoteType' /\ PeerType'
    BY DEF DataBroadcast, TypeOK, VoteType, PeerType, voteVars, peerVars
  <2>4. dataLog' = [dataLog EXCEPT ![s] = Nil] /\ UNCHANGED clientData
    BY DEF DataBroadcast
  <2>5. DataType'
    BY <2>1, <2>4 DEF TypeOK, DataType, DataPc
  <2> QED BY <2>2, <2>3, <2>5
<1>4. LogType'
  BY DEF DataBroadcast, TypeOK, LogType, logVars
<1>5. net' \subseteq Message
  <2>1. CASE UNCHANGED net
    BY <2>1 DEF TypeOK
  <2>2. CASE /\ e.logId - 1 <= LastLogId(s)
             /\ Send({}, {Request(s, p, e.logId, PrevLogTerm(s, e.logId), logs) :
                            p \in {p \in Peers(s) : mNextToReplicate[s][p] = e.logId}})
    <3>1. e.logId <= LastLogId(s) + 1
      BY <1>1, <2>2, LastLogTermType DEF TypeOK
    <3>2. PrevLogTerm(s, e.logId) \in Nat
      BY <1>1, <3>1, PrevLogTermType DEF TypeOK
    <3> HIDE DEF e, logs
    <3>3. ASSUME NEW p \in Peers(s)
          PROVE  Request(s, p, e.logId, PrevLogTerm(s, e.logId), logs) \in Message
      BY <1>1, <1>2, <1>4, <3>2, RequestType DEF TypeOK, Peers
    <3> QED BY <2>2, <3>3 DEF Send, TypeOK
  <2> QED BY <2>1, <2>2 DEF DataBroadcast
<1> QED BY <1>0, <1>3, <1>4, <1>5 DEF TypeOK

---------------------------------------------------------------------------
(* Every step of the group.                                                *)

LEMMA LoseType ==
  ASSUME TypeOK, NEW m \in net, Lose(m)
  PROVE  TypeOK'
BY DEF Lose, Send, TypeOK, RoleType, VoteType, LogType, PeerType, DataType,
       voteVars, logVars, peerVars, dataVars, mainVars

LEMMA StutterType ==
  ASSUME TypeOK, UNCHANGED vars
  PROVE  TypeOK'
BY DEF vars, TypeOK, RoleType, VoteType, LogType, PeerType, DataType,
       voteVars, logVars, peerVars, dataVars, mainVars

LEMMA NextTypeOK == TypeOK /\ [Next]_vars => TypeOK'
<1> SUFFICES ASSUME TypeOK, [Next]_vars PROVE TypeOK'
  OBVIOUS
<1>1. ASSUME NEW s \in Server, MainThread(s) PROVE TypeOK'
  BY <1>1, FollowerMainType, CandidateMainType, LeaderMainType DEF MainThread
<1>2. ASSUME NEW s \in Server, DataThread(s) PROVE TypeOK'
  BY <1>2, DataPopType, DataAppendType, DataCountType, DataBroadcastType DEF DataThread
<1>3. ASSUME NEW m \in net, MsgThread(m.to, m) PROVE TypeOK'
  <2>1. m.to \in Server
    BY DEF TypeOK, Message, VoteReq, VoteRsp, Heartbeat, AppendReq, AppendRsp
  <2> QED BY <1>3, <2>1, CommonMsgType, FollowerMsgType, CandidateMsgType, LeaderMsgType, LeaderRspType DEF MsgThread
<1>4. ASSUME NEW m \in net, Lose(m) PROVE TypeOK'
  BY <1>4, LoseType
<1>5. CASE UNCHANGED vars
  BY <1>5, StutterType
<1>6. ASSUME NEW s \in Server, GrantVote(s) PROVE TypeOK'
  BY <1>6, GrantVoteType
<1> QED BY <1>1, <1>2, <1>3, <1>4, <1>5, <1>6 DEF Next

(* Every variable of the group keeps its type.                             *)
THEOREM TypeCorrect == Spec => []TypeOK
BY InitTypeOK, NextTypeOK, PTL DEF Spec

---------------------------------------------------------------------------
(* The indexes.                                                            *)

LEMMA NextLogGrowths == TypeOK /\ IndexOrder /\ [Next]_vars => LogGrowths
<1> SUFFICES ASSUME TypeOK, IndexOrder, [Next]_vars PROVE LogGrowths
  OBVIOUS
<1>0. UNCHANGED <<mLogQueue, mCommitIndex, mLastLogIdApplied>> => LogGrowths
  BY SameLogGrowth DEF TypeOK
<1>1. ASSUME NEW s \in Server, MainThread(s) PROVE UNCHANGED logVars
  BY <1>1 DEF MainThread, MainSwitch, FollowerInit, FollowerNextRound, FollowerTimeout, FollowerStartElection,
     CandidateInit, CandidateRound, CandidateVote, CandidateWake, LeaderInit, LeaderBeat, LeaderWake
<1>2. ASSUME NEW s \in Server, DataThread(s) PROVE LogGrowths
  <2>1. CASE DataPop(s)
    BY <1>0, <2>1 DEF DataPop, logVars
  <2>2. CASE DataAppend(s)
    BY <2>2, DataAppendLog
  <2>3. CASE DataBroadcast(s)
    BY <1>0, <2>3, DataBroadcastType
  <2>4. CASE DataCount(s)
    BY <1>0, <2>4, DataCountType
  <2> QED BY <1>2, <2>1, <2>2, <2>3, <2>4 DEF DataThread
<1>3. ASSUME NEW m \in net, MsgThread(m.to, m) PROVE LogGrowths
  <2>1. m.to \in Server
    BY DEF TypeOK, Message, VoteReq, VoteRsp, Heartbeat, AppendReq, AppendRsp
  <2>2. CASE FollowerHandleAppendEntryReq(m.to, m)
    BY <2>1, <2>2, FollowerRequestLog
  <2>3. CASE LeaderHandleAppendEntryRsp(m.to, m)
    BY <2>1, <2>3, LeaderRspLog
  <2>4. CASE \/ HandleVoteReq(m.to, m) \/ IgnoreMsg(m.to, m)
             \/ CandidateHandleAppendEntryReq(m.to, m) \/ CandidateHandleVoteRsp(m.to, m)
             \/ LeaderHandleAppendEntryReq(m.to, m) \/ LeaderHandleVoteReq(m.to, m)
    BY <1>0, <2>4 DEF HandleVoteReq, IgnoreMsg, CandidateHandleAppendEntryReq, CandidateHandleVoteRsp,
       LeaderHandleAppendEntryReq, LeaderHandleVoteReq, logVars
  <2> QED BY <1>3, <2>2, <2>3, <2>4 DEF MsgThread
<1>4. ASSUME NEW m \in net, Lose(m) PROVE UNCHANGED logVars
  BY <1>4 DEF Lose
<1>5. CASE UNCHANGED vars
  BY <1>0, <1>5 DEF vars, logVars
<1>6. ASSUME NEW s \in Server, GrantVote(s) PROVE UNCHANGED logVars
  BY <1>6, GrantVoteType
<1> QED BY <1>0, <1>1, <1>2, <1>3, <1>4, <1>5, <1>6 DEF Next, logVars

LEMMA InitIndexOrder == Init => IndexOrder /\ LogBounded
BY LimitAssumption DEF Init, IndexOrder, LogBounded, LastLogId

LEMMA NextIndexOrder == TypeOK /\ IndexOrder /\ [Next]_vars => IndexOrder'
BY NextLogGrowths DEF LogGrowths, LogGrowth, IndexOrder, LastLogId

(* What is applied is committed and what is committed is in the log.       *)
THEOREM IndexOrderHolds == Spec => []IndexOrder
BY InitTypeOK, NextTypeOK, InitIndexOrder, NextIndexOrder, PTL DEF Spec

(* The invariant a step starts from.                                       *)
LEMMA LogInvariant == Spec => [](TypeOK /\ IndexOrder)
BY TypeCorrect, IndexOrderHolds, PTL

LEMMA StepKeepsCommitted ==
  ASSUME TypeOK, IndexOrder, [Next]_vars
  PROVE  \A s \in Server :
           /\ mCommitIndex[s] <= mCommitIndex'[s]
           /\ mLastLogIdApplied[s] <= mLastLogIdApplied'[s]
           /\ \A i \in 1..mCommitIndex[s] : i \in DOMAIN mLogQueue'[s] /\ mLogQueue'[s][i] = mLogQueue[s][i]
<1>1. LogGrowths /\ TypeOK'
  BY NextLogGrowths, NextTypeOK
<1> SUFFICES ASSUME NEW s \in Server
             PROVE  /\ mCommitIndex[s] <= mCommitIndex'[s]
                    /\ mLastLogIdApplied[s] <= mLastLogIdApplied'[s]
                    /\ \A i \in 1..mCommitIndex[s] :
                         i \in DOMAIN mLogQueue'[s] /\ mLogQueue'[s][i] = mLogQueue[s][i]
  OBVIOUS
<1>2. LogGrowth(s)
  BY <1>1 DEF LogGrowths
<1>3. mLogQueue'[s] \in Seq(Entry) /\ mCommitIndex[s] \in Nat /\ mCommitIndex'[s] \in Nat
  BY <1>1 DEF TypeOK, LogType
<1>4. DOMAIN mLogQueue'[s] = 1..Len(mLogQueue'[s]) /\ Len(mLogQueue'[s]) \in Nat
  BY <1>3, LenProperties
<1> QED BY <1>2, <1>3, <1>4 DEF LogGrowth

(* No step of the group takes back what a server has committed.            *)
THEOREM CommittedStaysCommitted == Spec => CommittedPrefixStable
<1>1. TypeOK /\ IndexOrder /\ [Next]_vars =>
        [\A s \in Server :
           /\ mCommitIndex[s] <= mCommitIndex'[s]
           /\ mLastLogIdApplied[s] <= mLastLogIdApplied'[s]
           /\ \A i \in 1..mCommitIndex[s] : i \in DOMAIN mLogQueue'[s] /\ mLogQueue'[s][i] = mLogQueue[s][i]]_vars
  BY StepKeepsCommitted
<1> QED BY <1>1, LogInvariant, PTL DEF Spec, CommittedPrefixStable

LEMMA NextLogBounded == TypeOK /\ IndexOrder /\ LogBounded /\ [Next]_vars => LogBounded'
<1> SUFFICES ASSUME TypeOK, IndexOrder, LogBounded, [Next]_vars, NEW s \in Server
             PROVE  Len(mLogQueue'[s]) - mLastLogIdApplied'[s] <= RAFT_LOG_QUEUE_SIZE + 1
  BY DEF LogBounded, LastLogId
<1>1. LogGrowth(s) /\ TypeOK'
  BY NextLogGrowths, NextTypeOK DEF LogGrowths
<1>2. /\ Len(mLogQueue'[s]) \in Nat /\ mLastLogIdApplied'[s] \in Nat
      /\ LastLogId(s) \in Nat /\ mLastLogIdApplied[s] \in Nat /\ RAFT_LOG_QUEUE_SIZE \in Nat
  BY <1>1, LimitAssumption, LastLogTermType DEF TypeOK, LogType
<1> QED BY <1>1, <1>2 DEF LogGrowth, Room, LogBounded

(* However long a server runs, its queue of entries to apply is bounded.   *)
THEOREM LogStaysBounded == Spec => []LogBounded
BY InitIndexOrder, NextLogBounded, LogInvariant, PTL DEF Spec
====
