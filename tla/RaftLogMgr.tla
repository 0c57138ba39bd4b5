------------------------------ MODULE RaftLogMgr ------------------------------
(***************************************************************************)
(* AosRaftLogMgr of one server and the threads that use it.  Entries that  *)
(* are not applied are in mLogQueue; applied ones are in files, the last   *)
(* of them in mAppliedLogQueue too, and some old ones in a cache.  Each    *)
(* call holds mLock; between two calls another thread may make its own.    *)
(*                                                                         *)
(* The message thread handles requests of a leader, entry by entry, or the *)
(* answers of followers when the server leads; the data thread appends the *)
(* data of clients; the main thread reads the log for heartbeats.          *)
(***************************************************************************)
EXTENDS Integers, Sequences, FiniteSets

CONSTANTS
  RAFT_LOG_QUEUE_SIZE,          \* unapplied entries before appends are refused
  RAFT_APPLIED_LOG_QUEUE_SIZE,  \* entries of mAppliedLogQueue
  RAFT_APPLIED_LOG_CACHE_SIZE,  \* entries read from a file at once
  RAFT_LOG_PER_FILE,            \* entries of an applied log file
  LeaderLogs,                   \* the terms in the logs other leaders may have
  StatMachFails,                \* may the state machine refuse an entry
  MaxTerm,                      \* bound: no election beyond it
  MaxLog,                       \* bound: no client data at this length
  MaxRestarts                   \* bound: crashes

ASSUME LogMgrAssumption ==
  /\ RAFT_LOG_QUEUE_SIZE \in Nat
  /\ RAFT_APPLIED_LOG_QUEUE_SIZE \in Nat \ {0}
  /\ RAFT_APPLIED_LOG_CACHE_SIZE \in Nat \ {0}
  /\ RAFT_LOG_PER_FILE \in Nat \ {0, 1}
  /\ LeaderLogs \subseteq Seq(Nat)
  /\ StatMachFails \in BOOLEAN
  /\ MaxTerm \in Nat /\ MaxLog \in Nat /\ MaxRestarts \in Nat

VARIABLES
  mCurTermId, mLastLogId, mLastLogIdApplied, mCommitIndex,
  mLock,                 \* "free", or the thread that has kept it
  mLogQueue,             \* the entries that are not applied
  mAppliedLogQueue,      \* the last applied entries
  mAppliedLogCache, mAppliedLogCacheStart,
  appliedFile,           \* the applied log files, one after the other
  leading,               \* mRole = eLeader
  msgPc, msg, next,      \* message thread: the request, the next entry of it
  dataPc, dataLog,       \* data thread: what it does next, the entry it has appended
  mainRead,              \* main thread: the last log id it has read, or -1
  down,                  \* the process has died
  restarts

indexVars == <<mCurTermId, mLastLogId, mLastLogIdApplied, mCommitIndex>>
logVars == <<mLogQueue, mAppliedLogQueue, appliedFile>>
cacheVars == <<mAppliedLogCache, mAppliedLogCacheStart>>
msgVars == <<msgPc, msg, next>>
dataVars == <<dataPc, dataLog>>
vars == <<indexVars, mLock, logVars, cacheVars, leading, msgVars, dataVars,
          mainRead, down, restarts>>

Entry == [logId : Nat, termId : Nat]

\* What a leader with the log l sends: some entries of it and its commit index,
\* or a heartbeat, which has firstLogId 0 and no entries.
Requests(l) ==
  [firstLogId : {0}, prevLogTermId : {0}, terms : {<<>>}, commitIndex : 0..Len(l), term : 1..MaxTerm]
  \cup UNION {[firstLogId : {f}, prevLogTermId : {IF f = 1 THEN 0 ELSE l[f - 1]},
               terms : {SubSeq(l, f, n) : n \in f..Len(l)}, commitIndex : 0..Len(l),
               term : 1..MaxTerm] : f \in 1..Len(l)}
Request == {m \in UNION {Requests(l) : l \in LeaderLogs} :
              \A i \in DOMAIN m.terms : m.terms[i] <= m.term}
NoMsg == [firstLogId |-> 0, prevLogTermId |-> 0, terms |-> <<>>, commitIndex |-> 0, term |-> 0]

Init == /\ mCurTermId = 0 /\ mLastLogId = 0 /\ mLastLogIdApplied = 0 /\ mCommitIndex = 0
        /\ mLock = "free"
        /\ mLogQueue = <<>> /\ mAppliedLogQueue = <<>> /\ appliedFile = <<>>
        /\ mAppliedLogCache = <<>> /\ mAppliedLogCacheStart = 0
        /\ leading = FALSE
        /\ msgPc = "idle" /\ msg = NoMsg /\ next = 0
        /\ dataPc = "idle" /\ dataLog = 0
        /\ mainRead = -1
        /\ down = FALSE /\ restarts = 0

-------------------------------------------------------------------------------
(***************************************************************************)
(* getLog and getAppliedLog.                                               *)
(***************************************************************************)
Exists(id) == 0 < id /\ id <= mLastLogId

InAppliedQueue(id) ==
  mAppliedLogQueue # <<>> /\ id >= mAppliedLogQueue[1].logId
InCache(id) == /\ mAppliedLogCacheStart # 0
               /\ mAppliedLogCacheStart <= id
               /\ id < mAppliedLogCacheStart + Len(mAppliedLogCache)
MustReadFile(id) == /\ 0 < id /\ id <= mLastLogIdApplied
                    /\ ~InAppliedQueue(id) /\ ~InCache(id)

Least(a, b) == IF a <= b THEN a ELSE b

\* Read to the end of the file, of the cache, or of what is applied.
ReadUpTo(id) ==
  Least(id + RAFT_LOG_PER_FILE - 1 - ((id - 1) % RAFT_LOG_PER_FILE),
        Least(id + RAFT_APPLIED_LOG_CACHE_SIZE - 1, mLastLogIdApplied))

LogAt(id) ==
  IF id > mLastLogIdApplied THEN mLogQueue[id - mLastLogIdApplied]
  ELSE IF InAppliedQueue(id) THEN mAppliedLogQueue[id - mAppliedLogQueue[1].logId + 1]
  ELSE IF InCache(id) THEN mAppliedLogCache[id - mAppliedLogCacheStart + 1]
  ELSE appliedFile[id]

\* Mutant: the cache is taken to start one entry too early.
GetLogEarly(id) ==
  /\ mLock = "free"
  /\ IF MustReadFile(id)
     THEN /\ mAppliedLogCache' = SubSeq(appliedFile, id, ReadUpTo(id))
          /\ mAppliedLogCacheStart' = id - 1
     ELSE UNCHANGED cacheVars

\* The effect of getLog(id) on the cache.
GetLog(id) ==
  /\ mLock = "free"
  /\ IF MustReadFile(id)
     THEN /\ mAppliedLogCache' = SubSeq(appliedFile, id, ReadUpTo(id))
          /\ mAppliedLogCacheStart' = id
     ELSE UNCHANGED cacheVars

-------------------------------------------------------------------------------
(***************************************************************************)
(* appendLog, removeLogs, setLastLogIdApplied.                             *)
(***************************************************************************)
Room == mLastLogId - mLastLogIdApplied <= RAFT_LOG_QUEUE_SIZE

\* appendLog of an entry with the next log id.
Push(term) ==
  /\ mLock = "free" /\ Room
  /\ mLastLogId' = mLastLogId + 1
  /\ mLogQueue' = Append(mLogQueue, [logId |-> mLastLogId + 1, termId |-> term])
  /\ UNCHANGED <<mLock, mAppliedLogQueue, appliedFile>>

\* appendLog of an entry with another log id: it returns with the lock.
WrongLogId(id, thread) ==
  /\ mLock = "free" /\ Room
  /\ id # mLastLogId + 1
  /\ mLastLogId' = mLastLogId + 1
  /\ mLock' = thread
  /\ UNCHANGED logVars

\* appendLog refuses: too many entries are not applied, or no hint.
Refuse == /\ mLock = "free"
          /\ ~Room \/ StatMachFails
          /\ UNCHANGED <<mLastLogId, mLock, logVars>>

\* removeLogs(id) keeps the entries below id, or more when removeEntry fails.
RemoveLogs(id) ==
  /\ mLock = "free"
  /\ \E n \in (id - 1)..mLastLogId :
       /\ n = id - 1 \/ StatMachFails
       /\ mLastLogId' = n
       /\ mLogQueue' = SubSeq(mLogQueue, 1, n - mLastLogIdApplied)
  /\ UNCHANGED <<mLock, mAppliedLogQueue, appliedFile>>

\* Mutant: committed entries may be removed.
RemovableAny(id) == id <= mLastLogId

\* Its assertions, before it takes the lock.
Removable(id) == id <= mLastLogId /\ id > mCommitIndex

\* Mutant: nothing is dropped at the limit.
LastOfAll(s, n) == s

\* mAppliedLogQueue drops its oldest entries.
LastOf(s, n) == SubSeq(s, IF Len(s) > n THEN Len(s) - n + 1 ELSE 1, Len(s))

\* Mutant: one entry stays behind.
ApplyingLess(id) ==
  CHOOSE k \in 0..Len(mLogQueue) :
    /\ \A i \in 1..k : mLogQueue[i].logId < id
    /\ k < Len(mLogQueue) => mLogQueue[k + 1].logId >= id

\* How many entries at the head of the queue have log ids up to id.
Applying(id) ==
  CHOOSE k \in 0..Len(mLogQueue) :
    /\ \A i \in 1..k : mLogQueue[i].logId <= id
    /\ k < Len(mLogQueue) => mLogQueue[k + 1].logId > id

\* setLastLogIdApplied: the entries go to the file and to mAppliedLogQueue.
SetLastLogIdApplied(id) ==
  LET k == Applying(id)
      head == SubSeq(mLogQueue, 1, k)
  IN  /\ mLastLogIdApplied' = id
      /\ mLogQueue' = SubSeq(mLogQueue, k + 1, Len(mLogQueue))
      /\ appliedFile' = appliedFile \o head
      /\ mAppliedLogQueue' = LastOf(mAppliedLogQueue \o head, RAFT_APPLIED_LOG_QUEUE_SIZE)

\* applyCommittedLogs with the commit index c.
ApplyUpTo(c) ==
  IF c <= mLastLogIdApplied THEN UNCHANGED <<mLastLogIdApplied, logVars>>
  ELSE mLock = "free" /\ SetLastLogIdApplied(c)

-------------------------------------------------------------------------------
(***************************************************************************)
(* The message thread.                                                     *)
(***************************************************************************)
\* stepDown on a higher term.
LeadsAfter(m) == leading /\ m.term <= mCurTermId

\* Mutant: whoever leads, a request is handled.
FollowsAll(m) == TRUE

\* The handler of a leader does not touch the log.
Follows(m) == ~LeadsAfter(m)

\* A request of a leader is taken from the queue; one of an older term is
\* refused, and another leader of the same term is not followed.
Receive(m) ==
  /\ msgPc = "idle"
  /\ m.term >= mCurTermId
  /\ mCurTermId' = m.term
  /\ leading' = LeadsAfter(m)
  /\ IF Follows(m) THEN msgPc' = "check" /\ msg' = m /\ next' = 1 ELSE UNCHANGED msgVars
  /\ UNCHANGED <<mLastLogId, mLastLogIdApplied, mCommitIndex, mLock, logVars, cacheVars,
                 dataVars, mainRead, down, restarts>>

OutOfOrder == \/ msg.firstLogId > mLastLogId + 1
              \/ msg.firstLogId > 0 /\ msg.firstLogId <= mCommitIndex

\* followerHandleAppendEntryReq up to its loop; logs are removed from the
\* previous one when its term is not the leader's.
Check ==
  /\ msgPc = "check"
  /\ LET prev == msg.firstLogId - 1 IN
     \/ /\ OutOfOrder
        /\ msgPc' = "idle"
        /\ UNCHANGED <<mLastLogId, mLock, logVars, cacheVars>>
     \/ /\ ~OutOfOrder /\ prev < 1
        /\ msgPc' = "entry"
        /\ UNCHANGED <<mLastLogId, mLock, logVars, cacheVars>>
     \/ /\ ~OutOfOrder /\ prev >= 1
        /\ GetLog(prev)
        /\ IF LogAt(prev).termId = msg.prevLogTermId
           THEN msgPc' = "entry" /\ UNCHANGED <<mLastLogId, mLock, logVars>>
           ELSE /\ msgPc' = "idle"
                /\ IF Removable(prev) THEN RemoveLogs(prev)
                   ELSE UNCHANGED <<mLastLogId, mLock, logVars>>
  /\ UNCHANGED <<mCurTermId, mLastLogIdApplied, mCommitIndex, leading, msg, next, dataVars,
                 mainRead, down, restarts>>

EntryId == msg.firstLogId + next - 1

\* The next entry of the request: here already, in conflict, or new.
LookAtEntry ==
  /\ msgPc = "entry"
  /\ IF next > Len(msg.terms)
     THEN msgPc' = "commit" /\ UNCHANGED <<next, mLastLogId, mLock, logVars, cacheVars>>
     ELSE /\ GetLog(EntryId)
          /\ IF ~Exists(EntryId)
             THEN msgPc' = "append" /\ UNCHANGED <<next, mLastLogId, mLock, logVars>>
             ELSE IF LogAt(EntryId).termId = msg.terms[next]
             THEN /\ next' = next + 1
                  /\ UNCHANGED <<msgPc, mLastLogId, mLock, logVars>>
             ELSE /\ msgPc' = "append"
                  /\ next' = next
                  /\ IF Removable(EntryId) THEN RemoveLogs(EntryId)
                     ELSE UNCHANGED <<mLastLogId, mLock, logVars>>
  /\ UNCHANGED <<mCurTermId, mLastLogIdApplied, mCommitIndex, leading, msg, dataVars,
                 mainRead, down, restarts>>

\* The message thread's own append; when it fails the request is dropped.
AppendEntry ==
  /\ msgPc = "append"
  /\ \/ /\ EntryId = mLastLogId + 1
        /\ Push(msg.terms[next])
        /\ msgPc' = "entry" /\ next' = next + 1
     \/ /\ WrongLogId(EntryId, "msg") \/ Refuse
        /\ msgPc' = "idle" /\ next' = next
  /\ UNCHANGED <<mCurTermId, mLastLogIdApplied, mCommitIndex, cacheVars, leading, msg, dataVars,
                 mainRead, down, restarts>>

\* The leader's commit index is adopted, up to the last log.
AdoptCommit ==
  /\ msgPc = "commit"
  /\ msgPc' = "apply"
  /\ mCommitIndex' = IF mCommitIndex < msg.commitIndex
                     THEN Least(mLastLogId, msg.commitIndex) ELSE mCommitIndex
  /\ UNCHANGED <<mCurTermId, mLastLogId, mLastLogIdApplied, mLock, logVars, cacheVars, leading,
                 msg, next, dataVars, mainRead, down, restarts>>

ApplyCommittedLogs ==
  /\ msgPc = "apply"
  /\ msgPc' = "idle"
  /\ ApplyUpTo(mCommitIndex)
  /\ UNCHANGED <<mCurTermId, mLastLogId, mCommitIndex, mLock, cacheVars, leading, msg, next,
                 dataVars, mainRead, down, restarts>>

\* A follower's answer commits the entries up to id.
CommitAcknowledged(id) ==
  /\ leading /\ msgPc = "idle"
  /\ mLock = "free"
  /\ id > mCommitIndex /\ Exists(id)
  /\ mCommitIndex' = id
  /\ msgPc' = "apply"
  /\ UNCHANGED <<mCurTermId, mLastLogId, mLastLogIdApplied, mLock, logVars, cacheVars, leading,
                 msg, next, dataVars, mainRead, down, restarts>>

\* The leader reads an entry that a slow follower asks for.
ReadForFollower(id) ==
  /\ leading /\ msgPc = "idle"
  /\ Exists(id)
  /\ GetLog(id)
  /\ UNCHANGED <<indexVars, mLock, logVars, leading, msgVars, dataVars, mainRead, down, restarts>>

\* The votes of a new term have arrived; the round that asked for them was
\* started by the main thread, which is in no heartbeat then.
BecomeLeader ==
  /\ ~leading /\ msgPc = "idle" /\ mainRead = -1
  /\ mCurTermId < MaxTerm
  /\ mCurTermId' = mCurTermId + 1
  /\ leading' = TRUE
  /\ UNCHANGED <<mLastLogId, mLastLogIdApplied, mCommitIndex, mLock, logVars, cacheVars, msgVars,
                 dataVars, mainRead, down, restarts>>

-------------------------------------------------------------------------------
(***************************************************************************)
(* The data thread and the main thread.                                    *)
(***************************************************************************)
\* The role is tested, then the data is appended whatever the role is by then.
DataPop ==
  /\ dataPc = "idle" /\ leading /\ mLastLogId < MaxLog
  /\ dataPc' = "popped"
  /\ UNCHANGED <<indexVars, mLock, logVars, cacheVars, leading, msgVars, dataLog, mainRead,
                 down, restarts>>

DataAppend ==
  /\ dataPc = "popped"
  /\ \/ Push(mCurTermId) /\ dataPc' = "appended" /\ dataLog' = mLastLogId + 1
     \/ Refuse /\ dataPc' = "ended" /\ UNCHANGED dataLog
  /\ UNCHANGED <<mCurTermId, mLastLogIdApplied, mCommitIndex, cacheVars, leading, msgVars,
                 mainRead, down, restarts>>

\* The entry before id is read; a null pointer kills the process.
ReadPrevOf(id) ==
  IF id <= 1 THEN UNCHANGED <<cacheVars, down>>
  ELSE GetLog(id - 1) /\ down' = ~Exists(id - 1)

DataBroadcast ==
  /\ dataPc = "appended"
  /\ dataPc' = "idle" /\ dataLog' = 0
  /\ ReadPrevOf(dataLog)
  /\ UNCHANGED <<indexVars, mLock, logVars, leading, msgVars, mainRead, restarts>>

\* broadcastHeartbeat reads the last log id, then the entry before it.
HeartbeatReadLast ==
  /\ leading /\ mainRead = -1
  /\ mainRead' = mLastLogId
  /\ UNCHANGED <<indexVars, mLock, logVars, cacheVars, leading, msgVars, dataVars, down, restarts>>

HeartbeatReadPrev ==
  /\ mainRead >= 0
  /\ mainRead' = -1
  /\ ReadPrevOf(mainRead)
  /\ UNCHANGED <<indexVars, mLock, logVars, leading, msgVars, dataVars, restarts>>

\* The process ends and is started again.  init() finds the log file, so that
\* readLogFile reads through mLogFileRaw, which nobody has set: the process
\* dies again, or the read fails and every index stays zero.
Restart ==
  /\ restarts < MaxRestarts
  /\ restarts' = restarts + 1
  /\ down' \in BOOLEAN
  /\ mCurTermId' = 0 /\ mLastLogId' = 0 /\ mLastLogIdApplied' = 0 /\ mCommitIndex' = 0
  /\ mLock' = "free"
  /\ mLogQueue' = <<>> /\ mAppliedLogQueue' = <<>>
  /\ mAppliedLogCache' = <<>> /\ mAppliedLogCacheStart' = 0
  /\ leading' = FALSE
  /\ msgPc' = "idle" /\ msg' = NoMsg /\ next' = 0
  /\ dataPc' = "idle" /\ dataLog' = 0
  /\ mainRead' = -1
  /\ UNCHANGED appliedFile

MessageThread == \/ \E m \in Request : Receive(m)
                 \/ Check \/ LookAtEntry \/ AppendEntry \/ AdoptCommit \/ ApplyCommittedLogs
                 \/ \E id \in 1..mLastLogId : CommitAcknowledged(id) \/ ReadForFollower(id)
                 \/ BecomeLeader
DataThread == DataPop \/ DataAppend \/ DataBroadcast
MainThread == HeartbeatReadLast \/ HeartbeatReadPrev

Next == \/ ~down /\ (MessageThread \/ DataThread \/ MainThread)
        \/ Restart
Spec == Init /\ [][Next]_vars

-------------------------------------------------------------------------------
TypeOK ==
  /\ {mCurTermId, mLastLogId, mLastLogIdApplied, mCommitIndex} \subseteq Nat
  /\ mLock \in {"free", "msg"}
  /\ mLogQueue \in Seq(Entry) /\ mAppliedLogQueue \in Seq(Entry) /\ appliedFile \in Seq(Entry)
  /\ Len(mAppliedLogQueue) <= RAFT_APPLIED_LOG_QUEUE_SIZE
  /\ mAppliedLogCache \in Seq(Entry) /\ mAppliedLogCacheStart \in Nat
  /\ leading \in BOOLEAN /\ down \in BOOLEAN
  /\ msgPc \in {"idle", "check", "entry", "append", "commit", "apply"}
  /\ msg \in [firstLogId : Nat, prevLogTermId : Nat, terms : Seq(Nat), commitIndex : Nat, term : Nat]
  /\ next \in Nat
  /\ dataPc \in {"idle", "popped", "appended", "ended"}
  /\ dataLog \in Nat
  /\ mainRead \in Nat \cup {-1}
  /\ restarts \in 0..MaxRestarts

\* mLogQueue[logId - mLastLogIdApplied - 1] is the entry of that log id, for
\* every id the indexes allow (getLog, removeLogs); when appendLog has kept the
\* lock, the last log id is one ahead of the queue for good.
QueueHoldsUnapplied ==
  /\ mLastLogIdApplied + Len(mLogQueue) = IF mLock = "free" THEN mLastLogId ELSE mLastLogId - 1
  /\ \A i \in DOMAIN mLogQueue : mLogQueue[i].logId = mLastLogIdApplied + i
  /\ mLastLogIdApplied <= mCommitIndex /\ mCommitIndex <= mLastLogId

\* Whatever queue, cache or file getLog takes an entry from, it is the entry of
\* the log: queue, cache and file never disagree (getAppliedLog).  A process
\* that has lost its indexes in a restart writes its files anew.
Log == appliedFile \o mLogQueue
ReadsTheLog ==
  mLock = "free" /\ restarts = 0 => \A id \in 1..mLastLogId : LogAt(id) = Log[id] /\ Log[id].logId = id

\* While it leads, the main thread finds the entry before the last one it has
\* read (broadcastHeartbeat): only after a step-down may it be gone.
HeartbeatFindsEntry == leading /\ mainRead > 1 => mainRead - 1 <= mLastLogId

\* The three threads together keep the log of RaftLog.  An index that was set
\* after appendLog had failed counts up to the end of the log.  A restart loses
\* the log, which is no step of RaftLog: up to it, every step is one.
RL == INSTANCE RaftLog WITH
        log <- [i \in 1..Len(Log) |-> Log[i].termId],
        committed <- Least(mCommitIndex, Len(Log)),
        applied <- mLastLogIdApplied
ImplementsRaftLog == RL!Init /\ [][restarts' = 0 => RL!Next]_(RL!vars)

\* appendLog is never asked for another entry than the next one: "Append log
\* with wrong log id" is an alarm (RaftLogMgr.cpp, appendLog).
AppendsInOrder == mLock = "free"

\* "Raft will save the data when the data is applied" (RaftLogMgr.cpp,
\* appendLog): a process that is up knows of all that was applied.
AppliedIsSaved == [][down' \/ mLastLogIdApplied' >= mLastLogIdApplied]_vars
==============================================================================
