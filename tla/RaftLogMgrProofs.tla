--------------------------- MODULE RaftLogMgrProofs ---------------------------
(***************************************************************************)
(* Proofs about RaftLogMgr: for queues, caches and files of any size, any  *)
(* logs of other leaders, and any number of entries, terms and restarts.   *)
(***************************************************************************)
EXTENDS RaftLogMgr, SequenceTheorems, TLAPS

(***************************************************************************)
(* The inductive invariant, in the parts that the operations change.       *)
(***************************************************************************)
(* The queue and the indexes.                                              *)
QueueInv == /\ mLastLogId \in Nat /\ mLastLogIdApplied \in Nat /\ mCommitIndex \in Nat
            /\ mLock \in {"free", "msg"}
            /\ mLogQueue \in Seq(Entry)
            /\ QueueHoldsUnapplied

(* q is the end of the file f.                                             *)
EndOf(q, f) == /\ Len(q) <= Len(f)
               /\ \A i \in 1..Len(q) : q[i] = f[Len(f) - Len(q) + i]

(* Up to a restart the files hold what is applied, and mAppliedLogQueue    *)
(* the last of it.                                                         *)
FilesAgree == /\ Len(appliedFile) = mLastLogIdApplied
              /\ \A i \in 1..Len(appliedFile) : appliedFile[i].logId = i
              /\ EndOf(mAppliedLogQueue, appliedFile)

FileInv == /\ mLastLogIdApplied \in Nat /\ restarts \in Nat
           /\ appliedFile \in Seq(Entry) /\ mAppliedLogQueue \in Seq(Entry)
           /\ Len(mAppliedLogQueue) <= RAFT_APPLIED_LOG_QUEUE_SIZE
           /\ mLastLogIdApplied <= Len(appliedFile)
           /\ restarts = 0 => FilesAgree

(* The cache holds a stretch of the files.                                 *)
CacheAgrees == mAppliedLogCacheStart # 0 =>
                 /\ mAppliedLogCacheStart + Len(mAppliedLogCache) - 1 <= Len(appliedFile)
                 /\ \A i \in 1..Len(mAppliedLogCache) :
                      mAppliedLogCache[i] = appliedFile[mAppliedLogCacheStart + i - 1]

CacheInv == /\ mAppliedLogCache \in Seq(Entry) /\ mAppliedLogCacheStart \in Nat
            /\ restarts = 0 => CacheAgrees

(* The threads.  A request is handled only by a server that does not lead; *)
(* what a leader's main thread has read is no longer than its log.         *)
ThreadTypes ==
  /\ mCurTermId \in Nat
  /\ leading \in BOOLEAN /\ down \in BOOLEAN
  /\ msgPc \in {"idle", "check", "entry", "append", "commit", "apply"}
  /\ msg \in [firstLogId : Nat, prevLogTermId : Nat, terms : Seq(Nat), commitIndex : Nat, term : Nat]
  /\ next \in Nat
  /\ dataPc \in {"idle", "popped", "appended", "ended"}
  /\ dataLog \in Nat
  /\ mainRead \in Nat \cup {-1}
  /\ restarts \in 0..MaxRestarts

MsgInv == /\ msgPc \in {"check", "entry", "append", "commit"} => ~leading
          /\ msgPc \in {"check", "entry", "append"} => next >= 1
          /\ msgPc = "append" => next <= Len(msg.terms)

ReadWithinLog == leading => mainRead <= mLastLogId

IInv == QueueInv /\ FileInv /\ CacheInv /\ ThreadTypes /\ MsgInv /\ ReadWithinLog

USE LogMgrAssumption

-------------------------------------------------------------------------------
(***************************************************************************)
(* The beginning, the end and a stretch of a sequence.                     *)
(***************************************************************************)
LEMMA Stretch ==
  ASSUME NEW S, NEW q \in Seq(S), NEW f \in Nat \ {0}, NEW n \in f - 1..Len(q)
  PROVE  /\ SubSeq(q, f, n) \in Seq(S) /\ Len(SubSeq(q, f, n)) = n - f + 1
         /\ \A i \in 1..n - f + 1 : SubSeq(q, f, n)[i] = q[f + i - 1]
<1>1. Len(q) \in Nat /\ \A i \in f..n : q[i] \in S
  OBVIOUS
<1>2. f \in Int /\ n \in Int
  BY <1>1
<1>3. /\ SubSeq(q, f, n) \in Seq(S)
      /\ Len(SubSeq(q, f, n)) = IF f <= n THEN n - f + 1 ELSE 0
      /\ \A i \in 1..n - f + 1 : SubSeq(q, f, n)[i] = q[f + i - 1]
  BY <1>1, <1>2, SubSeqProperties
<1>4. (IF f <= n THEN n - f + 1 ELSE 0) = n - f + 1
  BY <1>1
<1> QED BY <1>3, <1>4

LEMMA Prefix ==
  ASSUME NEW S, NEW q \in Seq(S), NEW k \in 0..Len(q)
  PROVE  /\ SubSeq(q, 1, k) \in Seq(S) /\ Len(SubSeq(q, 1, k)) = k
         /\ \A i \in 1..k : SubSeq(q, 1, k)[i] = q[i]
<1>1. k - 1 + 1 = k /\ \A i \in 1..k : 1 + i - 1 = i
  OBVIOUS
<1>2. /\ SubSeq(q, 1, k) \in Seq(S) /\ Len(SubSeq(q, 1, k)) = k - 1 + 1
      /\ \A i \in 1..k - 1 + 1 : SubSeq(q, 1, k)[i] = q[1 + i - 1]
  BY Stretch
<1> QED BY <1>1, <1>2

LEMMA Suffix ==
  ASSUME NEW S, NEW q \in Seq(S), NEW k \in 0..Len(q)
  PROVE  /\ SubSeq(q, k + 1, Len(q)) \in Seq(S)
         /\ Len(SubSeq(q, k + 1, Len(q))) = Len(q) - k
         /\ \A i \in 1..Len(q) - k : SubSeq(q, k + 1, Len(q))[i] = q[i + k]
<1> DEFINE f == k + 1
           n == Len(q)
<1>1. /\ f \in Nat \ {0} /\ n \in f - 1..Len(q) /\ n - f + 1 = n - k
      /\ \A i \in 1..n - k : f + i - 1 = i + k
  OBVIOUS
<1> HIDE DEF f, n
<1>2. /\ SubSeq(q, f, n) \in Seq(S) /\ Len(SubSeq(q, f, n)) = n - f + 1
      /\ \A i \in 1..n - f + 1 : SubSeq(q, f, n)[i] = q[f + i - 1]
  BY <1>1, Stretch
<1>3. /\ SubSeq(q, f, n) \in Seq(S) /\ Len(SubSeq(q, f, n)) = n - k
      /\ \A i \in 1..n - k : SubSeq(q, f, n)[i] = q[i + k]
  BY <1>1, <1>2
<1> QED BY <1>3 DEF f, n

-------------------------------------------------------------------------------
(***************************************************************************)
(* appendLog, removeLogs and setLastLogIdApplied.                          *)
(***************************************************************************)
LEMMA PushQueue ==
  ASSUME QueueInv, NEW term \in Nat, Push(term), UNCHANGED <<mLastLogIdApplied, mCommitIndex>>
  PROVE  QueueInv'
<1> DEFINE e == [logId |-> mLastLogId + 1, termId |-> term]
<1>1. e \in Entry /\ e.logId = mLastLogId + 1
  BY DEF QueueInv, Entry
<1>2. mLastLogIdApplied + Len(mLogQueue) = mLastLogId
  BY DEF QueueInv, QueueHoldsUnapplied, Push
<1> HIDE DEF e
<1>3. /\ mLogQueue' = Append(mLogQueue, e) /\ mLogQueue \in Seq(Entry)
      /\ mLastLogId' = mLastLogId + 1 /\ mLock' = "free" /\ mLock = "free"
  BY DEF QueueInv, Push, e
<1>4. /\ mLogQueue' \in Seq(Entry) /\ Len(mLogQueue') = Len(mLogQueue) + 1
      /\ Len(mLogQueue) \in Nat /\ DOMAIN mLogQueue' = 1..Len(mLogQueue) + 1
      /\ \A i \in 1..Len(mLogQueue) : mLogQueue'[i] = mLogQueue[i]
      /\ mLogQueue'[Len(mLogQueue) + 1] = e
  BY <1>1, <1>3
<1>5. \A i \in DOMAIN mLogQueue' : mLogQueue'[i].logId = mLastLogIdApplied + i
  BY <1>1, <1>2, <1>3, <1>4 DEF QueueInv, QueueHoldsUnapplied
<1> QED BY <1>2, <1>3, <1>4, <1>5 DEF QueueInv, QueueHoldsUnapplied

LEMMA WrongQueue ==
  ASSUME QueueInv, NEW id, WrongLogId(id, "msg"), UNCHANGED <<mLastLogIdApplied, mCommitIndex>>
  PROVE  QueueInv'
BY DEF QueueInv, QueueHoldsUnapplied, WrongLogId, logVars

(* What removeLogs leaves.                                                 *)
LEMMA RemoveQueue ==
  ASSUME QueueInv, NEW id \in Int, Removable(id), RemoveLogs(id),
         UNCHANGED <<mLastLogIdApplied, mCommitIndex>>
  PROVE  /\ QueueInv'
         /\ \E k \in 0..Len(mLogQueue) :
              /\ mLogQueue' = SubSeq(mLogQueue, 1, k) /\ mCommitIndex <= mLastLogIdApplied + k
<1>1. /\ mLastLogIdApplied + Len(mLogQueue) = mLastLogId
      /\ mLastLogIdApplied <= mCommitIndex /\ mLock = "free" /\ mLock' = "free"
      /\ mLogQueue \in Seq(Entry) /\ Len(mLogQueue) \in Nat
      /\ mLastLogId \in Nat /\ mLastLogIdApplied \in Nat /\ mCommitIndex \in Nat
  BY DEF QueueInv, QueueHoldsUnapplied, RemoveLogs
<1>2. PICK n \in (id - 1)..mLastLogId :
        mLastLogId' = n /\ mLogQueue' = SubSeq(mLogQueue, 1, n - mLastLogIdApplied)
  BY DEF RemoveLogs
<1>3. n \in Nat /\ mCommitIndex <= n /\ n - mLastLogIdApplied \in 0..Len(mLogQueue)
  BY <1>1 DEF Removable
<1> DEFINE k == n - mLastLogIdApplied
<1>4. \A i \in 1..k : i \in DOMAIN mLogQueue
  BY <1>1, <1>3
<1>5. /\ mLogQueue' \in Seq(Entry) /\ Len(mLogQueue') = k
      /\ \A i \in 1..k : mLogQueue'[i] = mLogQueue[i]
  BY <1>1, <1>2, <1>3, Prefix
<1>6. \A i \in DOMAIN mLogQueue' : mLogQueue'[i].logId = mLastLogIdApplied + i
  BY <1>4, <1>5 DEF QueueInv, QueueHoldsUnapplied
<1> QED BY <1>1, <1>2, <1>3, <1>5, <1>6 DEF QueueInv, QueueHoldsUnapplied

(* setLastLogIdApplied takes the entries up to id, no more and no fewer.   *)
LEMMA ApplyingIs ==
  ASSUME QueueInv, NEW id \in Nat, mLastLogIdApplied <= id,
         id <= mLastLogIdApplied + Len(mLogQueue)
  PROVE  /\ Applying(id) = id - mLastLogIdApplied
         /\ id - mLastLogIdApplied \in 0..Len(mLogQueue)
<1> DEFINE P(k) == /\ \A i \in 1..k : mLogQueue[i].logId <= id
                   /\ k < Len(mLogQueue) => mLogQueue[k + 1].logId > id
           k0 == id - mLastLogIdApplied
<1>1. /\ Len(mLogQueue) \in Nat /\ mLastLogIdApplied \in Nat
      /\ \A i \in 1..Len(mLogQueue) : mLogQueue[i].logId = mLastLogIdApplied + i
  BY DEF QueueInv, QueueHoldsUnapplied
<1>2. k0 \in 0..Len(mLogQueue)
  BY <1>1
<1>3. P(k0)
  <2>1. \A i \in 1..k0 : i \in 1..Len(mLogQueue) /\ mLastLogIdApplied + i <= id
    BY <1>1, <1>2
  <2>2. k0 < Len(mLogQueue) =>
          k0 + 1 \in 1..Len(mLogQueue) /\ mLastLogIdApplied + (k0 + 1) > id
    BY <1>1, <1>2
  <2> HIDE DEF k0
  <2> QED BY <1>1, <2>1, <2>2
<1>4. ASSUME NEW k \in 0..Len(mLogQueue), P(k) PROVE k = k0
  <2>1. ~(k < k0)
    <3>1. SUFFICES ASSUME k < k0 PROVE FALSE
      OBVIOUS
    <3>2. k + 1 \in 1..Len(mLogQueue) /\ mLastLogIdApplied + (k + 1) > id
      BY <1>1, <1>2, <1>4, <3>1
    <3> QED BY <1>1, <3>1, <3>2
  <2>2. ~(k > k0)
    <3>1. SUFFICES ASSUME k > k0 PROVE FALSE
      OBVIOUS
    <3>2. k0 + 1 \in 1..k /\ k0 + 1 \in 1..Len(mLogQueue)
      BY <1>1, <1>2, <3>1
    <3>3. mLogQueue[k0 + 1].logId <= id /\ mLogQueue[k0 + 1].logId = id + 1
      BY <1>1, <1>4, <3>2
    <3> QED BY <3>3
  <2> QED BY <1>2, <2>1, <2>2
<1>5. Applying(id) = CHOOSE k \in 0..Len(mLogQueue) : P(k)
  BY DEF Applying
<1> HIDE DEF P, k0
<1>6. (CHOOSE k \in 0..Len(mLogQueue) : P(k)) = k0
  BY <1>2, <1>3, <1>4
<1> QED BY <1>2, <1>5, <1>6 DEF k0

(* Nothing is lost between the queue and the files.                        *)
LEMMA ApplySplits ==
  ASSUME QueueInv, FileInv, NEW c \in Nat, mLastLogIdApplied < c, c <= mLastLogId,
         mLock = "free", SetLastLogIdApplied(c)
  PROVE  \E k \in 1..Len(mLogQueue) :
           /\ k = c - mLastLogIdApplied
           /\ SubSeq(mLogQueue, 1, k) \in Seq(Entry) /\ Len(SubSeq(mLogQueue, 1, k)) = k
           /\ \A i \in 1..k : SubSeq(mLogQueue, 1, k)[i] = mLogQueue[i]
           /\ appliedFile' = appliedFile \o SubSeq(mLogQueue, 1, k)
           /\ mAppliedLogQueue' = LastOf(mAppliedLogQueue \o SubSeq(mLogQueue, 1, k),
                                         RAFT_APPLIED_LOG_QUEUE_SIZE)
           /\ mLogQueue' \in Seq(Entry) /\ Len(mLogQueue') = Len(mLogQueue) - k
           /\ \A i \in 1..Len(mLogQueue) - k : mLogQueue'[i] = mLogQueue[i + k]
<1> DEFINE k == c - mLastLogIdApplied
<1>1. /\ mLastLogIdApplied + Len(mLogQueue) = mLastLogId /\ mLogQueue \in Seq(Entry)
      /\ Len(mLogQueue) \in Nat /\ mLastLogIdApplied \in Nat
      /\ \A i \in 1..Len(mLogQueue) : mLogQueue[i] \in Entry
  BY DEF QueueInv, QueueHoldsUnapplied
<1>2. Applying(c) = k /\ k \in 1..Len(mLogQueue)
  BY <1>1, ApplyingIs
<1>3. /\ mLogQueue' = SubSeq(mLogQueue, k + 1, Len(mLogQueue))
      /\ appliedFile' = appliedFile \o SubSeq(mLogQueue, 1, k)
      /\ mAppliedLogQueue' = LastOf(mAppliedLogQueue \o SubSeq(mLogQueue, 1, k),
                                    RAFT_APPLIED_LOG_QUEUE_SIZE)
  BY <1>2 DEF SetLastLogIdApplied
<1> HIDE DEF k
<1>4. /\ SubSeq(mLogQueue, 1, k) \in Seq(Entry) /\ Len(SubSeq(mLogQueue, 1, k)) = k
      /\ \A i \in 1..k : SubSeq(mLogQueue, 1, k)[i] = mLogQueue[i]
  BY <1>1, <1>2, Prefix
<1>5. /\ mLogQueue' \in Seq(Entry) /\ Len(mLogQueue') = Len(mLogQueue) - k
      /\ \A i \in 1..Len(mLogQueue) - k : mLogQueue'[i] = mLogQueue[i + k]
  BY <1>1, <1>2, <1>3, Suffix
<1> QED BY <1>2, <1>3, <1>4, <1>5 DEF k

LEMMA LastOfDrops ==
  ASSUME NEW S, NEW w \in Seq(S), NEW n \in Nat
  PROVE  /\ LastOf(w, n) \in Seq(S) /\ Len(LastOf(w, n)) <= n
         /\ \E d \in 0..Len(w) : /\ Len(LastOf(w, n)) = Len(w) - d /\ Len(w) - d <= n
                                 /\ \A i \in 1..Len(w) - d : LastOf(w, n)[i] = w[i + d]
<1> DEFINE d == IF Len(w) > n THEN Len(w) - n ELSE 0
<1>1. d \in 0..Len(w) /\ Len(w) - d <= n
  OBVIOUS
<1>2. d + 1 = IF Len(w) > n THEN Len(w) - n + 1 ELSE 1
  OBVIOUS
<1>3. LastOf(w, n) = SubSeq(w, d + 1, Len(w))
  BY <1>2 DEF LastOf
<1> HIDE DEF d
<1>4. /\ SubSeq(w, d + 1, Len(w)) \in Seq(S)
      /\ Len(SubSeq(w, d + 1, Len(w))) = Len(w) - d
      /\ \A i \in 1..Len(w) - d : SubSeq(w, d + 1, Len(w))[i] = w[i + d]
  BY <1>1, Suffix
<1>5. /\ LastOf(w, n) \in Seq(S) /\ Len(LastOf(w, n)) = Len(w) - d
      /\ \A i \in 1..Len(w) - d : LastOf(w, n)[i] = w[i + d]
  BY <1>3, <1>4
<1> QED BY <1>1, <1>5

(* What follows a sequence comes after it.                                 *)
LEMMA Concat ==
  ASSUME NEW S, NEW u \in Seq(S), NEW v \in Seq(S)
  PROVE  /\ u \o v \in Seq(S) /\ Len(u \o v) = Len(u) + Len(v)
         /\ \A i \in 1..Len(u) : (u \o v)[i] = u[i]
         /\ \A i \in 1..Len(v) : (u \o v)[Len(u) + i] = v[i]
<1>1. /\ u \o v \in Seq(S) /\ Len(u \o v) = Len(u) + Len(v)
      /\ Len(u) \in Nat /\ Len(v) \in Nat
      /\ \A i \in 1..Len(u) + Len(v) :
           (u \o v)[i] = IF i <= Len(u) THEN u[i] ELSE v[i - Len(u)]
  BY ConcatProperties
<1>2. ASSUME NEW i \in 1..Len(u) PROVE (u \o v)[i] = u[i]
  <2>1. i \in 1..Len(u) + Len(v) /\ i <= Len(u)
    BY <1>1
  <2> QED BY <1>1, <2>1
<1>3. ASSUME NEW i \in 1..Len(v) PROVE (u \o v)[Len(u) + i] = v[i]
  <2>1. /\ Len(u) + i \in 1..Len(u) + Len(v) /\ ~(Len(u) + i <= Len(u))
        /\ Len(u) + i - Len(u) = i
    BY <1>1
  <2> QED BY <1>1, <2>1
<1> QED BY <1>1, <1>2, <1>3

(* It stays the end when both grow by h, and when it drops its beginning.  *)
LEMMA EndGrows ==
  ASSUME NEW S, NEW q \in Seq(S), NEW f \in Seq(S), NEW h \in Seq(S), EndOf(q, f)
  PROVE  EndOf(q \o h, f \o h)
<1> DEFINE w == q \o h
           g == f \o h
<1>1. /\ Len(q) \in Nat /\ Len(f) \in Nat /\ Len(h) \in Nat /\ Len(q) <= Len(f)
      /\ \A i \in 1..Len(q) : q[i] = f[Len(f) - Len(q) + i]
  BY DEF EndOf
<1>2. /\ Len(w) = Len(q) + Len(h)
      /\ \A i \in 1..Len(q) : w[i] = q[i]
      /\ \A i \in 1..Len(h) : w[Len(q) + i] = h[i]
  BY Concat
<1>3. /\ Len(g) = Len(f) + Len(h)
      /\ \A i \in 1..Len(f) : g[i] = f[i]
      /\ \A i \in 1..Len(h) : g[Len(f) + i] = h[i]
  BY Concat
<1> HIDE DEF w, g
<1>4. Len(w) <= Len(g) /\ Len(g) - Len(w) = Len(f) - Len(q)
  BY <1>1, <1>2, <1>3
<1>5. ASSUME NEW i \in 1..Len(w) PROVE w[i] = g[Len(f) - Len(q) + i]
  <2>1. CASE i <= Len(q)
    <3>1. i \in 1..Len(q) /\ Len(f) - Len(q) + i \in 1..Len(f)
      BY <1>1, <1>2, <2>1
    <3> QED BY <1>1, <1>2, <1>3, <3>1
  <2>2. CASE i > Len(q)
    <3>1. PICK j \in 1..Len(h) : i = Len(q) + j
      <4>1. i - Len(q) \in 1..Len(h) /\ i = Len(q) + (i - Len(q))
        BY <1>1, <1>2, <2>2
      <4> QED BY <4>1
    <3>2. Len(f) - Len(q) + i = Len(f) + j
      BY <1>1, <3>1
    <3> QED BY <1>2, <1>3, <3>1, <3>2
  <2> QED BY <1>1, <1>2, <2>1, <2>2
<1>6. EndOf(w, g)
  BY <1>4, <1>5 DEF EndOf
<1> QED BY <1>6 DEF w, g

LEMMA EndShrinks ==
  ASSUME NEW S, NEW w \in Seq(S), NEW f \in Seq(S), EndOf(w, f), NEW n \in Nat
  PROVE  LastOf(w, n) \in Seq(S) /\ Len(LastOf(w, n)) <= n /\ EndOf(LastOf(w, n), f)
<1> DEFINE q == LastOf(w, n)
<1>1. q \in Seq(S) /\ \E d \in 0..Len(w) : /\ Len(q) = Len(w) - d /\ Len(w) - d <= n
                                           /\ \A i \in 1..Len(w) - d : q[i] = w[i + d]
  BY LastOfDrops
<1>2. PICK d \in 0..Len(w) : /\ Len(q) = Len(w) - d /\ Len(w) - d <= n
                             /\ \A i \in 1..Len(w) - d : q[i] = w[i + d]
  BY <1>1
<1>3. /\ Len(w) \in Nat /\ Len(f) \in Nat /\ Len(w) <= Len(f)
      /\ \A i \in 1..Len(w) : w[i] = f[Len(f) - Len(w) + i]
  BY DEF EndOf
<1> HIDE DEF q
<1>4. ASSUME NEW i \in 1..Len(q) PROVE q[i] = f[Len(f) - Len(q) + i]
  <2>1. /\ i \in 1..Len(w) - d /\ i + d \in 1..Len(w)
        /\ Len(f) - Len(w) + (i + d) = Len(f) - Len(q) + i
    BY <1>2, <1>3
  <2> QED BY <1>2, <1>3, <2>1
<1>5. Len(q) <= n /\ Len(q) <= Len(f)
  BY <1>2, <1>3
<1>6. EndOf(q, f)
  BY <1>4, <1>5 DEF EndOf
<1> QED BY <1>1, <1>5, <1>6 DEF q

LEMMA ApplyQueue ==
  ASSUME QueueInv, FileInv, ApplyUpTo(mCommitIndex),
         UNCHANGED <<mLastLogId, mCommitIndex, mLock>>
  PROVE  QueueInv'
<1>0. mCommitIndex \in Nat /\ mLastLogIdApplied \in Nat /\ mCommitIndex <= mLastLogId
  BY DEF QueueInv, QueueHoldsUnapplied
<1>1. CASE mCommitIndex <= mLastLogIdApplied
  BY <1>1 DEF ApplyUpTo, QueueInv, QueueHoldsUnapplied, logVars
<1>2. CASE ~(mCommitIndex <= mLastLogIdApplied)
  <2>1. mLock = "free" /\ SetLastLogIdApplied(mCommitIndex) /\ mLastLogIdApplied < mCommitIndex
    BY <1>0, <1>2 DEF ApplyUpTo
  <2>2. PICK k \in 1..Len(mLogQueue) :
          /\ k = mCommitIndex - mLastLogIdApplied
          /\ mLogQueue' \in Seq(Entry) /\ Len(mLogQueue') = Len(mLogQueue) - k
          /\ \A i \in 1..Len(mLogQueue) - k : mLogQueue'[i] = mLogQueue[i + k]
    BY <1>0, <2>1, ApplySplits
  <2>3. mLastLogIdApplied' = mCommitIndex
    BY <2>1 DEF SetLastLogIdApplied
  <2>4. /\ Len(mLogQueue) \in Nat /\ mLastLogIdApplied + Len(mLogQueue) = mLastLogId
        /\ \A i \in 1..Len(mLogQueue) : mLogQueue[i].logId = mLastLogIdApplied + i
    BY <2>1 DEF QueueInv, QueueHoldsUnapplied
  <2>5. ASSUME NEW i \in 1..Len(mLogQueue) - k
        PROVE  mLogQueue'[i].logId = mLastLogIdApplied' + i
    <3>1. i + k \in 1..Len(mLogQueue) /\ mLastLogIdApplied + (i + k) = mLastLogIdApplied' + i
      BY <1>0, <2>2, <2>3, <2>4
    <3> QED BY <2>2, <2>4, <3>1
  <2>6. DOMAIN mLogQueue' = 1..Len(mLogQueue) - k
    BY <2>2
  <2>7. mLastLogIdApplied' + Len(mLogQueue') = mLastLogId
    BY <1>0, <2>2, <2>3, <2>4
  <2> QED BY <1>0, <2>1, <2>2, <2>3, <2>5, <2>6, <2>7 DEF QueueInv, QueueHoldsUnapplied
<1> QED BY <1>1, <1>2

(* The files grow by what leaves the queue, and mAppliedLogQueue stays     *)
(* their end.                                                              *)
LEMMA ApplyFiles ==
  ASSUME QueueInv, FileInv, CacheInv, ApplyUpTo(mCommitIndex),
         UNCHANGED <<mLastLogId, mCommitIndex, mLock, cacheVars, restarts>>
  PROVE  FileInv' /\ CacheInv'
<1>0. /\ mCommitIndex \in Nat /\ mLastLogIdApplied \in Nat /\ mCommitIndex <= mLastLogId
      /\ mAppliedLogCacheStart \in Nat /\ mAppliedLogCache \in Seq(Entry)
      /\ Len(mAppliedLogCache) \in Nat
  BY DEF QueueInv, QueueHoldsUnapplied, CacheInv
<1>1. CASE mCommitIndex <= mLastLogIdApplied
  BY <1>1 DEF ApplyUpTo, FileInv, FilesAgree, EndOf, CacheInv, CacheAgrees, logVars, cacheVars
<1>2. CASE ~(mCommitIndex <= mLastLogIdApplied)
  <2>1. mLock = "free" /\ SetLastLogIdApplied(mCommitIndex) /\ mLastLogIdApplied < mCommitIndex
    BY <1>0, <1>2 DEF ApplyUpTo
  <2> DEFINE k == mCommitIndex - mLastLogIdApplied
             head == SubSeq(mLogQueue, 1, k)
             w == mAppliedLogQueue \o head
  <2>2. /\ k \in 1..Len(mLogQueue)
        /\ head \in Seq(Entry) /\ Len(head) = k
        /\ \A i \in 1..k : head[i] = mLogQueue[i]
        /\ appliedFile' = appliedFile \o head
        /\ mAppliedLogQueue' = LastOf(w, RAFT_APPLIED_LOG_QUEUE_SIZE)
    <3> HIDE DEF k
    <3>1. PICK j \in 1..Len(mLogQueue) :
            /\ j = mCommitIndex - mLastLogIdApplied
            /\ SubSeq(mLogQueue, 1, j) \in Seq(Entry) /\ Len(SubSeq(mLogQueue, 1, j)) = j
            /\ \A i \in 1..j : SubSeq(mLogQueue, 1, j)[i] = mLogQueue[i]
            /\ appliedFile' = appliedFile \o SubSeq(mLogQueue, 1, j)
            /\ mAppliedLogQueue' = LastOf(mAppliedLogQueue \o SubSeq(mLogQueue, 1, j),
                                          RAFT_APPLIED_LOG_QUEUE_SIZE)
      BY <1>0, <2>1, ApplySplits
    <3>2. j = k
      BY <3>1 DEF k
    <3> QED BY <3>1, <3>2
  <2>2h. head \in Seq(Entry)
    BY <2>2
  <2>3. /\ Len(mLogQueue) \in Nat
        /\ \A i \in 1..Len(mLogQueue) : mLogQueue[i].logId = mLastLogIdApplied + i
    BY DEF QueueInv, QueueHoldsUnapplied
  <2>4. mLastLogIdApplied' = mCommitIndex /\ mCommitIndex = mLastLogIdApplied + k
    BY <1>0, <2>1 DEF SetLastLogIdApplied
  <2> HIDE DEF k, head
  <2>5. /\ appliedFile \in Seq(Entry) /\ Len(appliedFile) \in Nat
        /\ mAppliedLogQueue \in Seq(Entry)
        /\ mLastLogIdApplied <= Len(appliedFile) /\ restarts \in Nat
    BY DEF FileInv
  <2>6. /\ appliedFile \o head \in Seq(Entry)
        /\ Len(appliedFile \o head) = Len(appliedFile) + Len(head)
        /\ \A i \in 1..Len(appliedFile) : (appliedFile \o head)[i] = appliedFile[i]
        /\ \A i \in 1..Len(head) : (appliedFile \o head)[Len(appliedFile) + i] = head[i]
    <3>1. appliedFile \in Seq(Entry)
      BY DEF FileInv
    <3> QED BY <2>2h, <3>1, Concat
  <2>7. /\ appliedFile' \in Seq(Entry) /\ Len(appliedFile') = Len(appliedFile) + k
        /\ \A i \in 1..Len(appliedFile) : appliedFile'[i] = appliedFile[i]
        /\ \A i \in 1..k : appliedFile'[Len(appliedFile) + i] = head[i]
    BY <2>2, <2>6
  <2>8. w \in Seq(Entry)
    <3>1. mAppliedLogQueue \in Seq(Entry)
      BY DEF FileInv
    <3> QED BY <2>2h, <3>1
  <2> HIDE DEF w
  <2>9. mAppliedLogQueue' \in Seq(Entry) /\ Len(mAppliedLogQueue') <= RAFT_APPLIED_LOG_QUEUE_SIZE
    <3>1. RAFT_APPLIED_LOG_QUEUE_SIZE \in Nat
      OBVIOUS
    <3>2. /\ Len(w) \in Nat
          /\ LastOf(w, RAFT_APPLIED_LOG_QUEUE_SIZE) \in Seq(Entry)
          /\ Len(LastOf(w, RAFT_APPLIED_LOG_QUEUE_SIZE)) <= RAFT_APPLIED_LOG_QUEUE_SIZE
      BY <2>8, <3>1, LastOfDrops
    <3> QED BY <2>2, <3>2
  <2>10. ASSUME restarts = 0 PROVE FilesAgree'
    <3>1. /\ Len(appliedFile) = mLastLogIdApplied
          /\ \A i \in 1..Len(appliedFile) : appliedFile[i].logId = i
          /\ EndOf(mAppliedLogQueue, appliedFile)
      BY <2>10 DEF FileInv, FilesAgree
    <3>2. Len(appliedFile') = mLastLogIdApplied'
      BY <2>4, <2>7, <3>1
    <3>3. ASSUME NEW i \in 1..Len(appliedFile') PROVE appliedFile'[i].logId = i
      <4>1. CASE i <= Len(appliedFile)
        <5>1. i \in 1..Len(appliedFile)
          BY <2>5, <2>7, <4>1
        <5> QED BY <2>7, <3>1, <5>1
      <4>2. CASE i > Len(appliedFile)
        <5>1. PICK j \in 1..k : i = Len(appliedFile) + j
          <6>1. i - Len(appliedFile) \in 1..k /\ i = Len(appliedFile) + (i - Len(appliedFile))
            BY <2>2, <2>3, <2>5, <2>7, <4>2
          <6> QED BY <6>1
        <5>2. appliedFile'[i] = mLogQueue[j] /\ j \in 1..Len(mLogQueue)
          BY <2>2, <2>3, <2>7, <5>1
        <5> QED BY <2>3, <3>1, <5>1, <5>2
      <4> QED BY <2>2, <2>3, <2>5, <2>7, <4>1, <4>2
    <3>4. EndOf(w, appliedFile')
      <4>1. EndOf(mAppliedLogQueue \o head, appliedFile \o head)
        BY <2>2, <2>5, <3>1, EndGrows
      <4> QED BY <2>2, <4>1 DEF w
    <3>5. EndOf(LastOf(w, RAFT_APPLIED_LOG_QUEUE_SIZE), appliedFile')
      <4>1. RAFT_APPLIED_LOG_QUEUE_SIZE \in Nat
        OBVIOUS
      <4> QED BY <2>7, <2>8, <3>4, <4>1, EndShrinks
    <3>6. EndOf(mAppliedLogQueue', appliedFile')
      BY <2>2, <3>5
    <3>7. EndOf(mAppliedLogQueue, appliedFile)'
      BY <3>6 DEF EndOf
    <3> QED BY <3>2, <3>3, <3>7 DEF FilesAgree
  <2>11. ASSUME restarts = 0 PROVE CacheAgrees'
    <3> SUFFICES ASSUME mAppliedLogCacheStart # 0
                 PROVE  /\ mAppliedLogCacheStart + Len(mAppliedLogCache) - 1 <= Len(appliedFile')
                        /\ \A i \in 1..Len(mAppliedLogCache) :
                             mAppliedLogCache[i] = appliedFile'[mAppliedLogCacheStart + i - 1]
      BY DEF CacheAgrees, cacheVars
    <3>1. /\ mAppliedLogCacheStart + Len(mAppliedLogCache) - 1 <= Len(appliedFile)
          /\ \A i \in 1..Len(mAppliedLogCache) :
               mAppliedLogCache[i] = appliedFile[mAppliedLogCacheStart + i - 1]
      BY <2>11 DEF CacheInv, CacheAgrees
    <3>2. \A i \in 1..Len(mAppliedLogCache) :
            mAppliedLogCacheStart + i - 1 \in 1..Len(appliedFile)
      BY <1>0, <2>5, <3>1
    <3>3. k \in Nat
      BY <2>2
    <3>4. mAppliedLogCacheStart + Len(mAppliedLogCache) - 1 <= Len(appliedFile')
      BY <1>0, <2>5, <2>7, <3>1, <3>3
    <3> QED BY <2>7, <3>1, <3>2, <3>4
  <2>12. FileInv'
    <3>1. mLastLogIdApplied' <= Len(appliedFile') /\ mLastLogIdApplied' \in Nat
      BY <1>0, <2>2, <2>4, <2>5, <2>7
    <3> QED BY <2>5, <2>7, <2>9, <2>10, <3>1 DEF FileInv
  <2>13. CacheInv'
    BY <1>0, <2>11 DEF CacheInv, cacheVars
  <2> QED BY <2>12, <2>13
<1> QED BY <1>1, <1>2

-------------------------------------------------------------------------------
(***************************************************************************)
(* getLog.                                                                 *)
(***************************************************************************)
(* It reads the entry it looks for, and nothing that is not applied.       *)
LEMMA ReadUpToBounds ==
  ASSUME NEW id \in Nat \ {0}, mLastLogIdApplied \in Nat, id <= mLastLogIdApplied
  PROVE  ReadUpTo(id) \in id..mLastLogIdApplied
<1> DEFINE r == (id - 1) % RAFT_LOG_PER_FILE
           u == id + RAFT_LOG_PER_FILE - 1 - r
           v == id + RAFT_APPLIED_LOG_CACHE_SIZE - 1
<1>1. r \in 0..RAFT_LOG_PER_FILE - 1
  <2>1. id - 1 \in Nat /\ RAFT_LOG_PER_FILE \in Nat \ {0}
    OBVIOUS
  <2> QED BY <2>1, Z3
<1>2. ReadUpTo(id) = Least(u, Least(v, mLastLogIdApplied))
  BY DEF ReadUpTo
<1> HIDE DEF r
<1>3. u \in Int /\ u >= id /\ v \in Int /\ v >= id
  BY <1>1
<1> HIDE DEF u, v
<1> QED BY <1>2, <1>3 DEF Least

LEMMA GetLogCache ==
  ASSUME FileInv, CacheInv, NEW id \in Int, GetLog(id),
         UNCHANGED <<mLastLogIdApplied, appliedFile, restarts>>
  PROVE  CacheInv'
<1>1. CASE ~MustReadFile(id)
  BY <1>1 DEF GetLog, CacheInv, CacheAgrees, cacheVars
<1>2. CASE MustReadFile(id)
  <2> DEFINE u == ReadUpTo(id)
  <2>1. /\ mLastLogIdApplied \in Nat /\ mLastLogIdApplied <= Len(appliedFile)
        /\ appliedFile \in Seq(Entry) /\ Len(appliedFile) \in Nat
    BY DEF FileInv
  <2>2. id \in Nat \ {0} /\ id <= mLastLogIdApplied
    BY <1>2, <2>1 DEF MustReadFile
  <2>3. u \in id..mLastLogIdApplied
    BY <2>1, <2>2, ReadUpToBounds
  <2>4. mAppliedLogCache' = SubSeq(appliedFile, id, u) /\ mAppliedLogCacheStart' = id
    BY <1>2 DEF GetLog
  <2> HIDE DEF u
  <2>5. u \in id - 1..Len(appliedFile)
    BY <2>1, <2>2, <2>3
  <2>6. /\ SubSeq(appliedFile, id, u) \in Seq(Entry)
        /\ Len(SubSeq(appliedFile, id, u)) = u - id + 1
        /\ \A i \in 1..u - id + 1 : SubSeq(appliedFile, id, u)[i] = appliedFile[id + i - 1]
    BY <2>1, <2>2, <2>5, Stretch
  <2>7. id + (u - id + 1) - 1 <= Len(appliedFile)
    BY <2>1, <2>2, <2>3
  <2> QED BY <2>2, <2>4, <2>6, <2>7 DEF CacheInv, CacheAgrees
<1> QED BY <1>1, <1>2

(***************************************************************************)
(* What an operation leaves alone.                                         *)
(***************************************************************************)
LEMMA QueueSame ==
  ASSUME QueueInv, UNCHANGED <<mLastLogId, mLastLogIdApplied, mCommitIndex, mLock, mLogQueue>>
  PROVE  QueueInv'
BY DEF QueueInv, QueueHoldsUnapplied

LEMMA FilesSame ==
  ASSUME FileInv, UNCHANGED <<mLastLogIdApplied, restarts, appliedFile, mAppliedLogQueue>>
  PROVE  FileInv'
BY DEF FileInv, FilesAgree, EndOf

LEMMA CacheSame ==
  ASSUME CacheInv, UNCHANGED <<cacheVars, restarts, appliedFile>>
  PROVE  CacheInv'
BY DEF CacheInv, CacheAgrees, cacheVars

LEMMA RequestTypes ==
  ASSUME NEW m \in Request
  PROVE  m \in [firstLogId : Nat, prevLogTermId : Nat, terms : Seq(Nat), commitIndex : Nat,
                term : Nat]
<1>1. PICK l \in LeaderLogs : m \in Requests(l)
  BY DEF Request
<1>2. l \in Seq(Nat) /\ Len(l) \in Nat /\ \A i \in 1..Len(l) : l[i] \in Nat
  OBVIOUS
<1>3. CASE m \in [firstLogId : {0}, prevLogTermId : {0}, terms : {<<>>}, commitIndex : 0..Len(l),
                  term : 1..MaxTerm]
  <2>1. <<>> \in Seq(Nat) /\ 0 \in Nat /\ 0..Len(l) \subseteq Nat /\ 1..MaxTerm \subseteq Nat
    BY <1>2
  <2> QED BY <1>3, <2>1
<1>4. CASE \E f \in 1..Len(l) :
             m \in [firstLogId : {f}, prevLogTermId : {IF f = 1 THEN 0 ELSE l[f - 1]},
                    terms : {SubSeq(l, f, n) : n \in f..Len(l)}, commitIndex : 0..Len(l),
                    term : 1..MaxTerm]
  <2>1. PICK f \in 1..Len(l) :
             m \in [firstLogId : {f}, prevLogTermId : {IF f = 1 THEN 0 ELSE l[f - 1]},
                    terms : {SubSeq(l, f, n) : n \in f..Len(l)}, commitIndex : 0..Len(l),
                    term : 1..MaxTerm]
    BY <1>4
  <2>2. (IF f = 1 THEN 0 ELSE l[f - 1]) \in Nat
    <3>1. f # 1 => f - 1 \in 1..Len(l)
      BY <1>2
    <3> QED BY <1>2, <3>1
  <2>3. ASSUME NEW n \in f..Len(l) PROVE SubSeq(l, f, n) \in Seq(Nat)
    <3>1. f \in Nat \ {0} /\ n \in f - 1..Len(l)
      BY <1>2
    <3> QED BY <1>2, <3>1, Stretch
  <2>4. /\ m.prevLogTermId = (IF f = 1 THEN 0 ELSE l[f - 1])
        /\ m.terms \in {SubSeq(l, f, n) : n \in f..Len(l)}
        /\ m.firstLogId = f /\ m.commitIndex \in 0..Len(l) /\ m.term \in 1..MaxTerm
        /\ m = [firstLogId |-> m.firstLogId, prevLogTermId |-> m.prevLogTermId,
                terms |-> m.terms, commitIndex |-> m.commitIndex, term |-> m.term]
    BY <2>1
  <2>5. m.terms \in Seq(Nat)
    BY <2>3, <2>4
  <2>6. m.prevLogTermId \in Nat
    BY <2>2, <2>4
  <2>7. m.firstLogId \in Nat /\ m.commitIndex \in Nat /\ m.term \in Nat
    <3>1. m.firstLogId = f /\ m.commitIndex \in 0..Len(l) /\ m.term \in 1..MaxTerm
      BY <2>4
    <3>2. f \in Nat /\ 0..Len(l) \subseteq Nat /\ 1..MaxTerm \subseteq Nat
      BY <1>2
    <3> QED BY <3>1, <3>2
  <2> QED BY <2>4, <2>5, <2>6, <2>7
<1> QED BY <1>1, <1>3, <1>4 DEF Requests

-------------------------------------------------------------------------------
(***************************************************************************)
(* The inductive invariant holds at the start and is kept by every step.   *)
(***************************************************************************)
LEMMA InitInv ==
  ASSUME Init PROVE IInv
<1>1. QueueInv
  BY DEF Init, QueueInv, QueueHoldsUnapplied
<1>2. FileInv /\ CacheInv
  BY DEF Init, FileInv, FilesAgree, EndOf, CacheInv, CacheAgrees
<1>3. ThreadTypes
  <2>1. NoMsg \in [firstLogId : Nat, prevLogTermId : Nat, terms : Seq(Nat), commitIndex : Nat,
                   term : Nat]
    BY DEF NoMsg
  <2>2. 0 \in 0..MaxRestarts
    OBVIOUS
  <2> QED BY <2>1, <2>2 DEF Init, ThreadTypes
<1>4. MsgInv /\ ReadWithinLog
  BY DEF Init, MsgInv, ReadWithinLog
<1> QED BY <1>1, <1>2, <1>3, <1>4 DEF IInv

LEMMA ReceiveInv ==
  ASSUME IInv, NEW m \in Request, Receive(m)
  PROVE  IInv'
<1>1. QueueInv' /\ FileInv' /\ CacheInv'
  BY QueueSame, FilesSame, CacheSame DEF IInv, Receive, logVars, cacheVars
<1>2. m.term \in Nat /\ m \in [firstLogId : Nat, prevLogTermId : Nat, terms : Seq(Nat),
                               commitIndex : Nat, term : Nat]
  BY RequestTypes
<1>3. leading' \in BOOLEAN /\ (leading' => leading)
  BY DEF IInv, ThreadTypes, Receive, LeadsAfter
<1>4. ThreadTypes'
  BY <1>2, <1>3 DEF IInv, ThreadTypes, Receive, msgVars, dataVars
<1>5. MsgInv'
  <2>1. CASE LeadsAfter(m)
    BY <2>1 DEF Receive, Follows, MsgInv, msgVars
  <2>2. CASE ~LeadsAfter(m)
    <3>1. msgPc' = "check" /\ next' = 1 /\ ~leading'
      BY <2>2 DEF Receive, Follows
    <3> QED BY <3>1 DEF MsgInv
  <2> QED BY <2>1, <2>2
<1>6. ReadWithinLog'
  BY <1>3 DEF IInv, ReadWithinLog, Receive
<1> QED BY <1>1, <1>4, <1>5, <1>6 DEF IInv

(* The part of followerHandleAppendEntryReq that may shorten the log.      *)
LEMMA CutInv ==
  ASSUME QueueInv, NEW id \in Int,
         IF Removable(id) THEN RemoveLogs(id) ELSE UNCHANGED <<mLastLogId, mLock, logVars>>,
         UNCHANGED <<mLastLogIdApplied, mCommitIndex>>
  PROVE  QueueInv' /\ UNCHANGED <<mAppliedLogQueue, appliedFile>>
<1>1. CASE Removable(id)
  BY <1>1, RemoveQueue DEF RemoveLogs
<1>2. CASE ~Removable(id)
  BY <1>2, QueueSame DEF logVars
<1> QED BY <1>1, <1>2

LEMMA CheckInv ==
  ASSUME IInv, Check
  PROVE  IInv'
<1> DEFINE prev == msg.firstLogId - 1
<1>1. prev \in Int /\ msgPc = "check" /\ msgPc' \in {"idle", "entry"} /\ ~leading
  BY DEF IInv, ThreadTypes, MsgInv, Check
<1>2. UNCHANGED <<mCurTermId, mLastLogIdApplied, mCommitIndex, leading, msg, next, dataVars,
                  mainRead, down, restarts>>
  BY DEF Check
<1>3. ThreadTypes' /\ MsgInv' /\ ReadWithinLog'
  BY <1>1, <1>2 DEF IInv, ThreadTypes, MsgInv, ReadWithinLog, dataVars
<1>4. \/ UNCHANGED <<mLastLogId, mLock, logVars, cacheVars>>
      \/ /\ GetLog(prev)
         /\ \/ UNCHANGED <<mLastLogId, mLock, logVars>>
            \/ IF Removable(prev) THEN RemoveLogs(prev) ELSE UNCHANGED <<mLastLogId, mLock, logVars>>
  BY DEF Check
<1> HIDE DEF prev
<1>5. QueueInv' /\ UNCHANGED <<mAppliedLogQueue, appliedFile>>
  BY <1>1, <1>2, <1>4, CutInv, QueueSame DEF IInv, logVars
<1>6. FileInv'
  BY <1>2, <1>5, FilesSame DEF IInv
<1>7. CacheInv'
  BY <1>1, <1>2, <1>4, <1>5, GetLogCache, CacheSame DEF IInv
<1> QED BY <1>3, <1>5, <1>6, <1>7 DEF IInv

LEMMA LookAtEntryInv ==
  ASSUME IInv, LookAtEntry
  PROVE  IInv'
<1>1. /\ EntryId \in Int /\ msgPc = "entry" /\ ~leading
      /\ msg.terms \in Seq(Nat) /\ Len(msg.terms) \in Nat /\ next \in Nat /\ next >= 1
  BY DEF IInv, ThreadTypes, MsgInv, LookAtEntry, EntryId
<1>2. UNCHANGED <<mCurTermId, mLastLogIdApplied, mCommitIndex, leading, msg, dataVars,
                  mainRead, down, restarts>>
  BY DEF LookAtEntry
<1>3. \/ msgPc' = "commit" /\ next' = next
      \/ msgPc' = "append" /\ next' = next /\ ~(next > Len(msg.terms))
      \/ msgPc' = "entry" /\ next' = next + 1
  BY <1>1 DEF LookAtEntry
<1>4. ThreadTypes'
  BY <1>1, <1>2, <1>3 DEF IInv, ThreadTypes, dataVars
<1>5. MsgInv' /\ ReadWithinLog'
  BY <1>1, <1>2, <1>3 DEF MsgInv, ReadWithinLog
<1>6. \/ UNCHANGED <<mLastLogId, mLock, logVars, cacheVars>>
      \/ /\ GetLog(EntryId)
         /\ \/ UNCHANGED <<mLastLogId, mLock, logVars>>
            \/ IF Removable(EntryId) THEN RemoveLogs(EntryId)
               ELSE UNCHANGED <<mLastLogId, mLock, logVars>>
  BY DEF LookAtEntry
<1>7. QueueInv' /\ UNCHANGED <<mAppliedLogQueue, appliedFile>>
  BY <1>1, <1>2, <1>6, CutInv, QueueSame DEF IInv, logVars
<1>8. FileInv'
  BY <1>2, <1>7, FilesSame DEF IInv
<1>9. CacheInv'
  BY <1>1, <1>2, <1>6, <1>7, GetLogCache, CacheSame DEF IInv
<1> QED BY <1>4, <1>5, <1>7, <1>8, <1>9 DEF IInv

LEMMA AppendEntryInv ==
  ASSUME IInv, AppendEntry
  PROVE  IInv'
<1>1. /\ msgPc = "append" /\ ~leading /\ msg.terms \in Seq(Nat)
      /\ next \in 1..Len(msg.terms) /\ msg.terms[next] \in Nat
  <2>1. /\ msgPc = "append" /\ ~leading /\ msg.terms \in Seq(Nat) /\ Len(msg.terms) \in Nat
        /\ next \in Nat /\ next >= 1 /\ next <= Len(msg.terms)
    BY DEF IInv, ThreadTypes, MsgInv, AppendEntry
  <2>2. next \in 1..Len(msg.terms)
    BY <2>1
  <2> QED BY <2>1, <2>2
<1>2. UNCHANGED <<mCurTermId, mLastLogIdApplied, mCommitIndex, cacheVars, leading, msg, dataVars,
                  mainRead, down, restarts>>
  BY DEF AppendEntry
<1>3. (msgPc' = "entry" /\ next' = next + 1) \/ (msgPc' = "idle" /\ next' = next)
  BY DEF AppendEntry
<1>4. ThreadTypes' /\ MsgInv' /\ ReadWithinLog'
  BY <1>1, <1>2, <1>3 DEF IInv, ThreadTypes, MsgInv, ReadWithinLog, dataVars
<1>5. QueueInv' /\ UNCHANGED <<mAppliedLogQueue, appliedFile>>
  <2>1. CASE Push(msg.terms[next])
    BY <1>1, <1>2, <2>1, PushQueue DEF IInv, Push
  <2>2. CASE WrongLogId(EntryId, "msg")
    BY <1>2, <2>2, WrongQueue DEF IInv, WrongLogId, logVars
  <2>3. CASE Refuse
    BY <1>2, <2>3, QueueSame DEF IInv, Refuse, logVars
  <2> QED BY <2>1, <2>2, <2>3 DEF AppendEntry
<1>6. FileInv' /\ CacheInv'
  BY <1>2, <1>5, FilesSame, CacheSame DEF IInv
<1> QED BY <1>4, <1>5, <1>6 DEF IInv

LEMMA AdoptCommitInv ==
  ASSUME IInv, AdoptCommit
  PROVE  IInv'
<1>1. UNCHANGED <<mCurTermId, mLastLogId, mLastLogIdApplied, mLock, logVars, cacheVars, leading,
                  msg, next, dataVars, mainRead, down, restarts>>
  BY DEF AdoptCommit
<1>2. QueueInv'
  <2>1. msg.commitIndex \in Nat
    BY DEF IInv, ThreadTypes
  <2>2. /\ mCommitIndex' \in Nat /\ mCommitIndex <= mCommitIndex' /\ mCommitIndex' <= mLastLogId
    BY <2>1 DEF IInv, QueueInv, QueueHoldsUnapplied, AdoptCommit, Least
  <2>3. mLastLogIdApplied <= mCommitIndex' /\ UNCHANGED mLogQueue
    BY <1>1, <2>2 DEF IInv, QueueInv, QueueHoldsUnapplied, logVars
  <2> QED BY <1>1, <2>2, <2>3 DEF IInv, QueueInv, QueueHoldsUnapplied
<1>3. FileInv' /\ CacheInv'
  BY <1>1, FilesSame, CacheSame DEF IInv, logVars
<1>4. ThreadTypes' /\ MsgInv' /\ ReadWithinLog'
  BY <1>1 DEF IInv, ThreadTypes, MsgInv, ReadWithinLog, AdoptCommit, dataVars
<1> QED BY <1>2, <1>3, <1>4 DEF IInv

LEMMA ApplyCommittedLogsInv ==
  ASSUME IInv, ApplyCommittedLogs
  PROVE  IInv'
<1>1. QueueInv'
  BY ApplyQueue DEF IInv, ApplyCommittedLogs
<1>2. FileInv' /\ CacheInv'
  BY ApplyFiles DEF IInv, ApplyCommittedLogs
<1>3. ThreadTypes' /\ MsgInv' /\ ReadWithinLog'
  BY DEF IInv, ThreadTypes, MsgInv, ReadWithinLog, ApplyCommittedLogs, dataVars
<1> QED BY <1>1, <1>2, <1>3 DEF IInv

LEMMA CommitAcknowledgedInv ==
  ASSUME IInv, NEW id \in 1..mLastLogId, CommitAcknowledged(id)
  PROVE  IInv'
<1>1. QueueInv'
  <2>1. /\ mCommitIndex' = id /\ mCommitIndex' \in Nat /\ mCommitIndex <= mCommitIndex'
        /\ mCommitIndex' <= mLastLogId
    BY DEF CommitAcknowledged, Exists, IInv, QueueInv
  <2>2. mLastLogIdApplied <= mCommitIndex'
    BY <2>1 DEF IInv, QueueInv, QueueHoldsUnapplied
  <2> QED BY <2>1, <2>2 DEF CommitAcknowledged, IInv, QueueInv, QueueHoldsUnapplied, logVars
<1>2. FileInv' /\ CacheInv'
  BY FilesSame, CacheSame DEF IInv, CommitAcknowledged, logVars
<1>3. ThreadTypes' /\ MsgInv' /\ ReadWithinLog'
  BY DEF IInv, ThreadTypes, MsgInv, ReadWithinLog, CommitAcknowledged, dataVars
<1> QED BY <1>1, <1>2, <1>3 DEF IInv

LEMMA ReadForFollowerInv ==
  ASSUME IInv, NEW id \in 1..mLastLogId, ReadForFollower(id)
  PROVE  IInv'
<1>1. QueueInv' /\ FileInv'
  BY QueueSame, FilesSame DEF IInv, ReadForFollower, indexVars, logVars
<1>2. CacheInv'
  BY GetLogCache DEF IInv, ReadForFollower, indexVars, logVars
<1>3. ThreadTypes' /\ MsgInv' /\ ReadWithinLog'
  BY DEF IInv, ThreadTypes, MsgInv, ReadWithinLog, ReadForFollower, indexVars, msgVars, dataVars
<1> QED BY <1>1, <1>2, <1>3 DEF IInv

LEMMA BecomeLeaderInv ==
  ASSUME IInv, BecomeLeader
  PROVE  IInv'
<1>1. QueueInv' /\ FileInv' /\ CacheInv'
  BY QueueSame, FilesSame, CacheSame DEF IInv, BecomeLeader, logVars
<1>2. ThreadTypes' /\ MsgInv'
  BY DEF IInv, ThreadTypes, MsgInv, BecomeLeader, msgVars, dataVars
<1>3. ReadWithinLog'
  BY DEF IInv, QueueInv, ReadWithinLog, BecomeLeader
<1> QED BY <1>1, <1>2, <1>3 DEF IInv

LEMMA DataPopInv ==
  ASSUME IInv, DataPop
  PROVE  IInv'
<1>1. QueueInv' /\ FileInv' /\ CacheInv'
  BY QueueSame, FilesSame, CacheSame DEF IInv, DataPop, indexVars, logVars
<1>2. ThreadTypes' /\ MsgInv' /\ ReadWithinLog'
  BY DEF IInv, ThreadTypes, MsgInv, ReadWithinLog, DataPop, indexVars, msgVars
<1> QED BY <1>1, <1>2 DEF IInv

LEMMA DataAppendInv ==
  ASSUME IInv, DataAppend
  PROVE  IInv'
<1>1. UNCHANGED <<mCurTermId, mLastLogIdApplied, mCommitIndex, cacheVars, leading, msgVars,
                  mainRead, down, restarts>>
  BY DEF DataAppend
<1>2. mCurTermId \in Nat /\ mLastLogId \in Nat
  BY DEF IInv, ThreadTypes, QueueInv
<1>3. /\ QueueInv' /\ UNCHANGED <<mAppliedLogQueue, appliedFile>>
      /\ mLastLogId' \in Nat /\ mLastLogId <= mLastLogId'
  <2>1. CASE Push(mCurTermId)
    BY <1>1, <1>2, <2>1, PushQueue DEF IInv, Push
  <2>2. CASE Refuse
    BY <1>1, <1>2, <2>2, QueueSame DEF IInv, Refuse, logVars
  <2> QED BY <2>1, <2>2 DEF DataAppend
<1>4. FileInv' /\ CacheInv'
  BY <1>1, <1>3, FilesSame, CacheSame DEF IInv
<1>5. ThreadTypes'
  BY <1>1, <1>2 DEF IInv, ThreadTypes, DataAppend, msgVars
<1>6. MsgInv' /\ ReadWithinLog'
  BY <1>1, <1>2, <1>3 DEF IInv, ThreadTypes, MsgInv, ReadWithinLog, msgVars
<1> QED BY <1>3, <1>4, <1>5, <1>6 DEF IInv

(* An entry is read before a message is sent.                              *)
LEMMA ReadPrevInv ==
  ASSUME IInv, NEW id \in Nat, ReadPrevOf(id), UNCHANGED <<indexVars, logVars, restarts>>
  PROVE  CacheInv' /\ down' \in BOOLEAN
<1>1. CASE id <= 1
  BY <1>1, CacheSame DEF IInv, ThreadTypes, ReadPrevOf, logVars
<1>2. CASE ~(id <= 1)
  BY <1>2, GetLogCache DEF IInv, ReadPrevOf, indexVars, logVars
<1> QED BY <1>1, <1>2

LEMMA DataBroadcastInv ==
  ASSUME IInv, DataBroadcast
  PROVE  IInv'
<1>1. dataLog \in Nat
  BY DEF IInv, ThreadTypes
<1>2. QueueInv' /\ FileInv'
  BY QueueSame, FilesSame DEF IInv, DataBroadcast, indexVars, logVars
<1>3. CacheInv' /\ down' \in BOOLEAN
  BY <1>1, ReadPrevInv DEF DataBroadcast
<1>4. ThreadTypes' /\ MsgInv' /\ ReadWithinLog'
  BY <1>3 DEF IInv, ThreadTypes, MsgInv, ReadWithinLog, DataBroadcast, indexVars, msgVars
<1> QED BY <1>2, <1>3, <1>4 DEF IInv

LEMMA HeartbeatReadLastInv ==
  ASSUME IInv, HeartbeatReadLast
  PROVE  IInv'
<1>1. QueueInv' /\ FileInv' /\ CacheInv'
  BY QueueSame, FilesSame, CacheSame DEF IInv, HeartbeatReadLast, indexVars, logVars
<1>2. ThreadTypes' /\ MsgInv' /\ ReadWithinLog'
  BY DEF IInv, QueueInv, ThreadTypes, MsgInv, ReadWithinLog, HeartbeatReadLast, indexVars, msgVars,
         dataVars
<1> QED BY <1>1, <1>2 DEF IInv

LEMMA HeartbeatReadPrevInv ==
  ASSUME IInv, HeartbeatReadPrev
  PROVE  IInv'
<1>1. mainRead \in Nat
  BY DEF IInv, ThreadTypes, HeartbeatReadPrev
<1>2. QueueInv' /\ FileInv'
  BY QueueSame, FilesSame DEF IInv, HeartbeatReadPrev, indexVars, logVars
<1>3. CacheInv' /\ down' \in BOOLEAN
  BY <1>1, ReadPrevInv DEF HeartbeatReadPrev
<1>4. ThreadTypes' /\ MsgInv'
  BY <1>3 DEF IInv, ThreadTypes, MsgInv, HeartbeatReadPrev, indexVars, msgVars, dataVars
<1>5. ReadWithinLog'
  BY DEF IInv, QueueInv, ReadWithinLog, HeartbeatReadPrev, indexVars
<1> QED BY <1>2, <1>3, <1>4, <1>5 DEF IInv

LEMMA RestartInv ==
  ASSUME IInv, Restart
  PROVE  IInv'
<1>1. restarts' \in 1..MaxRestarts
  BY DEF IInv, ThreadTypes, Restart
<1>2. QueueInv'
  BY DEF Restart, QueueInv, QueueHoldsUnapplied
<1>3. appliedFile' \in Seq(Entry) /\ 0 <= Len(appliedFile')
  BY DEF IInv, FileInv, Restart
<1>4. FileInv' /\ CacheInv'
  BY <1>1, <1>3 DEF Restart, FileInv, CacheInv
<1>5. NoMsg \in [firstLogId : Nat, prevLogTermId : Nat, terms : Seq(Nat), commitIndex : Nat,
                 term : Nat]
  BY DEF NoMsg
<1>6. ThreadTypes'
  <2>1. restarts' \in 0..MaxRestarts /\ down' \in BOOLEAN
    BY <1>1 DEF Restart
  <2> QED BY <1>5, <2>1 DEF Restart, ThreadTypes
<1>7. MsgInv' /\ ReadWithinLog'
  BY DEF Restart, MsgInv, ReadWithinLog
<1> QED BY <1>2, <1>4, <1>6, <1>7 DEF IInv

LEMMA NextInv ==
  ASSUME IInv, [Next]_vars
  PROVE  IInv'
<1>1. ASSUME NEW m \in Request, Receive(m) PROVE IInv'
  BY <1>1, ReceiveInv
<1>2. CASE Check
  BY <1>2, CheckInv
<1>3. CASE LookAtEntry
  BY <1>3, LookAtEntryInv
<1>4. CASE AppendEntry
  BY <1>4, AppendEntryInv
<1>5. CASE AdoptCommit
  BY <1>5, AdoptCommitInv
<1>6. CASE ApplyCommittedLogs
  BY <1>6, ApplyCommittedLogsInv
<1>7. ASSUME NEW id \in 1..mLastLogId, CommitAcknowledged(id) PROVE IInv'
  BY <1>7, CommitAcknowledgedInv
<1>8. ASSUME NEW id \in 1..mLastLogId, ReadForFollower(id) PROVE IInv'
  BY <1>8, ReadForFollowerInv
<1>9. CASE BecomeLeader
  BY <1>9, BecomeLeaderInv
<1>10. CASE DataPop
  BY <1>10, DataPopInv
<1>11. CASE DataAppend
  BY <1>11, DataAppendInv
<1>12. CASE DataBroadcast
  BY <1>12, DataBroadcastInv
<1>13. CASE HeartbeatReadLast
  BY <1>13, HeartbeatReadLastInv
<1>14. CASE HeartbeatReadPrev
  BY <1>14, HeartbeatReadPrevInv
<1>15. CASE Restart
  BY <1>15, RestartInv
<1>16. CASE UNCHANGED vars
  <2>1. UNCHANGED <<indexVars, mLock, logVars, cacheVars, leading, msgVars, dataVars, mainRead,
                    down, restarts>>
    BY <1>16 DEF vars
  <2>2. QueueInv' /\ FileInv' /\ CacheInv'
    BY <2>1, QueueSame, FilesSame, CacheSame DEF IInv, indexVars, logVars
  <2>3. ThreadTypes' /\ MsgInv' /\ ReadWithinLog'
    BY <2>1 DEF IInv, ThreadTypes, MsgInv, ReadWithinLog, indexVars, msgVars, dataVars
  <2> QED BY <2>2, <2>3 DEF IInv
<1> QED BY <1>1, <1>2, <1>3, <1>4, <1>5, <1>6, <1>7, <1>8, <1>9, <1>10, <1>11, <1>12, <1>13,
           <1>14, <1>15, <1>16 DEF Next, MessageThread, DataThread, MainThread

LEMMA Invariant == Spec => []IInv
<1>1. Init => IInv
  BY InitInv
<1>2. IInv /\ [Next]_vars => IInv'
  BY NextInv
<1> QED BY <1>1, <1>2, PTL DEF Spec

-------------------------------------------------------------------------------
(***************************************************************************)
(* What the invariant says of the log manager.                             *)
(***************************************************************************)
(* Every variable keeps its type; mAppliedLogQueue its limit.              *)
THEOREM TypeCorrect == Spec => []TypeOK
<1>1. IInv => TypeOK
  BY DEF IInv, QueueInv, FileInv, CacheInv, ThreadTypes, TypeOK
<1> QED BY <1>1, Invariant, PTL

(* getLog and removeLogs find the entry of a log id by its distance from   *)
(* the last applied one.                                                   *)
THEOREM QueueCorrect == Spec => []QueueHoldsUnapplied
<1>1. IInv => QueueHoldsUnapplied
  BY DEF IInv, QueueInv
<1> QED BY <1>1, Invariant, PTL

(* broadcastHeartbeat finds the entry it reads as long as the server leads.*)
THEOREM HeartbeatSafe == Spec => []HeartbeatFindsEntry
<1>1. IInv => HeartbeatFindsEntry
  BY DEF IInv, QueueInv, ThreadTypes, ReadWithinLog, HeartbeatFindsEntry
<1> QED BY <1>1, Invariant, PTL

(* The log is as long as the indexes say, and every entry has its log id.  *)
LEMMA LogIs ==
  ASSUME IInv, restarts = 0
  PROVE  /\ Log \in Seq(Entry) /\ Len(Log) = mLastLogIdApplied + Len(mLogQueue)
         /\ Len(appliedFile) = mLastLogIdApplied /\ Len(mLogQueue) \in Nat
         /\ \A id \in 1..mLastLogIdApplied : Log[id] = appliedFile[id]
         /\ \A i \in 1..Len(mLogQueue) : Log[mLastLogIdApplied + i] = mLogQueue[i]
<1>1. Len(appliedFile) = mLastLogIdApplied
  BY DEF IInv, FileInv, FilesAgree
<1>2. appliedFile \in Seq(Entry) /\ mLogQueue \in Seq(Entry) /\ Len(mLogQueue) \in Nat
  BY DEF IInv, FileInv, QueueInv
<1>3. /\ appliedFile \o mLogQueue \in Seq(Entry)
      /\ Len(appliedFile \o mLogQueue) = Len(appliedFile) + Len(mLogQueue)
      /\ \A i \in 1..Len(appliedFile) : (appliedFile \o mLogQueue)[i] = appliedFile[i]
      /\ \A i \in 1..Len(mLogQueue) :
           (appliedFile \o mLogQueue)[Len(appliedFile) + i] = mLogQueue[i]
  BY <1>2, Concat
<1> QED BY <1>1, <1>2, <1>3 DEF Log

LEMMA LogAtIs ==
  ASSUME IInv, restarts = 0, mLock = "free", NEW id \in 1..mLastLogId
  PROVE  LogAt(id) = Log[id] /\ Log[id].logId = id
<1>1. /\ mLastLogIdApplied \in Nat /\ mLastLogId \in Nat /\ Len(mLogQueue) \in Nat
      /\ mLastLogIdApplied + Len(mLogQueue) = mLastLogId
      /\ \A i \in 1..Len(mLogQueue) : mLogQueue[i].logId = mLastLogIdApplied + i
  BY DEF IInv, QueueInv, QueueHoldsUnapplied
<1>2. /\ \A i \in 1..mLastLogIdApplied : Log[i] = appliedFile[i]
      /\ \A i \in 1..Len(mLogQueue) : Log[mLastLogIdApplied + i] = mLogQueue[i]
      /\ Len(appliedFile) = mLastLogIdApplied
  BY LogIs
<1>3. CASE id > mLastLogIdApplied
  <2>1. PICK i \in 1..Len(mLogQueue) : id = mLastLogIdApplied + i
    <3>1. id - mLastLogIdApplied \in 1..Len(mLogQueue)
      BY <1>1, <1>3
    <3>2. id = mLastLogIdApplied + (id - mLastLogIdApplied)
      BY <1>1
    <3> QED BY <3>1, <3>2
  <2>2. id - mLastLogIdApplied = i
    BY <1>1, <2>1
  <2>3. LogAt(id) = mLogQueue[i]
    BY <1>3, <2>2 DEF LogAt
  <2> QED BY <1>1, <1>2, <2>1, <2>3
<1>4. CASE id <= mLastLogIdApplied
  <2>1. id \in 1..mLastLogIdApplied /\ ~(id > mLastLogIdApplied)
    BY <1>1, <1>4
  <2>2. /\ \A i \in 1..mLastLogIdApplied : appliedFile[i].logId = i
        /\ EndOf(mAppliedLogQueue, appliedFile)
        /\ CacheAgrees
    BY <1>2 DEF IInv, FileInv, FilesAgree, CacheInv
  <2>3. Log[id] = appliedFile[id] /\ Log[id].logId = id
    BY <1>2, <2>1, <2>2
  <2>4. CASE InAppliedQueue(id)
    <3>1. /\ mAppliedLogQueue # <<>> /\ id >= mAppliedLogQueue[1].logId
          /\ Len(mAppliedLogQueue) \in Nat /\ mAppliedLogQueue \in Seq(Entry)
      BY <2>4 DEF InAppliedQueue, IInv, FileInv
    <3>2. /\ Len(mAppliedLogQueue) <= mLastLogIdApplied /\ Len(mAppliedLogQueue) >= 1
          /\ \A i \in 1..Len(mAppliedLogQueue) : mAppliedLogQueue[i] =
               appliedFile[mLastLogIdApplied - Len(mAppliedLogQueue) + i]
      BY <1>2, <2>2, <3>1 DEF EndOf
    <3> DEFINE first == mLastLogIdApplied - Len(mAppliedLogQueue) + 1
    <3>3. first \in 1..mLastLogIdApplied /\ 1 \in 1..Len(mAppliedLogQueue)
      BY <1>1, <3>1, <3>2
    <3>4. mAppliedLogQueue[1].logId = first
      BY <2>2, <3>2, <3>3
    <3>5. /\ id - first + 1 \in 1..Len(mAppliedLogQueue)
          /\ mLastLogIdApplied - Len(mAppliedLogQueue) + (id - first + 1) = id
      BY <1>1, <2>1, <3>1, <3>2, <3>4
    <3> HIDE DEF first
    <3>6. LogAt(id) = mAppliedLogQueue[id - first + 1]
      BY <2>1, <2>4, <3>4 DEF LogAt
    <3>7. mAppliedLogQueue[id - first + 1] = appliedFile[id]
      BY <3>2, <3>5
    <3> QED BY <2>3, <3>6, <3>7
  <2>5. CASE ~InAppliedQueue(id) /\ InCache(id)
    <3>1. /\ mAppliedLogCacheStart \in Nat /\ Len(mAppliedLogCache) \in Nat
          /\ mAppliedLogCacheStart # 0 /\ mAppliedLogCacheStart <= id
          /\ id < mAppliedLogCacheStart + Len(mAppliedLogCache)
      BY <2>5 DEF InCache, IInv, CacheInv
    <3>2. \A i \in 1..Len(mAppliedLogCache) :
            mAppliedLogCache[i] = appliedFile[mAppliedLogCacheStart + i - 1]
      BY <2>2, <3>1 DEF CacheAgrees
    <3> DEFINE i == id - mAppliedLogCacheStart + 1
    <3>3. i \in 1..Len(mAppliedLogCache) /\ mAppliedLogCacheStart + i - 1 = id
      BY <3>1
    <3> HIDE DEF i
    <3>4. mAppliedLogCache[i] = appliedFile[id]
      BY <3>2, <3>3
    <3>5. LogAt(id) = mAppliedLogCache[i]
      BY <2>1, <2>5 DEF LogAt, i
    <3> QED BY <2>3, <3>4, <3>5
  <2>6. CASE ~InAppliedQueue(id) /\ ~InCache(id)
    <3>1. LogAt(id) = appliedFile[id]
      BY <2>1, <2>6 DEF LogAt
    <3> QED BY <2>3, <3>1
  <2> QED BY <2>4, <2>5, <2>6
<1> QED BY <1>1, <1>3, <1>4

(* getLog returns the entry of the log whether it takes it from the queue, *)
(* the last applied entries, the cache or a file.                          *)
THEOREM ReadsAgree == Spec => []ReadsTheLog
<1>1. IInv => ReadsTheLog
  BY LogAtIs DEF ReadsTheLog
<1> QED BY <1>1, Invariant, PTL

-------------------------------------------------------------------------------
(***************************************************************************)
(* The log manager implements RaftLog.                                     *)
(***************************************************************************)
(* The terms of a log, which are what RaftLog has of it.                   *)
Terms(l) == [i \in 1..Len(l) |-> l[i].termId]

LEMMA TermsIs ==
  ASSUME NEW l \in Seq(Entry)
  PROVE  /\ Terms(l) \in Seq(Nat) /\ Len(Terms(l)) = Len(l) /\ Len(l) \in Nat
         /\ \A i \in 1..Len(l) : Terms(l)[i] = l[i].termId /\ l[i].termId \in Nat
<1>1. Len(l) \in Nat /\ \A i \in 1..Len(l) : l[i].termId \in Nat
  <2>1. Len(l) \in Nat /\ \A i \in 1..Len(l) : l[i] \in Entry
    OBVIOUS
  <2> QED BY <2>1 DEF Entry
<1>2. Terms(l) \in [1..Len(l) -> Nat] /\ \A i \in 1..Len(l) : Terms(l)[i] = l[i].termId
  BY <1>1 DEF Terms
<1>3. Terms(l) \in Seq(Nat) /\ Len(Terms(l)) = Len(l)
  BY <1>1, <1>2
<1> QED BY <1>1, <1>2, <1>3

LEMMA TermsAppend ==
  ASSUME NEW l \in Seq(Entry), NEW e \in Entry
  PROVE  Terms(Append(l, e)) = Append(Terms(l), e.termId)
<1> DEFINE m == Append(l, e)
           t == Append(Terms(l), e.termId)
<1>1. e.termId \in Nat
  BY DEF Entry
<1>2. /\ m \in Seq(Entry) /\ Len(m) = Len(l) + 1 /\ m[Len(l) + 1] = e
      /\ \A i \in 1..Len(l) : m[i] = l[i]
  BY AppendProperties
<1>3. /\ Terms(l) \in Seq(Nat) /\ Len(Terms(l)) = Len(l) /\ Len(l) \in Nat
      /\ \A i \in 1..Len(l) : Terms(l)[i] = l[i].termId
  BY TermsIs
<1>4. /\ t \in Seq(Nat) /\ Len(t) = Len(Terms(l)) + 1 /\ t[Len(Terms(l)) + 1] = e.termId
      /\ \A i \in 1..Len(Terms(l)) : t[i] = Terms(l)[i]
  BY <1>1, <1>3, AppendProperties
<1> HIDE DEF m, t
<1>5. /\ Terms(m) \in Seq(Nat) /\ Len(Terms(m)) = Len(m)
      /\ \A i \in 1..Len(m) : Terms(m)[i] = m[i].termId
  BY <1>2, TermsIs
<1>6. ASSUME NEW i \in 1..Len(l) + 1 PROVE Terms(m)[i] = t[i]
  <2>1. CASE i = Len(l) + 1
    BY <1>2, <1>3, <1>4, <1>5, <2>1
  <2>2. CASE i # Len(l) + 1
    <3>1. i \in 1..Len(l) /\ i \in 1..Len(Terms(l)) /\ i \in 1..Len(m)
      BY <1>2, <1>3, <2>2
    <3>2. Terms(m)[i] = l[i].termId
      BY <1>2, <1>5, <3>1
    <3>3. t[i] = l[i].termId
      BY <1>3, <1>4, <3>1
    <3> QED BY <3>2, <3>3
  <2> QED BY <2>1, <2>2
<1>7. Len(Terms(m)) = Len(l) + 1 /\ Len(t) = Len(l) + 1
  BY <1>2, <1>3, <1>4, <1>5
<1>8. Terms(m) = t
  <2>1. Terms(m) \in Seq(Nat) /\ t \in Seq(Nat) /\ Len(Terms(m)) = Len(t)
    BY <1>4, <1>5, <1>7
  <2>2. \A i \in 1..Len(Terms(m)) : Terms(m)[i] = t[i]
    BY <1>6, <1>7
  <2> QED BY <2>1, <2>2, SeqEqual
<1> QED BY <1>8 DEF m, t

LEMMA TermsPrefix ==
  ASSUME NEW l \in Seq(Entry), NEW n \in 0..Len(l)
  PROVE  Terms(SubSeq(l, 1, n)) = SubSeq(Terms(l), 1, n)
<1> DEFINE m == SubSeq(l, 1, n)
           t == SubSeq(Terms(l), 1, n)
<1>1. m \in Seq(Entry) /\ Len(m) = n /\ \A i \in 1..n : m[i] = l[i]
  BY Prefix
<1>2. /\ Terms(l) \in Seq(Nat) /\ Len(Terms(l)) = Len(l) /\ Len(l) \in Nat
      /\ \A i \in 1..Len(l) : Terms(l)[i] = l[i].termId
  BY TermsIs
<1>3. t \in Seq(Nat) /\ Len(t) = n /\ \A i \in 1..n : t[i] = Terms(l)[i]
  <2>1. n \in 0..Len(Terms(l))
    BY <1>2
  <2> QED BY <1>2, <2>1, Prefix
<1> HIDE DEF m, t
<1>4. /\ Terms(m) \in Seq(Nat) /\ Len(Terms(m)) = Len(m)
      /\ \A i \in 1..Len(m) : Terms(m)[i] = m[i].termId
  BY <1>1, TermsIs
<1>5. ASSUME NEW i \in 1..n PROVE Terms(m)[i] = t[i]
  <2>1. i \in 1..Len(l)
    BY <1>2
  <2> QED BY <1>1, <1>2, <1>3, <1>4, <2>1
<1>6. Len(Terms(m)) = n /\ Len(t) = n
  BY <1>1, <1>3, <1>4
<1>7. Terms(m) = t
  BY <1>3, <1>4, <1>5, <1>6, SeqEqual
<1> QED BY <1>7 DEF m, t

(* A prefix that ends in the second part of a sequence.                    *)
LEMMA PrefixOfConcat ==
  ASSUME NEW S, NEW u \in Seq(S), NEW v \in Seq(S), NEW k \in 0..Len(v)
  PROVE  u \o SubSeq(v, 1, k) = SubSeq(u \o v, 1, Len(u) + k)
<1> DEFINE h == SubSeq(v, 1, k)
           w == u \o v
           x == u \o h
           y == SubSeq(w, 1, Len(u) + k)
<1>1. Len(u) \in Nat /\ Len(v) \in Nat
  OBVIOUS
<1>2. h \in Seq(S) /\ Len(h) = k /\ \A i \in 1..k : h[i] = v[i]
  BY Prefix
<1>3. /\ w \in Seq(S) /\ Len(w) = Len(u) + Len(v)
      /\ \A i \in 1..Len(u) : w[i] = u[i]
      /\ \A i \in 1..Len(v) : w[Len(u) + i] = v[i]
  BY Concat
<1> HIDE DEF h, w
<1>4. /\ x \in Seq(S) /\ Len(x) = Len(u) + Len(h)
      /\ \A i \in 1..Len(u) : x[i] = u[i]
      /\ \A i \in 1..Len(h) : x[Len(u) + i] = h[i]
  <2>1. h \in Seq(S)
    BY <1>2
  <2> QED BY <2>1, Concat
<1>5. y \in Seq(S) /\ Len(y) = Len(u) + k /\ \A i \in 1..Len(u) + k : y[i] = w[i]
  <2>1. Len(u) + k \in 0..Len(w)
    BY <1>1, <1>3
  <2> QED BY <1>3, <2>1, Prefix
<1> HIDE DEF x, y
<1>6. ASSUME NEW i \in 1..Len(u) + k PROVE x[i] = y[i]
  <2>1. CASE i <= Len(u)
    <3>1. i \in 1..Len(u)
      BY <1>1, <2>1
    <3> QED BY <1>3, <1>4, <1>5, <3>1
  <2>2. CASE i > Len(u)
    <3>1. i - Len(u) \in 1..k /\ i = Len(u) + (i - Len(u)) /\ i - Len(u) \in 1..Len(v)
      BY <1>1, <2>2
    <3>2. PICK j \in 1..k : i = Len(u) + j /\ j \in 1..Len(v)
      BY <3>1
    <3> QED BY <1>2, <1>3, <1>4, <1>5, <3>2
  <2> QED BY <1>1, <2>1, <2>2
<1>7. Len(x) = Len(u) + k
  BY <1>2, <1>4
<1>8. x = y
  BY <1>4, <1>5, <1>6, <1>7, SeqEqual
<1> QED BY <1>8 DEF x, y, h, w

LEMMA AppendToConcat ==
  ASSUME NEW S, NEW u \in Seq(S), NEW v \in Seq(S), NEW e \in S
  PROVE  u \o Append(v, e) = Append(u \o v, e)
<1>1. <<e>> \in Seq(S)
  OBVIOUS
<1>2. Append(v, e) = v \o <<e>>
  BY AppendIsConcat
<1>3. u \o v \in Seq(S)
  BY Concat
<1>4. Append(u \o v, e) = (u \o v) \o <<e>>
  BY <1>3, AppendIsConcat
<1>5. (u \o v) \o <<e>> = u \o (v \o <<e>>)
  BY <1>1, ConcatAssociative
<1> QED BY <1>2, <1>4, <1>5

LEMMA MoveKeepsConcat ==
  ASSUME NEW S, NEW u \in Seq(S), NEW v \in Seq(S), NEW k \in 0..Len(v)
  PROVE  (u \o SubSeq(v, 1, k)) \o SubSeq(v, k + 1, Len(v)) = u \o v
<1>1. SubSeq(v, 1, k) \in Seq(S) /\ SubSeq(v, k + 1, Len(v)) \in Seq(S)
  BY Prefix, Suffix
<1>2. SubSeq(v, 1, k) \o SubSeq(v, k + 1, Len(v)) = SubSeq(v, 1, Len(v))
  <2>1. Len(v) \in Nat
    OBVIOUS
  <2>2. 1 \in 1..Len(v) + 1 /\ k \in 1 - 1..Len(v) /\ Len(v) \in k..Len(v)
    BY <2>1
  <2> QED BY <2>2, ConcatAdjacentSubSeq
<1>3. SubSeq(v, 1, Len(v)) = v
  BY SubSeqFull
<1>4. (u \o SubSeq(v, 1, k)) \o SubSeq(v, k + 1, Len(v)) =
        u \o (SubSeq(v, 1, k) \o SubSeq(v, k + 1, Len(v)))
  <2> DEFINE h == SubSeq(v, 1, k)
             r == SubSeq(v, k + 1, Len(v))
  <2>1. h \in Seq(S) /\ r \in Seq(S)
    BY <1>1
  <2> HIDE DEF h, r
  <2>2. (u \o h) \o r = u \o (h \o r)
    BY <2>1, ConcatAssociative, SMTT(40)
  <2> QED BY <2>2 DEF h, r
<1> QED BY <1>2, <1>3, <1>4

(* Up to a restart a step of the threads does one of five things to the    *)
(* log and its indexes.                                                    *)
LEMMA KindsOfStep ==
  ASSUME IInv, [Next]_vars, restarts' = 0
  PROVE  \/ UNCHANGED <<appliedFile, mLogQueue, mCommitIndex, mLastLogIdApplied>>
         \/ /\ mLock = "free"
            /\ \E e \in Entry : mLogQueue' = Append(mLogQueue, e)
            /\ UNCHANGED <<appliedFile, mCommitIndex, mLastLogIdApplied>>
         \/ /\ \E k \in 0..Len(mLogQueue) :
                 mLogQueue' = SubSeq(mLogQueue, 1, k) /\ mCommitIndex <= mLastLogIdApplied + k
            /\ UNCHANGED <<appliedFile, mCommitIndex, mLastLogIdApplied>>
         \/ /\ mCommitIndex' \in mCommitIndex..mLastLogId
            /\ UNCHANGED <<appliedFile, mLogQueue, mLastLogIdApplied>>
         \/ ApplyUpTo(mCommitIndex) /\ UNCHANGED mCommitIndex
<1>0. /\ mLastLogId \in Nat /\ mCommitIndex \in Nat /\ mCurTermId \in Nat
      /\ mCommitIndex <= mLastLogId
  BY DEF IInv, QueueInv, QueueHoldsUnapplied, ThreadTypes
<1> DEFINE Same == UNCHANGED <<appliedFile, mLogQueue, mCommitIndex, mLastLogIdApplied>>
           Pushed == /\ mLock = "free"
                     /\ \E e \in Entry : mLogQueue' = Append(mLogQueue, e)
                     /\ UNCHANGED <<appliedFile, mCommitIndex, mLastLogIdApplied>>
           Shortened ==
             /\ \E k \in 0..Len(mLogQueue) :
                  mLogQueue' = SubSeq(mLogQueue, 1, k) /\ mCommitIndex <= mLastLogIdApplied + k
             /\ UNCHANGED <<appliedFile, mCommitIndex, mLastLogIdApplied>>
           Committed == /\ mCommitIndex' \in mCommitIndex..mLastLogId
                        /\ UNCHANGED <<appliedFile, mLogQueue, mLastLogIdApplied>>
           Applied == ApplyUpTo(mCommitIndex) /\ UNCHANGED mCommitIndex
<1>1. ASSUME NEW id \in Int, UNCHANGED <<mCommitIndex, mLastLogIdApplied>>,
             IF Removable(id) THEN RemoveLogs(id) ELSE UNCHANGED <<mLastLogId, mLock, logVars>>
      PROVE  Same \/ Shortened
  <2>1. CASE Removable(id)
    BY <1>1, <2>1, RemoveQueue DEF IInv, RemoveLogs
  <2>2. CASE ~Removable(id)
    BY <1>1, <2>2 DEF logVars
  <2> QED BY <2>1, <2>2
<1>2. ASSUME NEW t \in Nat, Push(t), UNCHANGED <<mCommitIndex, mLastLogIdApplied>>
      PROVE  Pushed
  <2>1. [logId |-> mLastLogId + 1, termId |-> t] \in Entry
    BY <1>0 DEF Entry
  <2> QED BY <1>2, <2>1 DEF Push
<1> HIDE DEF Shortened, Pushed
<1>3. CASE Check
  <2>1. msg.firstLogId - 1 \in Int /\ UNCHANGED <<mCommitIndex, mLastLogIdApplied>>
    BY <1>3 DEF Check, IInv, ThreadTypes
  <2>2. \/ UNCHANGED <<mLastLogId, mLock, logVars>>
        \/ IF Removable(msg.firstLogId - 1) THEN RemoveLogs(msg.firstLogId - 1)
           ELSE UNCHANGED <<mLastLogId, mLock, logVars>>
    BY <1>3 DEF Check
  <2>3. Same \/ Shortened
    BY <1>1, <2>1, <2>2 DEF logVars
  <2> QED BY <2>3 DEF Shortened
<1>4. CASE LookAtEntry
  <2>1. EntryId \in Int /\ UNCHANGED <<mCommitIndex, mLastLogIdApplied>>
    BY <1>4 DEF LookAtEntry, IInv, ThreadTypes, EntryId
  <2>2. \/ UNCHANGED <<mLastLogId, mLock, logVars>>
        \/ IF Removable(EntryId) THEN RemoveLogs(EntryId)
           ELSE UNCHANGED <<mLastLogId, mLock, logVars>>
    BY <1>4 DEF LookAtEntry
  <2>3. Same \/ Shortened
    BY <1>1, <2>1, <2>2 DEF logVars
  <2> QED BY <2>3 DEF Shortened
<1>5. CASE AppendEntry
  <2>1. msg.terms[next] \in Nat
    <3>1. /\ msg.terms \in Seq(Nat) /\ Len(msg.terms) \in Nat /\ next \in Nat /\ next >= 1
          /\ next <= Len(msg.terms)
      BY <1>5 DEF AppendEntry, IInv, ThreadTypes, MsgInv
    <3>2. next \in 1..Len(msg.terms)
      BY <3>1
    <3> QED BY <3>1, <3>2
  <2>2. UNCHANGED <<mCommitIndex, mLastLogIdApplied>>
    BY <1>5 DEF AppendEntry
  <2>3. Push(msg.terms[next]) \/ UNCHANGED logVars
    BY <1>5 DEF AppendEntry, WrongLogId, Refuse
  <2>4. Pushed \/ Same
    BY <1>2, <2>1, <2>2, <2>3 DEF logVars
  <2> QED BY <2>4 DEF Pushed
<1>6. CASE DataAppend
  <2>1. UNCHANGED <<mCommitIndex, mLastLogIdApplied>> /\ (Push(mCurTermId) \/ UNCHANGED logVars)
    BY <1>6 DEF DataAppend, Refuse
  <2>2. Pushed \/ Same
    BY <1>0, <1>2, <2>1 DEF logVars
  <2> QED BY <2>2 DEF Pushed
<1>7. CASE AdoptCommit
  <2>1. mCommitIndex' \in mCommitIndex..mLastLogId
    BY <1>0, <1>7 DEF AdoptCommit, Least, IInv, ThreadTypes
  <2> QED BY <1>7, <2>1 DEF AdoptCommit, logVars
<1>8. ASSUME NEW id \in 1..mLastLogId, CommitAcknowledged(id) PROVE Committed
  <2>1. mCommitIndex' \in mCommitIndex..mLastLogId
    BY <1>0, <1>8 DEF CommitAcknowledged
  <2> QED BY <1>8, <2>1 DEF CommitAcknowledged, logVars
<1>9. CASE ApplyCommittedLogs
  BY <1>9 DEF ApplyCommittedLogs
<1>10. CASE Restart
  BY <1>10 DEF Restart, IInv, FileInv
<1>11. ASSUME \/ \E m \in Request : Receive(m)
              \/ \E id \in 1..mLastLogId : ReadForFollower(id)
              \/ BecomeLeader \/ DataPop \/ DataBroadcast \/ HeartbeatReadLast
              \/ HeartbeatReadPrev \/ UNCHANGED vars
       PROVE  Same
  BY <1>11 DEF Receive, ReadForFollower, BecomeLeader, DataPop, DataBroadcast, HeartbeatReadLast,
               HeartbeatReadPrev, vars, indexVars, logVars
<1> QED BY <1>3, <1>4, <1>5, <1>6, <1>7, <1>8, <1>9, <1>10, <1>11
        DEF Next, MessageThread, DataThread, MainThread

LEMMA StepOfRaftLog ==
  ASSUME IInv, [Next]_vars, restarts' = 0
  PROVE  RL!Next \/ UNCHANGED RL!vars
<1> DEFINE log == [i \in 1..Len(Log) |-> Log[i].termId]
           committed == Least(mCommitIndex, Len(Log))
<1>1. restarts = 0
  <2>1. restarts \in Nat /\ (restarts' = restarts + 1 \/ restarts' = restarts)
    <3>1. Next => (restarts' = restarts + 1 \/ restarts' = restarts)
      BY DEF Next, MessageThread, DataThread, MainThread, Restart, Receive, Check, LookAtEntry,
             AppendEntry, AdoptCommit, ApplyCommittedLogs, CommitAcknowledged, ReadForFollower,
             BecomeLeader, DataPop, DataAppend, DataBroadcast, HeartbeatReadLast,
             HeartbeatReadPrev
    <3> QED BY <3>1 DEF vars, IInv, FileInv
  <2> QED BY <2>1
<1>2. /\ Log \in Seq(Entry) /\ Len(Log) = mLastLogIdApplied + Len(mLogQueue)
      /\ Len(appliedFile) = mLastLogIdApplied /\ Len(mLogQueue) \in Nat /\ Len(Log) \in Nat
  BY <1>1, LogIs
<1>3. /\ appliedFile \in Seq(Entry) /\ mLogQueue \in Seq(Entry)
      /\ mLastLogIdApplied \in Nat /\ mCommitIndex \in Nat /\ mLastLogId \in Nat
      /\ mLastLogIdApplied <= mCommitIndex
      /\ mLock = "free" => Len(Log) = mLastLogId /\ mCommitIndex <= Len(Log)
      /\ Len(Log) <= mLastLogId
  BY <1>2 DEF IInv, QueueInv, QueueHoldsUnapplied, FileInv
<1>4. log = Terms(Log) /\ log' = Terms(Log') /\ Log' = appliedFile' \o mLogQueue'
  BY DEF Terms, Log
<1>5. CASE UNCHANGED <<appliedFile, mLogQueue, mCommitIndex, mLastLogIdApplied>>
  BY <1>5 DEF RL!vars, Log
<1>6. CASE /\ mLock = "free"
           /\ \E e \in Entry : mLogQueue' = Append(mLogQueue, e)
           /\ UNCHANGED <<appliedFile, mCommitIndex, mLastLogIdApplied>>
  <2>1. PICK e \in Entry : mLogQueue' = Append(mLogQueue, e)
    BY <1>6
  <2>2. Log' = Append(Log, e)
    BY <1>3, <1>4, <1>6, <2>1, AppendToConcat DEF Log
  <2>3. /\ e.termId \in Nat /\ log' = Append(log, e.termId) /\ log \in Seq(Nat)
        /\ Len(log) = Len(Log)
    <3>1. Terms(Append(Log, e)) = Append(Terms(Log), e.termId)
      BY <1>2, TermsAppend
    <3>2. log' = Append(log, e.termId)
      BY <1>4, <2>2, <3>1
    <3>3. Terms(Log) \in Seq(Nat) /\ Len(Terms(Log)) = Len(Log)
      BY <1>2, TermsIs
    <3>4. e.termId \in Nat
      BY DEF Entry
    <3> QED BY <1>4, <3>2, <3>3, <3>4
  <2> HIDE DEF log
  <2>4. log' # <<>> /\ Len(log') = Len(log) + 1 /\ log'[Len(log')] = e.termId
    BY <2>3, AppendProperties
  <2>5. Len(Log') = Len(Log) + 1
    BY <1>2, <2>2, AppendProperties
  <2>6. committed' = committed
    BY <1>2, <1>3, <1>6, <2>5 DEF Least
  <2>7. /\ log' # <<>> /\ log' = Append(log, log'[Len(log')]) /\ committed' = committed
        /\ mLastLogIdApplied' = mLastLogIdApplied
    BY <1>6, <2>3, <2>4, <2>6
  <2> QED BY <2>7 DEF RL!Next, RL!Grow, log
<1>7. CASE /\ \E k \in 0..Len(mLogQueue) :
                mLogQueue' = SubSeq(mLogQueue, 1, k) /\ mCommitIndex <= mLastLogIdApplied + k
           /\ UNCHANGED <<appliedFile, mCommitIndex, mLastLogIdApplied>>
  <2>1. PICK k \in 0..Len(mLogQueue) :
          mLogQueue' = SubSeq(mLogQueue, 1, k) /\ mCommitIndex <= mLastLogIdApplied + k
    BY <1>7
  <2> DEFINE n == mLastLogIdApplied + k
  <2>2. Log' = SubSeq(Log, 1, n)
    <3>1. appliedFile \o SubSeq(mLogQueue, 1, k) =
            SubSeq(appliedFile \o mLogQueue, 1, Len(appliedFile) + k)
      BY <1>3, PrefixOfConcat
    <3>2. Log' = appliedFile \o SubSeq(mLogQueue, 1, k)
      BY <1>4, <1>7, <2>1
    <3> QED BY <1>2, <3>1, <3>2 DEF Log
  <2>3. n \in 0..Len(Log) /\ n \in committed..Len(Log) /\ committed = mCommitIndex
    BY <1>2, <1>3, <2>1 DEF Least
  <2> HIDE DEF n
  <2>4. log' = SubSeq(log, 1, n) /\ Len(log) = Len(Log) /\ Len(Log') = n
    BY <1>2, <1>4, <2>2, <2>3, TermsPrefix, TermsIs, Prefix
  <2>5. committed' = committed
    BY <1>3, <1>7, <2>1, <2>3, <2>4 DEF Least, n
  <2> HIDE DEF log, committed
  <2>6. /\ \E j \in committed..Len(log) : log' = SubSeq(log, 1, j)
        /\ committed' = committed /\ mLastLogIdApplied' = mLastLogIdApplied
    BY <1>7, <2>3, <2>4, <2>5
  <2> QED BY <2>6 DEF RL!Next, RL!Remove, log, committed
<1>8. CASE /\ mCommitIndex' \in mCommitIndex..mLastLogId
           /\ UNCHANGED <<appliedFile, mLogQueue, mLastLogIdApplied>>
  <2>1. Log' = Log /\ Len(Log') = Len(Log)
    BY <1>8 DEF Log
  <2>2. committed' \in committed..Len(Log)
    BY <1>2, <1>3, <1>8, <2>1 DEF Least
  <2>3. Len(log) = Len(Log) /\ log' = log
    BY <1>2, <1>4, <2>1, TermsIs
  <2> HIDE DEF log, committed
  <2>4. committed' \in committed..Len(log) /\ log' = log /\ mLastLogIdApplied' = mLastLogIdApplied
    BY <1>8, <2>2, <2>3
  <2> QED BY <2>4 DEF RL!Next, RL!Commit, log, committed
<1>9. CASE ApplyUpTo(mCommitIndex) /\ UNCHANGED mCommitIndex
  <2>1. CASE mCommitIndex <= mLastLogIdApplied
    BY <1>9, <2>1 DEF ApplyUpTo, RL!vars, Log, logVars
  <2>2. CASE ~(mCommitIndex <= mLastLogIdApplied)
    <3>1. mLock = "free" /\ SetLastLogIdApplied(mCommitIndex)
      BY <1>9, <2>2 DEF ApplyUpTo
    <3> DEFINE k == mCommitIndex - mLastLogIdApplied
    <3>2. Applying(mCommitIndex) = k /\ k \in 0..Len(mLogQueue)
      BY <1>2, <1>3, <3>1, ApplyingIs DEF IInv
    <3>3. /\ mLogQueue' = SubSeq(mLogQueue, k + 1, Len(mLogQueue))
          /\ appliedFile' = appliedFile \o SubSeq(mLogQueue, 1, k)
          /\ mLastLogIdApplied' = mCommitIndex
      BY <3>1, <3>2 DEF SetLastLogIdApplied
    <3> HIDE DEF k
    <3>4. Log' = Log
      <4>1. (appliedFile \o SubSeq(mLogQueue, 1, k)) \o SubSeq(mLogQueue, k + 1, Len(mLogQueue)) =
              appliedFile \o mLogQueue
        <5>1. appliedFile \in Seq(Entry) /\ mLogQueue \in Seq(Entry) /\ k \in 0..Len(mLogQueue)
          BY <1>3, <3>2
        <5> QED BY <5>1, MoveKeepsConcat, ZenonT(40)
      <4> QED BY <1>4, <3>3, <4>1 DEF Log
    <3>5. log' = log /\ committed' = committed /\ committed = mCommitIndex
      BY <1>2, <1>3, <1>9, <3>1, <3>4 DEF Least
    <3>6. mLastLogIdApplied' \in mLastLogIdApplied..committed
      BY <1>3, <3>3, <3>5
    <3> QED BY <3>5, <3>6 DEF RL!Next, RL!Apply
  <2> QED BY <2>1, <2>2
<1> QED BY <1>5, <1>6, <1>7, <1>8, <1>9, KindsOfStep

(* The three threads together keep the log of RaftLog up to a restart: it  *)
(* grows at its end, loses no committed entry, and what is applied is      *)
(* committed (appendLog, removeLogs, setCommitIndex, applyCommittedLogs).  *)
THEOREM KeepsTheLog == Spec => ImplementsRaftLog
<1>1. Init => RL!Init
  <2>1. Init => Log = <<>> /\ Len(Log) = 0
    BY DEF Init, Log
  <2> QED BY <2>1 DEF Init, RL!Init, Least
<1>2. IInv /\ [Next]_vars => [restarts' = 0 => RL!Next]_(RL!vars)
  BY StepOfRaftLog
<1> QED BY <1>1, <1>2, Invariant, PTL DEF Spec, ImplementsRaftLog
===============================================================================
