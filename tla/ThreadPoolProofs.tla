--------------------------- MODULE ThreadPoolProofs ---------------------------
(***************************************************************************)
(* Proofs about ThreadPool for any tasks, callers, owners and number of    *)
(* shells.                                                                 *)
(***************************************************************************)
EXTENDS ThreadPool, FiniteSetTheorems, SequenceTheorems, TLAPS

Elements(q) == {q[i] : i \in DOMAIN q}
Distinct(q) == \A i, j \in DOMAIN q : q[i] = q[j] => i = j

(* What is left of a queue when its head is taken.                         *)
LEMMA TailOf ==
  ASSUME NEW S, NEW q \in Seq(S), q # <<>>
  PROVE  /\ Tail(q) \in Seq(S)
         /\ Head(q) \in S
         /\ Elements(q) = {Head(q)} \cup Elements(Tail(q))
         /\ Distinct(q) => Distinct(Tail(q)) /\ Head(q) \notin Elements(Tail(q))
<1>1. /\ Tail(q) \in Seq(S) /\ Len(q) \in Nat \ {0} /\ Len(Tail(q)) = Len(q) - 1
      /\ DOMAIN q = 1..Len(q) /\ DOMAIN Tail(q) = 1..(Len(q) - 1)
      /\ Head(q) = q[1] /\ Head(q) \in S
      /\ \A i \in 1..(Len(q) - 1) : Tail(q)[i] = q[i + 1]
  BY HeadTailProperties, LenProperties, EmptySeq
<1>2. Elements(q) = {Head(q)} \cup Elements(Tail(q))
  <2>1. ASSUME NEW i \in 1..Len(q), i # 1
        PROVE  q[i] = Tail(q)[i - 1] /\ i - 1 \in 1..(Len(q) - 1)
    <3>1. i - 1 \in 1..(Len(q) - 1) /\ (i - 1) + 1 = i
      BY <1>1, <2>1
    <3> QED BY <1>1, <3>1
  <2>2. \A i \in 1..(Len(q) - 1) : Tail(q)[i] = q[i + 1] /\ i + 1 \in 1..Len(q)
    BY <1>1
  <2>3. Elements(q) \subseteq {Head(q)} \cup Elements(Tail(q))
    <3> SUFFICES ASSUME NEW i \in DOMAIN q, q[i] # Head(q) PROVE q[i] \in Elements(Tail(q))
      BY DEF Elements
    <3>1. i \in 1..Len(q) /\ i # 1
      BY <1>1
    <3> QED BY <1>1, <2>1, <3>1 DEF Elements
  <2>4. {Head(q)} \cup Elements(Tail(q)) \subseteq Elements(q)
    <3>1. 1 \in 1..Len(q) BY <1>1
    <3> QED BY <1>1, <2>2, <3>1 DEF Elements
  <2> QED BY <2>3, <2>4
<1>3. ASSUME Distinct(q) PROVE Distinct(Tail(q)) /\ Head(q) \notin Elements(Tail(q))
  <2>1. \A i \in 1..(Len(q) - 1) : i + 1 \in 1..Len(q) /\ i + 1 # 1 /\ 1 \in 1..Len(q)
    BY <1>1
  <2>2. \A i, j \in 1..(Len(q) - 1) : i + 1 = j + 1 => i = j
    BY <1>1
  <2> QED BY <1>1, <1>3, <2>1, <2>2 DEF Distinct, Elements
<1> QED BY <1>1, <1>2, <1>3

(* A queue with one more element at its end.                               *)
LEMMA AppendOf ==
  ASSUME NEW S, NEW q \in Seq(S), NEW x \in S
  PROVE  /\ Append(q, x) \in Seq(S) /\ Append(q, x) # <<>>
         /\ Elements(Append(q, x)) = Elements(q) \cup {x}
         /\ Distinct(q) /\ x \notin Elements(q) => Distinct(Append(q, x))
<1>1. /\ Append(q, x) \in Seq(S) /\ Len(q) \in Nat /\ Len(Append(q, x)) = Len(q) + 1
      /\ DOMAIN q = 1..Len(q) /\ DOMAIN Append(q, x) = 1..(Len(q) + 1)
      /\ \A i \in 1..Len(q) : Append(q, x)[i] = q[i]
      /\ Append(q, x)[Len(q) + 1] = x
  OBVIOUS
<1>2. 1..(Len(q) + 1) = 1..Len(q) \cup {Len(q) + 1}
  BY <1>1
<1>3. Elements(Append(q, x)) = Elements(q) \cup {x}
  BY <1>1, <1>2 DEF Elements
<1>4. Distinct(q) /\ x \notin Elements(q) => Distinct(Append(q, x))
  BY <1>1, <1>2 DEF Elements, Distinct
<1> QED BY <1>1, <1>3, <1>4

-------------------------------------------------------------------------------
(***************************************************************************)
(* The inductive invariant: every task of the pool has been handed over    *)
(* and is in one place; a thread that runs a task holds it; a semaphore    *)
(* counts the finished tasks of its owner.                                 *)
(***************************************************************************)
ShellShape(s) ==
  /\ s > shells => thread[s] = "none"
  /\ thread[s] \in {"none", "wait"} => mProcessor[s] = Nil
  /\ thread[s] \in {"run", "ran"} => mProcessor[s] # Nil
  /\ thread[s] = "ran" => mProcessor[s] \in done
Placed == Queued \cup Held \cup done \subseteq sent
PostsCounted ==
  \A o \in Sync : sem[o] + taken[o] = Cardinality(Children(o) \cap done)
PoolInv == /\ TypeOK
           /\ RunOnce
           /\ Placed
           /\ \A s \in Shell : ShellShape(s)

USE PoolAssumption DEF Shell, Asleep

(* The shell that gets a task is one of the pool's, or the next one.       *)
LEMMA ShellOf ==
  ASSUME TypeOK, NEW s \in GetShell
  PROVE  /\ s \in Shell
         /\ s <= shells => mState[s] # "active"
         /\ (IF s > shells THEN s ELSE shells) \in 0..MaxShells
         /\ (IF s > shells THEN s ELSE shells) >= shells
         /\ s <= (IF s > shells THEN s ELSE shells)
BY DEF TypeOK, GetShell, Free

(* What handing out the head of a queue does to the places of tasks.       *)
LEMMA HandOutPlaces ==
  ASSUME PoolInv,
         NEW q \in Seq(Task), q # <<>>, Distinct(q), Elements(q) \cap (Held \cup done) = {},
         NEW th \in [Shell -> ThreadPc],
         \A s \in Shell : th[s] = thread[s] \/ (thread[s] = "idle" /\ th[s] = "top"),
         HandOut(q, th), UNCHANGED done
  PROVE  /\ mProcessors' \in Seq(Task)
         /\ shells' \in 0..MaxShells
         /\ mState' \in [Shell -> {"idle", "active", "stopped"}]
         /\ mProcessor' \in [Shell -> Task \cup {Nil}]
         /\ thread' \in [Shell -> ThreadPc]
         /\ Queued' \cup Held' \subseteq Held \cup Elements(q)
         /\ RunOnce'
         /\ \A s \in Shell : ShellShape(s)'
<1>1. CASE GetShell = {} /\ mProcessors' = q /\ thread' = th
           /\ UNCHANGED <<shells, mState, mProcessor>>
  <2>1. Queued' = Elements(q) /\ Held' = Held
    BY <1>1 DEF Queued, Held, Elements
  <2>2. RunOnce'
    BY <1>1, <2>1 DEF PoolInv, RunOnce, Distinct
  <2>3. ASSUME NEW s \in Shell PROVE ShellShape(s)'
    BY <1>1, <2>3 DEF PoolInv, ShellShape
  <2> QED BY <1>1, <2>1, <2>2, <2>3 DEF PoolInv, TypeOK
<1>2. ASSUME NEW u \in GetShell,
             mProcessors' = Tail(q),
             shells' = IF u > shells THEN u ELSE shells,
             StartProcess(u, Head(q), th)
      PROVE  /\ mProcessors' \in Seq(Task)
             /\ shells' \in 0..MaxShells
             /\ mState' \in [Shell -> {"idle", "active", "stopped"}]
             /\ mProcessor' \in [Shell -> Task \cup {Nil}]
             /\ thread' \in [Shell -> ThreadPc]
             /\ Queued' \cup Held' \subseteq Held \cup Elements(q)
             /\ RunOnce'
             /\ \A s \in Shell : ShellShape(s)'
  <2> DEFINE h == Head(q)
  <2>1. /\ Tail(q) \in Seq(Task) /\ h \in Task
        /\ Elements(q) = {h} \cup Elements(Tail(q))
        /\ Distinct(Tail(q)) /\ h \notin Elements(Tail(q))
    BY TailOf
  <2>2. u \in Shell /\ shells' \in 0..MaxShells /\ shells' >= shells /\ u <= shells'
    BY <1>2, ShellOf DEF PoolInv
  <2>3. Queued' = Elements(Tail(q)) /\ Distinct(mProcessors')
    BY <1>2, <2>1 DEF Queued, Elements, Distinct
  <2>4. CASE mProcessor[u] # Nil /\ thread' = th /\ UNCHANGED <<mState, mProcessor>>
    <3>1. Held' = Held
      BY <2>4 DEF Held
    <3>2. RunOnce'
      BY <2>1, <2>3, <2>4, <3>1 DEF PoolInv, RunOnce, Distinct
    <3>3. ASSUME NEW s \in Shell PROVE ShellShape(s)'
      <4>1. ShellShape(s) BY DEF PoolInv
      <4>2. s > shells' => s > shells BY <2>2 DEF PoolInv, TypeOK
      <4>3. u > shells => mProcessor[u] = Nil
        BY <2>2 DEF PoolInv, ShellShape
      <4> QED BY <2>4, <4>1, <4>2 DEF ShellShape
    <3> QED BY <1>2, <2>1, <2>2, <2>3, <2>4, <3>1, <3>2, <3>3 DEF PoolInv, TypeOK
  <2>5. CASE /\ mProcessor[u] = Nil
             /\ mState' = [mState EXCEPT ![u] = "active"]
             /\ mProcessor' = [mProcessor EXCEPT ![u] = h]
             /\ thread' = [th EXCEPT ![u] = IF @ \in Asleep THEN "top" ELSE @]
    <3>0. /\ mState' \in [Shell -> {"idle", "active", "stopped"}]
          /\ mProcessor' \in [Shell -> Task \cup {Nil}]
          /\ thread' \in [Shell -> ThreadPc]
          /\ mProcessor'[u] = h
          /\ thread'[u] = IF th[u] \in {"none", "wait", "exited"} THEN "top" ELSE th[u]
          /\ \A s \in Shell \ {u} : mProcessor'[s] = mProcessor[s] /\ thread'[s] = th[s]
      BY <2>1, <2>2, <2>5 DEF PoolInv, TypeOK, ThreadPc
    <3>1. Held' = Held \cup {h}
      BY <2>1, <2>2, <2>5, <3>0 DEF Held, PoolInv, TypeOK
    <3>2. h \notin Held /\ h \notin done
      BY <2>1
    <3>3. \A s, v \in Shell : mProcessor'[s] = mProcessor'[v] /\ mProcessor'[s] # Nil => s = v
      <4>1. \A s \in Shell : mProcessor[s] # h
        BY <2>1, <3>2 DEF Held
      <4> QED BY <2>2, <3>0, <4>1 DEF PoolInv, RunOnce
    <3>4. \A s \in Shell : mProcessor'[s] \in done => thread'[s] = "ran"
      <4>1. \A s \in Shell : mProcessor[s] \in done => th[s] = "ran"
        BY DEF PoolInv, RunOnce
      <4> QED BY <2>2, <3>0, <3>2, <4>1
    <3>5. Queued' \cap (Held' \cup done') = {}
      BY <2>1, <2>3, <3>1
    <3>6. RunOnce'
      BY <2>3, <3>3, <3>4, <3>5 DEF RunOnce, Distinct
    <3>7. ASSUME NEW s \in Shell PROVE ShellShape(s)'
      <4>1. ShellShape(s) BY DEF PoolInv
      <4>2. s > shells' => s > shells /\ s # u BY <2>2 DEF PoolInv, TypeOK
      <4>3. CASE s # u
        BY <3>0, <4>1, <4>2, <4>3 DEF ShellShape
      <4>4. CASE s = u
        <5>1. thread[u] \notin {"run", "ran"}
          BY <2>5, <4>1, <4>4 DEF ShellShape
        <5>2. thread'[u] \notin {"none", "wait", "run", "ran"} /\ h # Nil
          BY <2>1, <2>2, <3>0, <5>1 DEF ThreadPc
        <5> QED BY <4>2, <4>4, <5>2 DEF ShellShape
      <4> QED BY <4>3, <4>4
    <3> QED BY <1>2, <2>1, <2>2, <2>3, <3>0, <3>1, <3>6, <3>7
  <2> QED BY <1>2, <2>4, <2>5 DEF StartProcess
<1> QED BY <1>1, <1>2 DEF HandOut

(* The posts of the finished tasks, for an owner that uses procSync.       *)
LEMMA ChildrenFinite ==
  ASSUME NEW o, NEW S
  PROVE  /\ IsFiniteSet(Children(o)) /\ IsFiniteSet(Children(o) \cap S)
         /\ Cardinality(Children(o) \cap S) \in Nat
<1>1. Children(o) \subseteq Task /\ Children(o) \cap S \subseteq Task
  BY DEF Children
<1> QED BY <1>1, FS_Subset, FS_CardinalityType

LEMMA InitInv == Init => PoolInv /\ PostsCounted
<1> SUFFICES ASSUME Init PROVE PoolInv /\ PostsCounted
  OBVIOUS
<1>1. TypeOK
  BY EmptySeq DEF Init, TypeOK, ThreadPc
<1>2. Queued = {} /\ Held = {} /\ done = {}
  BY DEF Init, Queued, Held
<1>3. RunOnce /\ Placed /\ \A s \in Shell : ShellShape(s)
  BY <1>2 DEF Init, RunOnce, Placed, ShellShape
<1>4. PostsCounted
  <2>1. ASSUME NEW o \in Sync PROVE Cardinality(Children(o) \cap done) = 0
    BY <1>2, FS_EmptySet
  <2> QED BY <2>1 DEF Init, PostsCounted, Submitter
<1> QED BY <1>1, <1>3, <1>4 DEF PoolInv

LEMMA ProcInv ==
  ASSUME PoolInv, NEW o \in Submitter, NEW t \in Task, Proc(o, t)
  PROVE  PoolInv'
<1> DEFINE q == Append(mProcessors, t)
<1>1. t \notin Queued /\ t \notin Held /\ t \notin done /\ mProcessors \in Seq(Task)
  BY DEF Proc, PoolInv, TypeOK, Placed
<1>2. q \in Seq(Task) /\ q # <<>> /\ Elements(q) = Queued \cup {t} /\ Distinct(q)
  <2>1. Queued = Elements(mProcessors) /\ Distinct(mProcessors)
    BY DEF Queued, Elements, PoolInv, RunOnce, Distinct
  <2> QED BY <1>1, <2>1, AppendOf
<1>3. Elements(q) \cap (Held \cup done) = {}
  BY <1>1, <1>2 DEF PoolInv, RunOnce
<1>4. HandOut(q, thread) /\ UNCHANGED <<sem, taken, done>> /\ sent' = sent \cup {t}
  BY DEF Proc
<1>5. thread \in [Shell -> ThreadPc]
  BY DEF PoolInv, TypeOK
<1>6. /\ mProcessors' \in Seq(Task)
      /\ shells' \in 0..MaxShells
      /\ mState' \in [Shell -> {"idle", "active", "stopped"}]
      /\ mProcessor' \in [Shell -> Task \cup {Nil}]
      /\ thread' \in [Shell -> ThreadPc]
      /\ Queued' \cup Held' \subseteq Held \cup Elements(q)
      /\ RunOnce'
      /\ \A s \in Shell : ShellShape(s)'
  <2> HIDE DEF q
  <2> QED BY <1>2, <1>3, <1>4, <1>5, HandOutPlaces
<1>7. TypeOK'
  BY <1>4, <1>6 DEF PoolInv, TypeOK
<1>8. Placed'
  BY <1>2, <1>4, <1>6 DEF PoolInv, Placed
<1> QED BY <1>6, <1>7, <1>8 DEF PoolInv

LEMMA ReturnShellInv ==
  ASSUME PoolInv, NEW r \in Shell, ReturnShell(r)
  PROVE  PoolInv'
<1> DEFINE awake == [thread EXCEPT ![r] = "top"]
<1>1. /\ awake \in [Shell -> ThreadPc]
      /\ \A s \in Shell : awake[s] = thread[s] \/ (thread[s] = "idle" /\ awake[s] = "top")
  BY DEF ReturnShell, PoolInv, TypeOK, ThreadPc
<1>2. CASE mProcessors # <<>> /\ HandOut(mProcessors, awake)
  <2>1. /\ mProcessors \in Seq(Task) /\ Distinct(mProcessors)
        /\ Elements(mProcessors) = Queued
        /\ Queued \cap (Held \cup done) = {}
    BY DEF PoolInv, TypeOK, RunOnce, Queued, Elements, Distinct
  <2>2. UNCHANGED <<ownerVars, done>>
    BY DEF ReturnShell
  <2>3. /\ mProcessors' \in Seq(Task)
        /\ shells' \in 0..MaxShells
        /\ mState' \in [Shell -> {"idle", "active", "stopped"}]
        /\ mProcessor' \in [Shell -> Task \cup {Nil}]
        /\ thread' \in [Shell -> ThreadPc]
        /\ Queued' \cup Held' \subseteq Held \cup Elements(mProcessors)
        /\ RunOnce'
        /\ \A s \in Shell : ShellShape(s)'
    <3> HIDE DEF awake
    <3> QED BY <1>1, <1>2, <2>1, <2>2, HandOutPlaces
  <2>4. TypeOK' /\ Placed'
    BY <2>1, <2>2, <2>3 DEF PoolInv, TypeOK, Placed, ownerVars
  <2> QED BY <2>3, <2>4 DEF PoolInv
<1>3. CASE thread' = awake /\ UNCHANGED <<mProcessors, shells, mState, mProcessor>>
  <2>1. UNCHANGED <<mProcessors, shells, mState, mProcessor, sent, sem, taken, done>>
    BY <1>3 DEF ReturnShell, ownerVars
  <2>2. TypeOK'
    BY <1>1, <1>3, <2>1 DEF PoolInv, TypeOK
  <2>3. thread[r] = "idle" /\ thread \in [Shell -> ThreadPc]
    BY DEF ReturnShell, PoolInv, TypeOK
  <2>4. RunOnce' /\ Placed'
    BY <1>3, <2>1, <2>3 DEF PoolInv, RunOnce, Placed, Queued, Held
  <2>5. ASSUME NEW s \in Shell PROVE ShellShape(s)'
    <3>1. ShellShape(s) BY DEF PoolInv
    <3>2. r <= shells
      <4>1. ShellShape(r) BY DEF PoolInv
      <4> QED BY <2>3, <4>1 DEF ShellShape, PoolInv, TypeOK
    <3> QED BY <1>3, <2>1, <2>3, <3>1, <3>2 DEF ShellShape, PoolInv, TypeOK
  <2> QED BY <2>2, <2>4, <2>5 DEF PoolInv
<1> QED BY <1>2, <1>3 DEF ReturnShell

LEMMA LookInv ==
  ASSUME PoolInv, NEW r \in Shell, Look(r)
  PROVE  PoolInv'
<1>1. /\ thread[r] = "top" /\ thread \in [Shell -> ThreadPc]
      /\ thread' = [thread EXCEPT ![r] = IF mProcessor[r] = Nil THEN "wait" ELSE "run"]
      /\ UNCHANGED <<mProcessors, shells, mState, mProcessor, sent, sem, taken, done>>
  BY DEF Look, PoolInv, TypeOK, ownerVars
<1>2. TypeOK' BY <1>1 DEF PoolInv, TypeOK, ThreadPc
<1>3. RunOnce' /\ Placed' BY <1>1 DEF PoolInv, RunOnce, Placed, Queued, Held
<1>4. ASSUME NEW s \in Shell PROVE ShellShape(s)'
  BY <1>1 DEF PoolInv, TypeOK, ShellShape
<1> QED BY <1>2, <1>3, <1>4 DEF PoolInv

LEMMA LeaveInv ==
  ASSUME PoolInv, NEW r \in Shell, TimeOut(r) \/ Expire(r)
  PROVE  PoolInv'
<1>1. PICK pc \in {"timedOut", "exited"} :
        /\ thread[r] \in {"wait", "timedOut"} /\ thread \in [Shell -> ThreadPc]
        /\ thread' = [thread EXCEPT ![r] = pc]
        /\ mState' = mState \/ mState' = [mState EXCEPT ![r] = "stopped"]
        /\ UNCHANGED <<mProcessors, shells, mProcessor, sent, sem, taken, done>>
  BY DEF TimeOut, Expire, Exit, PoolInv, TypeOK, ownerVars
<1>2. TypeOK' BY <1>1 DEF PoolInv, TypeOK, ThreadPc
<1>3. RunOnce' /\ Placed' BY <1>1 DEF PoolInv, RunOnce, Placed, Queued, Held
<1>4. ASSUME NEW s \in Shell PROVE ShellShape(s)'
  BY <1>1 DEF PoolInv, TypeOK, ShellShape
<1> QED BY <1>2, <1>3, <1>4 DEF PoolInv

LEMMA FinishRunInv ==
  ASSUME PoolInv, NEW r \in Shell, FinishRun(r)
  PROVE  PoolInv' /\ mProcessor[r] \in Task /\ mProcessor[r] \notin done
<1>1. /\ thread[r] = "run" /\ thread \in [Shell -> ThreadPc]
      /\ thread' = [thread EXCEPT ![r] = "ran"]
      /\ done' = done \cup {mProcessor[r]}
      /\ sem' = PostSem(mProcessor[r])
      /\ UNCHANGED <<mProcessors, shells, mState, mProcessor, sent, taken>>
  BY DEF FinishRun, PoolInv, TypeOK
<1>2. mProcessor[r] \in Task /\ mProcessor[r] \notin done /\ mProcessor[r] \in Held
  BY <1>1 DEF PoolInv, TypeOK, ShellShape, RunOnce, Held
<1>3. TypeOK'
  <2>1. sem' \in [Submitter -> Nat]
    BY <1>1, <1>2 DEF PostSem, PoolInv, TypeOK
  <2> QED BY <1>1, <1>2, <2>1 DEF PoolInv, TypeOK, ThreadPc
<1>4. Placed'
  BY <1>1, <1>2 DEF PoolInv, Placed, Queued, Held
<1>5. RunOnce'
  <2>1. Queued' = Queued /\ Held' = Held
    BY <1>1 DEF Queued, Held
  <2>2. Queued' \cap (Held' \cup done') = {}
    BY <1>1, <1>2, <2>1 DEF PoolInv, RunOnce
  <2>3. ASSUME NEW s \in Shell, mProcessor[s] \in done' PROVE thread'[s] = "ran"
    BY <1>1, <1>2, <2>3 DEF PoolInv, RunOnce, TypeOK
  <2> QED BY <1>1, <2>2, <2>3 DEF PoolInv, RunOnce
<1>6. ASSUME NEW s \in Shell PROVE ShellShape(s)'
  BY <1>1, <1>2 DEF PoolInv, TypeOK, ShellShape
<1> QED BY <1>2, <1>3, <1>4, <1>5, <1>6 DEF PoolInv

LEMMA BecomeIdleInv ==
  ASSUME PoolInv, NEW r \in Shell, BecomeIdle(r)
  PROVE  PoolInv' /\ Held' \ done' = Held \ done
<1>1. /\ thread[r] = "ran" /\ thread \in [Shell -> ThreadPc]
      /\ thread' = [thread EXCEPT ![r] = "idle"]
      /\ mProcessor' = [mProcessor EXCEPT ![r] = Nil]
      /\ mProcessor \in [Shell -> Task \cup {Nil}]
      /\ mState' = [mState EXCEPT ![r] = "idle"]
      /\ UNCHANGED <<mProcessors, shells, sent, sem, taken, done>>
  BY DEF BecomeIdle, PoolInv, TypeOK, ownerVars
<1>2. TypeOK' BY <1>1 DEF PoolInv, TypeOK, ThreadPc
<1>3. Queued' = Queued /\ Held' \subseteq Held
  BY <1>1 DEF Queued, Held
<1>4. Placed' BY <1>1, <1>3 DEF PoolInv, Placed
<1>5. RunOnce'
  <2>1. Nil \notin done BY DEF PoolInv, TypeOK
  <2> QED BY <1>1, <1>3, <2>1 DEF PoolInv, RunOnce
<1>6. ASSUME NEW s \in Shell PROVE ShellShape(s)'
  BY <1>1 DEF PoolInv, TypeOK, ShellShape
<1>7. Held' \ done' = Held \ done
  <2>1. mProcessor[r] \in done
    BY <1>1 DEF PoolInv, ShellShape
  <2> QED BY <1>1, <2>1 DEF Held
<1> QED BY <1>2, <1>4, <1>5, <1>6, <1>7 DEF PoolInv

LEMMA SemWaitInv ==
  ASSUME PoolInv, PostsCounted, NEW o \in Submitter, SemWait(o)
  PROVE  PoolInv' /\ PostsCounted'
<1>1. /\ sem[o] \in Nat \ {0} /\ sem \in [Submitter -> Nat] /\ taken \in [Submitter -> Nat]
      /\ sem' = [sem EXCEPT ![o] = @ - 1] /\ taken' = [taken EXCEPT ![o] = @ + 1]
      /\ UNCHANGED <<mProcessors, shells, mState, mProcessor, thread, sent, done>>
  BY DEF SemWait, PoolInv, TypeOK, shellVars
<1>2. TypeOK' BY <1>1 DEF PoolInv, TypeOK
<1>3. RunOnce' /\ Placed' /\ \A s \in Shell : ShellShape(s)'
  BY <1>1 DEF PoolInv, RunOnce, Placed, ShellShape, Queued, Held
<1>4. PostsCounted'
  <2>1. \A p \in Submitter : sem'[p] + taken'[p] = sem[p] + taken[p]
    BY <1>1
  <2> QED BY <1>1, <2>1 DEF PostsCounted
<1> QED BY <1>2, <1>3, <1>4 DEF PoolInv

(* One post for each task that finishes, to its own owner.                 *)
LEMMA FinishRunCounts ==
  ASSUME PoolInv, PostsCounted, NEW r \in Shell, FinishRun(r)
  PROVE  PostsCounted'
<1> DEFINE t == mProcessor[r]
<1>1. t \in Task /\ t \notin done
  BY FinishRunInv
<1>2. /\ done' = done \cup {t} /\ sem' = PostSem(t) /\ taken' = taken
      /\ sem \in [Submitter -> Nat] /\ taken \in [Submitter -> Nat]
  BY DEF FinishRun, PoolInv, TypeOK
<1> SUFFICES ASSUME NEW o \in Sync
             PROVE  sem'[o] + taken'[o] = Cardinality(Children(o) \cap done')
  BY DEF PostsCounted, Children
<1>3. sem[o] + taken[o] = Cardinality(Children(o) \cap done)
  BY DEF PostsCounted
<1>4. CASE Owner[t] = o
  <2>1. Children(o) \cap done' = (Children(o) \cap done) \cup {t}
        /\ t \notin Children(o) \cap done
    BY <1>1, <1>2, <1>4 DEF Children
  <2>2. Cardinality(Children(o) \cap done') = Cardinality(Children(o) \cap done) + 1
    <3>1. IsFiniteSet(Children(o) \cap done)
      BY ChildrenFinite
    <3> DEFINE before == Children(o) \cap done
    <3>2. IsFiniteSet(before) /\ t \notin before /\ Children(o) \cap done' = before \cup {t}
      BY <2>1, <3>1
    <3> HIDE DEF t, before
    <3>3. Cardinality(before \cup {t}) = Cardinality(before) + 1
      BY <3>2, FS_AddElement
    <3>4. Cardinality(Children(o) \cap done') = Cardinality(before) + 1
      BY <3>2, <3>3
    <3> QED BY <3>4 DEF before
  <2>3. sem'[o] = sem[o] + 1
    BY <1>2, <1>4 DEF PostSem
  <2>4. sem[o] \in Nat /\ taken[o] \in Nat
    BY <1>2
  <2> QED BY <1>2, <1>3, <2>2, <2>3, <2>4
<1>5. CASE Owner[t] # o
  <2>1. Children(o) \cap done' = Children(o) \cap done
    BY <1>2, <1>5 DEF Children
  <2>2. sem'[o] = sem[o]
    BY <1>1, <1>2, <1>5 DEF PostSem
  <2> QED BY <1>2, <1>3, <2>1, <2>2
<1> QED BY <1>4, <1>5

LEMMA NextInv == PoolInv /\ PostsCounted /\ [Next]_vars => PoolInv' /\ PostsCounted'
<1> SUFFICES ASSUME PoolInv, PostsCounted, [Next]_vars PROVE PoolInv' /\ PostsCounted'
  OBVIOUS
<1>1. ASSUME UNCHANGED <<ownerVars, done>> PROVE PostsCounted'
  BY <1>1 DEF PostsCounted, ownerVars
<1>2. ASSUME NEW o \in Submitter, NEW t \in Task, Proc(o, t) PROVE PoolInv' /\ PostsCounted'
  <2>1. PostsCounted' BY <1>2 DEF Proc, PostsCounted
  <2> QED BY <1>2, <2>1, ProcInv
<1>3. ASSUME NEW o \in Submitter, SemWait(o) PROVE PoolInv' /\ PostsCounted'
  BY <1>3, SemWaitInv
<1>4. ASSUME NEW s \in Shell, Look(s) PROVE PoolInv' /\ PostsCounted'
  BY <1>1, <1>4, LookInv DEF Look
<1>5. ASSUME NEW s \in Shell, TimeOut(s) \/ Expire(s) PROVE PoolInv' /\ PostsCounted'
  BY <1>1, <1>5, LeaveInv DEF TimeOut, Expire, Exit
<1>6. ASSUME NEW s \in Shell, FinishRun(s) PROVE PoolInv' /\ PostsCounted'
  BY <1>6, FinishRunInv, FinishRunCounts
<1>7. ASSUME NEW s \in Shell, BecomeIdle(s) PROVE PoolInv' /\ PostsCounted'
  BY <1>1, <1>7, BecomeIdleInv DEF BecomeIdle
<1>8. ASSUME NEW s \in Shell, ReturnShell(s) PROVE PoolInv' /\ PostsCounted'
  BY <1>1, <1>8, ReturnShellInv DEF ReturnShell
<1>9. ASSUME UNCHANGED vars PROVE PoolInv' /\ PostsCounted'
  <2>1. UNCHANGED <<mProcessors, shells, mState, mProcessor, thread, sent, sem, taken, done>>
    BY <1>9 DEF vars, shellVars, ownerVars
  <2>2. TypeOK' BY <2>1 DEF PoolInv, TypeOK
  <2>3. RunOnce' /\ Placed' BY <2>1 DEF PoolInv, RunOnce, Placed, Queued, Held
  <2>4. \A s \in Shell : ShellShape(s)' BY <2>1 DEF PoolInv, ShellShape
  <2>5. PostsCounted' BY <2>1 DEF PostsCounted
  <2> QED BY <2>2, <2>3, <2>4, <2>5 DEF PoolInv
<1> QED BY <1>2, <1>3, <1>4, <1>5, <1>6, <1>7, <1>8, <1>9
        DEF Next, Work, OwnerStep, ShellStep

-------------------------------------------------------------------------------
LEMMA PoolInvariant == SafeSpec => [](PoolInv /\ PostsCounted)
BY InitInv, NextInv, PTL DEF SafeSpec

(* Every variable of the pool keeps its type.                              *)
THEOREM PoolTypeCorrect == SafeSpec => []TypeOK
<1>1. PoolInv => TypeOK BY DEF PoolInv
<1> QED BY <1>1, PoolInvariant, PTL

(* No task is in two places or run twice, races of time-outs included.     *)
THEOREM TasksRunOnce == SafeSpec => []RunOnce
<1>1. PoolInv => RunOnce BY DEF PoolInv
<1> QED BY <1>1, PoolInvariant, PTL

(* procSync returns only after all of its tasks have been run.             *)
THEOREM SyncWaitsForAll == SafeSpec => []SyncReturnsAfterAll
<1>1. PoolInv /\ PostsCounted => SyncReturnsAfterAll
  <2> SUFFICES ASSUME PoolInv, PostsCounted, NEW o \in Sync, Returned(o)
               PROVE  Children(o) \subseteq done
    BY DEF SyncReturnsAfterAll
  <2>1. taken[o] = Cardinality(Children(o)) /\ sem[o] \in Nat /\ taken[o] \in Nat
    BY DEF Returned, Waits, PoolInv, TypeOK
  <2>2. sem[o] + taken[o] = Cardinality(Children(o) \cap done)
    BY DEF PostsCounted
  <2>3. Cardinality(Children(o) \cap done) <= Cardinality(Children(o))
        /\ (Cardinality(Children(o) \cap done) = Cardinality(Children(o))
              => Children(o) = Children(o) \cap done)
    BY ChildrenFinite, FS_Subset
  <2>4. Cardinality(Children(o) \cap done) = Cardinality(Children(o))
    BY <2>1, <2>2, <2>3
  <2> QED BY <2>3, <2>4
<1> QED BY <1>1, PoolInvariant, PTL

-------------------------------------------------------------------------------
(***************************************************************************)
(* The refinement of WorkQueue holds as long as a thread whose wait has    *)
(* timed out gets mCntlLock before anybody gives it a task.                *)
(***************************************************************************)
FreeInv ==
  \A s \in Shell : /\ mState[s] # "active" => mProcessor[s] = Nil
                   /\ thread[s] # "timedOut"

LEMMA FreeInvStep ==
  ASSUME ~SlowWakeup, PoolInv, FreeInv, [Next]_vars
  PROVE  FreeInv'
<1>1. /\ mState \in [Shell -> {"idle", "active", "stopped"}]
      /\ mProcessor \in [Shell -> Task \cup {Nil}] /\ thread \in [Shell -> ThreadPc]
  BY DEF PoolInv, TypeOK
<1>2. ASSUME NEW q, NEW th \in [Shell -> ThreadPc], \A s \in Shell : th[s] # "timedOut",
             HandOut(q, th)
      PROVE  FreeInv'
  <2>1. CASE thread' = th /\ UNCHANGED <<mState, mProcessor>>
    BY <1>2, <2>1 DEF FreeInv
  <2>2. ASSUME NEW u \in Shell,
               /\ mState' = [mState EXCEPT ![u] = "active"]
               /\ mProcessor' = [mProcessor EXCEPT ![u] = Head(q)]
               /\ thread' = [th EXCEPT ![u] = IF @ \in Asleep THEN "top" ELSE @]
        PROVE  FreeInv'
    BY <1>1, <1>2, <2>2 DEF FreeInv
  <2> QED BY <1>2, <2>1, <2>2 DEF HandOut, StartProcess, GetShell
<1>3. ASSUME NEW o \in Submitter, NEW t \in Task, Proc(o, t) PROVE FreeInv'
  BY <1>1, <1>2, <1>3 DEF Proc, FreeInv
<1>4. ASSUME NEW s \in Shell, ReturnShell(s) PROVE FreeInv'
  <2> DEFINE awake == [thread EXCEPT ![s] = "top"]
  <2>1. awake \in [Shell -> ThreadPc] /\ \A u \in Shell : awake[u] # "timedOut"
    BY <1>1 DEF FreeInv, ThreadPc
  <2>2. CASE HandOut(mProcessors, awake)
    <3> HIDE DEF awake
    <3> QED BY <1>2, <2>1, <2>2
  <2>3. CASE thread' = awake /\ UNCHANGED <<mState, mProcessor>>
    BY <2>1, <2>3 DEF FreeInv
  <2> QED BY <1>4, <2>2, <2>3 DEF ReturnShell
<1>5. ASSUME NEW o \in Submitter, SemWait(o) PROVE FreeInv'
  BY <1>5 DEF SemWait, shellVars, FreeInv
<1>6. ASSUME NEW s \in Shell, Look(s) \/ FinishRun(s) PROVE FreeInv'
  BY <1>1, <1>6 DEF Look, FinishRun, FreeInv
<1>7. ASSUME NEW s \in Shell, TimeOut(s) \/ Expire(s) PROVE FreeInv'
  <2>1. mProcessor[s] = Nil
    BY <1>7 DEF TimeOut, Expire, FreeInv, PoolInv, ShellShape
  <2>2. Exit(s)
    BY <1>7 DEF TimeOut, Expire, FreeInv
  <2> QED BY <1>1, <2>1, <2>2 DEF Exit, FreeInv
<1>8. ASSUME NEW s \in Shell, BecomeIdle(s) PROVE FreeInv'
  BY <1>1, <1>8 DEF BecomeIdle, FreeInv
<1>9. ASSUME UNCHANGED vars PROVE FreeInv'
  BY <1>9 DEF vars, shellVars, FreeInv
<1> QED BY <1>3, <1>4, <1>5, <1>6, <1>7, <1>8, <1>9 DEF Next, Work, OwnerStep, ShellStep

LEMMA FreeInvariant ==
  ASSUME ~SlowWakeup PROVE SafeSpec => [](PoolInv /\ FreeInv)
<1>1. Init => FreeInv BY DEF Init, FreeInv
<1>2. PoolInv /\ FreeInv /\ [Next]_vars => FreeInv' BY FreeInvStep
<1> QED BY <1>1, <1>2, PoolInvariant, PTL DEF SafeSpec

(* A shell without a task leaves room for one more running task.           *)
LEMMA RoomForOne ==
  ASSUME PoolInv, NEW u \in Shell, mProcessor[u] = Nil
  PROVE  Cardinality(Held \ done) < MaxShells
<1> DEFINE D == {s \in Shell : mProcessor[s] \in Held \ done}
           f == [s \in D |-> mProcessor[s]]
<1>1. D \subseteq Shell \ {u}
  BY DEF Held
<1>2. f \in Surjection(D, Held \ done)
  BY DEF Held, Surjection
<1>3. IsFiniteSet(Shell) /\ Cardinality(Shell) = MaxShells
  BY FS_Interval
<1>4. IsFiniteSet(Shell \ {u}) /\ Cardinality(Shell \ {u}) = MaxShells - 1
  <2> DEFINE S == Shell
  <2>1. IsFiniteSet(S) /\ Cardinality(S) = MaxShells /\ u \in S
    BY <1>3
  <2> HIDE DEF S
  <2>2. IsFiniteSet(S \ {u}) /\ Cardinality(S \ {u}) = MaxShells - 1
    BY <2>1, FS_RemoveElement
  <2> QED BY <2>2 DEF S
<1>5. IsFiniteSet(D) /\ Cardinality(D) <= MaxShells - 1 /\ Cardinality(D) \in Nat
  <2> DEFINE S == Shell \ {u}
  <2>1. IsFiniteSet(S) /\ Cardinality(S) = MaxShells - 1 /\ D \subseteq S
    BY <1>1, <1>4
  <2> HIDE DEF D, S
  <2>2. IsFiniteSet(D) /\ Cardinality(D) <= Cardinality(S)
    BY <2>1, FS_Subset
  <2> QED BY <2>1, <2>2, FS_CardinalityType
<1>6. Cardinality(Held \ done) <= Cardinality(D) /\ IsFiniteSet(Held \ done)
  <2> HIDE DEF D, f
  <2> QED BY <1>2, <1>5, FS_Surjection
<1>7. Cardinality(Held \ done) \in Nat
  BY <1>6, FS_CardinalityType
<1> QED BY <1>5, <1>6, <1>7

(* Handing out a queue's head is WorkQueue's Begin, or leaves the queue.   *)
LEMMA HandOutBegins ==
  ASSUME PoolInv, FreeInv, NEW q \in Seq(Task), q # <<>>,
         Elements(q) \cap (Held \cup done) = {},
         NEW th, HandOut(q, th), UNCHANGED done
  PROVE  Queue!Begin(q) \/ (mProcessors' = q /\ (Held \ done)' = Held \ done)
<1>1. CASE mProcessors' = q /\ UNCHANGED mProcessor
  BY <1>1 DEF Held
<1>2. ASSUME NEW u \in GetShell, mProcessors' = Tail(q), StartProcess(u, Head(q), th)
      PROVE  Queue!Begin(q)
  <2>1. u \in Shell /\ mProcessor[u] = Nil
    <3>1. u \in Shell /\ (u <= shells => mState[u] # "active")
      BY ShellOf DEF PoolInv
    <3>2. u > shells => mProcessor[u] = Nil
      BY <3>1 DEF PoolInv, ShellShape
    <3> QED BY <3>1, <3>2 DEF FreeInv, PoolInv, TypeOK
  <2>2. mProcessor' = [mProcessor EXCEPT ![u] = Head(q)] /\ Head(q) \in Task
        /\ mProcessor \in [Shell -> Task \cup {Nil}] /\ Head(q) \in Elements(q)
    BY <1>2, <2>1, TailOf DEF StartProcess, PoolInv, TypeOK
  <2>3. Held' = Held \cup {Head(q)}
    BY <2>1, <2>2 DEF Held
  <2>4. (Held \ done)' = (Held \ done) \cup {Head(q)}
    BY <2>2, <2>3
  <2>5. Cardinality(Held \ done) < MaxShells
    BY <2>1, RoomForOne
  <2>6. Queue!Cardinality(Held \ done) = Cardinality(Held \ done)
    BY Zenon DEF Queue!Cardinality, Cardinality
  <2> QED BY <1>2, <2>4, <2>5, <2>6 DEF Queue!Begin
<1> QED BY <1>1, <1>2 DEF HandOut

LEMMA RefinementStep ==
  ASSUME ~SlowWakeup, PoolInv, FreeInv, [Next]_vars
  PROVE  [Queue!Next]_(Queue!vars)
<1> USE DEF Queue!vars
<1>1. ASSUME NEW o \in Submitter, NEW t \in Task, Proc(o, t) PROVE Queue!Next
  <2> DEFINE q == Append(mProcessors, t)
  <2>1. t \notin Queued /\ t \notin Held /\ t \notin done /\ mProcessors \in Seq(Task)
    BY <1>1 DEF Proc, PoolInv, TypeOK, Placed
  <2>2. q \in Seq(Task) /\ q # <<>> /\ Elements(q) = Queued \cup {t}
    <3>1. Queued = Elements(mProcessors)
      BY DEF Queued, Elements
    <3> QED BY <2>1, <3>1, AppendOf
  <2>3. Elements(q) \cap (Held \cup done) = {}
    BY <2>1, <2>2 DEF PoolInv, RunOnce
  <2>4. HandOut(q, thread) /\ UNCHANGED done
    BY <1>1 DEF Proc
  <2>5. Queue!Begin(q) \/ (mProcessors' = q /\ (Held \ done)' = Held \ done)
    <3> HIDE DEF q
    <3> QED BY <2>2, <2>3, <2>4, HandOutBegins
  <2>6. t \notin Queue!Known
    BY <2>1 DEF Queue!Known, Queued
  <2>7. Queue!Submit(t)
    BY <2>4, <2>5, <2>6 DEF Queue!Submit
  <2> QED BY <2>7 DEF Queue!Next
<1>2. ASSUME NEW s \in Shell, ReturnShell(s) PROVE [Queue!Next]_(Queue!vars)
  <2>1. CASE mProcessors # <<>>
    <3> DEFINE awake == [thread EXCEPT ![s] = "top"]
    <3>1. HandOut(mProcessors, awake) /\ UNCHANGED done
      BY <1>2, <2>1 DEF ReturnShell
    <3>2. mProcessors \in Seq(Task) /\ Elements(mProcessors) \cap (Held \cup done) = {}
      BY DEF PoolInv, TypeOK, RunOnce, Queued, Elements
    <3>3. Queue!Begin(mProcessors)
          \/ (mProcessors' = mProcessors /\ (Held \ done)' = Held \ done)
      <4> HIDE DEF awake
      <4> QED BY <2>1, <3>1, <3>2, HandOutBegins
    <3> QED BY <3>1, <3>3 DEF Queue!Next, Queue!Start
  <2>2. CASE UNCHANGED <<mProcessors, mProcessor, done>>
    BY <2>2 DEF Held
  <2> QED BY <1>2, <2>1, <2>2 DEF ReturnShell
<1>3. ASSUME NEW s \in Shell, FinishRun(s) PROVE Queue!Next
  <2>1. mProcessor[s] \in Task /\ mProcessor[s] \notin done
    BY <1>3, FinishRunInv
  <2>2. mProcessor[s] \in Held \ done
    BY <2>1 DEF Held
  <2>3. UNCHANGED <<mProcessors, mProcessor>> /\ done' = done \cup {mProcessor[s]}
    BY <1>3 DEF FinishRun
  <2>4. (Held \ done)' = (Held \ done) \ {mProcessor[s]}
    BY <2>3 DEF Held
  <2>5. Queue!Finish(mProcessor[s])
    BY <2>2, <2>3, <2>4 DEF Queue!Finish
  <2> QED BY <2>1, <2>5 DEF Queue!Next
<1>4. ASSUME NEW s \in Shell, BecomeIdle(s) PROVE UNCHANGED Queue!vars
  BY <1>4, BecomeIdleInv DEF BecomeIdle
<1>5. ASSUME UNCHANGED <<mProcessors, mProcessor, done>> PROVE UNCHANGED Queue!vars
  BY <1>5 DEF Held
<1>6. ASSUME NEW s \in Shell, Look(s) \/ TimeOut(s) \/ Expire(s) PROVE UNCHANGED Queue!vars
  BY <1>5, <1>6 DEF Look, TimeOut, Expire, Exit
<1>7. ASSUME NEW o \in Submitter, SemWait(o) PROVE UNCHANGED Queue!vars
  BY <1>5, <1>7 DEF SemWait, shellVars
<1>8. ASSUME UNCHANGED vars PROVE UNCHANGED Queue!vars
  BY <1>5, <1>8 DEF vars, shellVars
<1> QED BY <1>1, <1>2, <1>3, <1>4, <1>6, <1>7, <1>8 DEF Next, Work, OwnerStep, ShellStep

(* Every step of the pool is a step of WorkQueue or changes nothing there: *)
(* first come, first started, at most MaxShells at a time, none dropped.   *)
THEOREM PoolImplementsQueue ==
  ASSUME ~SlowWakeup PROVE SafeSpec => Queue!SafeSpec
<1>1. Init => Queue!Init
  BY DEF Init, Queue!Init, Held
<1>2. PoolInv /\ FreeInv /\ [Next]_vars => [Queue!Next]_(Queue!vars)
  BY RefinementStep
<1> QED BY <1>1, <1>2, FreeInvariant, PTL DEF SafeSpec, Queue!SafeSpec
===============================================================================
