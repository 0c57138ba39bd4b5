-------------------------- MODULE TaskDispatchProofs --------------------------
(***************************************************************************)
(* Proofs about TaskDispatch: for any tasks, machines, slots, bindings and *)
(* number of failures and deaths.                                          *)
(***************************************************************************)
EXTENDS TaskDispatch, FiniteSetTheorems, SequenceTheorems, TLAPS

(***************************************************************************)
(* The inductive invariant.                                                *)
(***************************************************************************)
(* What the driver keeps of the job.                                       *)
JobTypes ==
  /\ jobStatus \in {"eStart", "eFinish", "eFail"}
  /\ status \in [Task -> {"eWait", "eStart", "eFinish"}]
  /\ taskServer \in [Task -> Svr \cup {Nil}]
  /\ failNum \in [Task -> 0..eMaxTaskFailNum]
  /\ mWaitTaskInfoList \in [Task -> Nat]
  /\ mNumActiveTasks \in [Svr -> Nat]
  /\ starting \in Svr \cup {Nil}

StartedHasServer == \A t \in Task : status[t] = "eStart" => taskServer[t] \in Svr

JobInv == JobTypes /\ StartedHasServer /\ SlotsCounted /\ EachTaskInOnePlace

(* A run that is known at machine p is an earlier one, or the last one of  *)
(* a task that was started there and does not wait again.                  *)
KnownAt(t, stamp, p) ==
  \/ stamp < StampOf(t)
  \/ stamp = StampOf(t) /\ status[t] # "eWait" /\ taskServer[t] = p

IsKnown(r, p) == KnownAt(r.t, r.stamp, p)
Known(p) == {r \in Run : IsKnown(r, p)}

(* What the machines keep and send.                                        *)
WaitInv == /\ mWaitTasks \in [Svr -> Seq(Run)]
           /\ \A p \in Svr : mWaitTasks[p] \in Seq(Known(p))

RunInv == /\ mRunTasks \in [Svr -> SUBSET Info]
          /\ \A p \in Svr : \A i \in mRunTasks[p] : IsKnown(i, p)

NetInv ==
  /\ net \subseteq Message
  /\ \A m \in net : m.type = "schedule" => IsKnown(m, m.svr)

QueueInv ==
  /\ mQueue \subseteq Event
  /\ \A e \in mQueue : e.type = "eUpdateTask" => IsKnown(e.info, e.svr)

SvrTypes == /\ mProcStatus \subseteq Svr /\ locked \subseteq Svr /\ down \subseteq Svr
            /\ running \in [Svr -> SUBSET Run]
            /\ deaths \in 0..MaxDeaths

IInv == JobInv /\ WaitInv /\ RunInv /\ NetInv /\ QueueInv /\ SvrTypes

USE DispatchAssumption

(* What is known stays so.                                                 *)
KnownStays == \A t \in Task : \A s \in Stamp : \A p \in Svr :
                KnownAt(t, s, p) => KnownAt(t, s, p)'

-------------------------------------------------------------------------------
(***************************************************************************)
(* Sets of tasks.                                                          *)
(***************************************************************************)
LEMMA PartCounts ==
  ASSUME NEW A, IsFiniteSet(A), NEW S \in SUBSET A
  PROVE  /\ IsFiniteSet(S) /\ Cardinality(S) \in Nat /\ Cardinality(A) \in Nat
         /\ Cardinality(S) <= Cardinality(A)
         /\ Cardinality(A \ S) = Cardinality(A) - Cardinality(S)
<1>1. /\ IsFiniteSet(S) /\ Cardinality(S) <= Cardinality(A)
  BY FS_Subset
<1>2. Cardinality(S) \in Nat /\ Cardinality(A) \in Nat
  BY <1>1, FS_CardinalityType
<1>3. Cardinality(A \ S) = Cardinality(A) - Cardinality(A \cap S)
  BY FS_Difference
<1>4. A \cap S = S
  OBVIOUS
<1> QED BY <1>1, <1>2, <1>3, <1>4

LEMMA StartedIsFinite ==
  ASSUME JobInv
  PROVE  /\ mStartTasks \subseteq Task /\ IsFiniteSet(mStartTasks)
         /\ Cardinality(mStartTasks) \in Nat /\ mFinishedNum \in Nat
         /\ \A t \in Task : t \in mStartTasks <=> status[t] = "eStart"
<1>1. /\ mStartTasks = {t \in Task : status[t] = "eStart"}
      /\ mFinishedNum = Cardinality({t \in Task : status[t] = "eFinish"})
  BY DEF JobInv, EachTaskInOnePlace
<1>2. IsFiniteSet(mStartTasks) /\ IsFiniteSet({t \in Task : status[t] = "eFinish"})
  BY <1>1, FS_Subset
<1> QED BY <1>1, <1>2, FS_CardinalityType

-------------------------------------------------------------------------------
(***************************************************************************)
(* The job.                                                                *)
(***************************************************************************)
LEMMA JobSame ==
  ASSUME JobInv, UNCHANGED <<jobVars, mWaitTaskInfoList, mNumActiveTasks>>,
         starting' \in Svr \cup {Nil}
  PROVE  JobInv' /\ KnownStays
<1>1. JobInv'
  BY DEF JobInv, JobTypes, StartedHasServer, SlotsCounted, EachTaskInOnePlace, jobVars
<1>2. KnownStays
  BY DEF KnownStays, KnownAt, StampOf, jobVars
<1> QED BY <1>1, <1>2

LEMMA StopsTyped ==
  ASSUME JobInv
  PROVE  Stops(mStartTasks) \subseteq [type : {"stop"}, svr : Svr, t : Task]
BY StartedIsFinite DEF JobInv, StartedHasServer, Stops

(* taskFailed, of any tasks that are started: what they held is given back.*)
LEMMA FailsJob ==
  ASSUME JobInv, NEW S \in SUBSET mStartTasks, NEW more, TasksFail(S, more)
  PROVE  JobInv' /\ KnownStays /\ net' \subseteq net \cup Stops(mStartTasks) \cup more
<1>0. /\ mStartTasks \subseteq Task /\ IsFiniteSet(mStartTasks)
      /\ \A t \in Task : t \in mStartTasks <=> status[t] = "eStart"
  BY StartedIsFinite
<1>1. CASE JobFails(S)
  <2>1. /\ UNCHANGED <<status, taskServer, failNum, mStartTasks, mStartedNum, mFinishedNum>>
        /\ UNCHANGED <<mWaitTaskInfoList, mNumActiveTasks, starting>>
        /\ jobStatus' = "eFail" /\ net' = net \cup Stops(mStartTasks)
    BY <1>1 DEF TasksFail, schedVars
  <2>2. JobInv'
    <3>1. JobTypes' /\ StartedHasServer'
      BY <2>1 DEF JobInv, JobTypes, StartedHasServer
    <3>2. SlotsCounted' /\ EachTaskInOnePlace'
      BY <2>1 DEF JobInv, SlotsCounted, EachTaskInOnePlace
    <3> QED BY <3>1, <3>2 DEF JobInv
  <2>3. KnownStays
    BY <2>1 DEF KnownStays, KnownAt, StampOf
  <2> QED BY <2>1, <2>2, <2>3
<1>2. CASE ~JobFails(S)
  <2>1. /\ status' = [t \in Task |-> IF t \in S THEN "eWait" ELSE status[t]]
        /\ failNum' = [t \in Task |-> IF t \in S THEN failNum[t] + 1 ELSE failNum[t]]
        /\ mStartTasks' = mStartTasks \ S
        /\ mStartedNum' = mStartedNum - Cardinality(S)
        /\ mNumActiveTasks' = [p \in Svr |-> Returned(p, S)]
        /\ mWaitTaskInfoList' = [t \in Task |-> mWaitTaskInfoList[t] + IF t \in S THEN 1 ELSE 0]
        /\ net' = net \cup Stops(S) \cup more
        /\ UNCHANGED <<jobStatus, taskServer, mFinishedNum, starting>>
    BY <1>2 DEF TasksFail, Uncounted
  <2>2. \A t \in Task : failNum[t] \in 0..eMaxTaskFailNum /\ (t \in S => failNum[t] + 1 <= eMaxTaskFailNum)
    BY <1>2 DEF JobFails, JobInv, JobTypes
  <2>3. ASSUME NEW p \in Svr
        PROVE  /\ Returned(p, S) \in Nat /\ Returned(p, S) <= mNumSlots
               /\ Returned(p, S) = Cardinality({t \in mStartTasks \ S : taskServer[t] = p})
    <3> DEFINE A == {t \in mStartTasks : taskServer[t] = p}
               B == {t \in S : taskServer[t] = p}
    <3>1. IsFiniteSet(A) /\ B \in SUBSET A
      BY <1>0, FS_Subset
    <3>2. A \ B = {t \in mStartTasks \ S : taskServer[t] = p}
      OBVIOUS
    <3>3. mNumActiveTasks[p] = Cardinality(A) /\ mNumActiveTasks[p] <= mNumSlots
      BY DEF JobInv, SlotsCounted
    <3>4. Returned(p, S) = mNumActiveTasks[p] - Cardinality(B)
      BY DEF Returned
    <3> HIDE DEF A, B
    <3>5. /\ Cardinality(B) \in Nat /\ Cardinality(A) \in Nat /\ Cardinality(B) <= Cardinality(A)
          /\ Cardinality(A \ B) = Cardinality(A) - Cardinality(B)
      BY <3>1, PartCounts
    <3> QED BY <3>2, <3>3, <3>4, <3>5
  <2>4. JobTypes'
    <3>1. status' \in [Task -> {"eWait", "eStart", "eFinish"}]
      BY <2>1 DEF JobInv, JobTypes
    <3>2. failNum' \in [Task -> 0..eMaxTaskFailNum]
      BY <2>1, <2>2
    <3>3. mWaitTaskInfoList' \in [Task -> Nat]
      BY <2>1 DEF JobInv, JobTypes
    <3>4. mNumActiveTasks' \in [Svr -> Nat]
      BY <2>1, <2>3
    <3> QED BY <2>1, <3>1, <3>2, <3>3, <3>4 DEF JobInv, JobTypes
  <2>5. StartedHasServer'
    BY <2>1 DEF JobInv, StartedHasServer
  <2>6. SlotsCounted'
    <3>1. ASSUME NEW p \in Svr
          PROVE  /\ mNumActiveTasks'[p] = Cardinality({t \in mStartTasks' : taskServer'[t] = p})
                 /\ mNumActiveTasks'[p] <= mNumSlots
      BY <2>1, <2>3
    <3> QED BY <3>1 DEF SlotsCounted
  <2>7. EachTaskInOnePlace'
    <3>1. ASSUME NEW t \in Task
          PROVE  mWaitTaskInfoList'[t] = IF status'[t] = "eWait" THEN 1 ELSE 0
      <4>1. mWaitTaskInfoList[t] = IF status[t] = "eWait" THEN 1 ELSE 0
        BY DEF JobInv, EachTaskInOnePlace
      <4>2. CASE t \in S
        BY <1>0, <2>1, <4>1, <4>2
      <4>3. CASE t \notin S
        BY <2>1, <4>1, <4>3
      <4> QED BY <4>2, <4>3
    <3>2. mStartTasks' = {t \in Task : status'[t] = "eStart"}
      BY <1>0, <2>1
    <3>3. {t \in Task : status'[t] = "eFinish"} = {t \in Task : status[t] = "eFinish"}
      BY <1>0, <2>1
    <3>4. mFinishedNum' = Cardinality({t \in Task : status'[t] = "eFinish"})
      BY <2>1, <3>3 DEF JobInv, EachTaskInOnePlace
    <3>5. mStartedNum' = mFinishedNum' + Cardinality(mStartTasks')
      <4>1. /\ Cardinality(S) \in Nat /\ Cardinality(mStartTasks) \in Nat
            /\ Cardinality(mStartTasks \ S) = Cardinality(mStartTasks) - Cardinality(S)
        BY <1>0, PartCounts
      <4>2. mStartedNum = mFinishedNum + Cardinality(mStartTasks) /\ mFinishedNum \in Nat
        BY StartedIsFinite DEF JobInv, EachTaskInOnePlace
      <4> QED BY <2>1, <4>1, <4>2
    <3> QED BY <3>1, <3>2, <3>4, <3>5 DEF EachTaskInOnePlace
  <2>8. KnownStays
    <3> SUFFICES ASSUME NEW t \in Task, NEW s \in Stamp, NEW p \in Svr, KnownAt(t, s, p)
                 PROVE  KnownAt(t, s, p)'
      BY DEF KnownStays
    <3>1. s \in Nat /\ failNum[t] \in Nat
      BY <2>2 DEF Stamp
    <3>2. CASE t \in S
      <4>1. s <= failNum[t] + 1 /\ failNum'[t] = failNum[t] + 1
        BY <2>1, <3>1, <3>2 DEF KnownAt, StampOf
      <4> QED BY <3>1, <4>1 DEF KnownAt, StampOf
    <3>3. CASE t \notin S
      BY <2>1, <3>3 DEF KnownAt, StampOf
    <3> QED BY <3>2, <3>3
  <2>9. net' \subseteq net \cup Stops(mStartTasks) \cup more
    BY <2>1 DEF Stops
  <2> QED BY <2>4, <2>5, <2>6, <2>7, <2>8, <2>9 DEF JobInv
<1> QED BY <1>1, <1>2

(* A result is taken only from the machine that the task runs on, so that  *)
(* the slot is given back to the machine that lent it.                     *)
LEMMA FinishesJob ==
  ASSUME JobInv, QueueInv, NEW e \in mQueue, TaskFinished(e)
  PROVE  JobInv' /\ KnownStays
<1>1. /\ e.type = "eUpdateTask" /\ e \in Event
  BY DEF TaskFinished, QueueInv
<1>2. /\ e.info \in Info /\ e.svr \in Svr /\ IsKnown(e.info, e.svr)
  BY <1>1 DEF Event, QueueInv
<1> DEFINE t == e.info.t
           p == e.svr
<1>3. t \in Task /\ e.info.stamp \in Stamp
  BY <1>2 DEF Info
<1>4. CASE ~IsValid(e.info)
  <2>1. UNCHANGED driverVars
    BY <1>4 DEF TaskFinished
  <2>2. starting' \in Svr \cup {Nil}
    BY <2>1 DEF driverVars, schedVars, JobInv, JobTypes
  <2> QED BY <2>1, <2>2, JobSame DEF driverVars, schedVars
<1>5. CASE IsValid(e.info)
  <2>1. /\ status' = [status EXCEPT ![t] = "eFinish"]
        /\ mFinishedNum' = mFinishedNum + 1
        /\ mStartTasks' = mStartTasks \ {t}
        /\ jobStatus' \in {jobStatus, "eFinish"}
        /\ mNumActiveTasks' = [mNumActiveTasks EXCEPT ![p] = @ - 1]
        /\ starting' = p
        /\ UNCHANGED <<taskServer, failNum, mStartedNum, mWaitTaskInfoList>>
    BY <1>5 DEF TaskFinished
  <2>2. status[t] = "eStart" /\ StampOf(t) = e.info.stamp
    BY <1>5 DEF IsValid
  <2>3. taskServer[t] = p
    BY <1>2, <1>3, <2>2 DEF IsKnown, KnownAt, Stamp
  <2> HIDE DEF t, p
  <2>4. p \in Svr
    BY <1>2 DEF p
  <2>5. /\ mStartTasks \subseteq Task /\ IsFiniteSet(mStartTasks) /\ t \in mStartTasks
        /\ Cardinality(mStartTasks) \in Nat /\ mFinishedNum \in Nat
        /\ \A u \in Task : u \in mStartTasks <=> status[u] = "eStart"
    BY <1>3, <2>2, StartedIsFinite DEF t
  <2>6. ASSUME NEW q \in Svr
        PROVE  /\ mNumActiveTasks'[q] \in Nat /\ mNumActiveTasks'[q] <= mNumSlots
               /\ mNumActiveTasks'[q] = Cardinality({u \in mStartTasks' : taskServer'[u] = q})
    <3> DEFINE A == {u \in mStartTasks : taskServer[u] = q}
               A1 == {u \in mStartTasks' : taskServer'[u] = q}
    <3>1. IsFiniteSet(A)
      BY <2>5, FS_Subset
    <3>2. /\ mNumActiveTasks[q] = Cardinality(A) /\ mNumActiveTasks[q] <= mNumSlots
          /\ mNumActiveTasks \in [Svr -> Nat]
      BY DEF JobInv, JobTypes, SlotsCounted
    <3>3. CASE q = p
      <4>1. A1 = A \ {t} /\ {t} \in SUBSET A
        BY <2>1, <2>3, <2>5, <3>3
      <4>2. mNumActiveTasks'[q] = mNumActiveTasks[q] - 1
        BY <2>1, <3>2, <3>3
      <4> HIDE DEF A, A1
      <4>3. /\ Cardinality({t}) <= Cardinality(A) /\ Cardinality(A) \in Nat
            /\ Cardinality(A \ {t}) = Cardinality(A) - Cardinality({t})
        BY <3>1, <4>1, PartCounts
      <4>4. Cardinality({t}) = 1
        BY FS_Singleton
      <4>5. Cardinality(A1) = Cardinality(A) - 1 /\ Cardinality(A) >= 1
        BY <4>1, <4>3, <4>4
      <4>6. mNumActiveTasks'[q] = Cardinality(A1) /\ Cardinality(A1) \in Nat
        BY <3>2, <4>2, <4>3, <4>5
      <4> QED BY <3>2, <4>2, <4>3, <4>5, <4>6 DEF A1
    <3>4. CASE q # p
      <4>1. A1 = A
        BY <2>1, <2>3, <2>5, <3>4
      <4>2. mNumActiveTasks'[q] = mNumActiveTasks[q]
        BY <2>1, <2>4, <3>2, <3>4
      <4> QED BY <3>2, <4>1, <4>2
    <3> QED BY <3>3, <3>4
  <2>7. JobTypes'
    <3>1. mNumActiveTasks' \in [Svr -> Nat]
      <4>1. mNumActiveTasks' = [q \in Svr |-> mNumActiveTasks'[q]]
        BY <2>1 DEF JobInv, JobTypes
      <4> QED BY <2>6, <4>1
    <3>2. status' \in [Task -> {"eWait", "eStart", "eFinish"}]
      BY <2>1 DEF JobInv, JobTypes
    <3> QED BY <2>1, <2>4, <3>1, <3>2 DEF JobInv, JobTypes
  <2>8. StartedHasServer'
    BY <2>1, <2>5 DEF JobInv, JobTypes, StartedHasServer
  <2>9. SlotsCounted'
    BY <2>6 DEF SlotsCounted
  <2>10. EachTaskInOnePlace'
    <3>1. ASSUME NEW u \in Task
          PROVE  mWaitTaskInfoList'[u] = IF status'[u] = "eWait" THEN 1 ELSE 0
      BY <1>3, <2>1, <2>2 DEF JobInv, JobTypes, EachTaskInOnePlace, t
    <3>2. mStartTasks' = {u \in Task : status'[u] = "eStart"}
      BY <2>1, <2>5 DEF JobInv, JobTypes
    <3> DEFINE F == {u \in Task : status[u] = "eFinish"}
               F1 == {u \in Task : status'[u] = "eFinish"}
    <3>3. F1 = F \cup {t} /\ t \notin F
      BY <2>1, <2>2, <2>5 DEF JobInv, JobTypes
    <3>4. IsFiniteSet(F) /\ mFinishedNum = Cardinality(F)
      BY FS_Subset DEF JobInv, EachTaskInOnePlace
    <3> HIDE DEF F, F1
    <3>5. Cardinality(F \cup {t}) = IF t \in F THEN Cardinality(F) ELSE Cardinality(F) + 1
      BY <3>4, FS_AddElement
    <3>6. mFinishedNum' = Cardinality(F1)
      BY <2>1, <3>3, <3>4, <3>5
    <3>7. mStartedNum' = mFinishedNum' + Cardinality(mStartTasks')
      <4>1. Cardinality(mStartTasks') = Cardinality(mStartTasks) - 1
        BY <2>1, <2>5, FS_RemoveElement
      <4>2. mStartedNum = mFinishedNum + Cardinality(mStartTasks)
        BY DEF JobInv, EachTaskInOnePlace
      <4> QED BY <2>1, <2>5, <4>1, <4>2
    <3> QED BY <3>1, <3>2, <3>6, <3>7 DEF EachTaskInOnePlace, F1
  <2>11. KnownStays
    BY <2>1, <2>2 DEF KnownStays, KnownAt, StampOf, JobInv, JobTypes
  <2> QED BY <2>7, <2>8, <2>9, <2>10, <2>11 DEF JobInv
<1> QED BY <1>4, <1>5

(* A task is started when it waits: what is known of it is of earlier runs.*)
LEMMA StartsJob ==
  ASSUME JobInv, NEW t \in Task, StartTask(t)
  PROVE  /\ JobInv' /\ KnownStays /\ starting \in Svr /\ StampOf(t) \in Stamp
         /\ KnownAt(t, StampOf(t), starting)'
<1> DEFINE p == starting
<1>1. /\ mWaitTaskInfoList[t] > 0 /\ mNumActiveTasks[p] < mNumSlots /\ p # Nil
      /\ mWaitTaskInfoList' = [mWaitTaskInfoList EXCEPT ![t] = @ - 1]
      /\ mNumActiveTasks' = [mNumActiveTasks EXCEPT ![p] = @ + 1]
      /\ status' = [status EXCEPT ![t] = "eStart"]
      /\ taskServer' = [taskServer EXCEPT ![t] = p]
      /\ mStartTasks' = mStartTasks \cup {t}
      /\ mStartedNum' = mStartedNum + 1
      /\ UNCHANGED <<jobStatus, failNum, mFinishedNum, starting>>
  BY DEF StartTask, Waiting, HasSlot
<1>2. p \in Svr
  BY <1>1 DEF JobInv, JobTypes
<1>3. /\ mStartTasks \subseteq Task /\ IsFiniteSet(mStartTasks)
      /\ Cardinality(mStartTasks) \in Nat /\ mFinishedNum \in Nat
      /\ \A u \in Task : u \in mStartTasks <=> status[u] = "eStart"
  BY StartedIsFinite
<1>4. status[t] = "eWait" /\ mWaitTaskInfoList[t] = 1
  <2>1. mWaitTaskInfoList[t] = IF status[t] = "eWait" THEN 1 ELSE 0
    BY DEF JobInv, EachTaskInOnePlace
  <2> QED BY <1>1, <2>1
<1>5. t \notin mStartTasks
  BY <1>3, <1>4
<1> HIDE DEF p
<1>6. ASSUME NEW q \in Svr
      PROVE  /\ mNumActiveTasks'[q] \in Nat /\ mNumActiveTasks'[q] <= mNumSlots
             /\ mNumActiveTasks'[q] = Cardinality({u \in mStartTasks' : taskServer'[u] = q})
  <2> DEFINE A == {u \in mStartTasks : taskServer[u] = q}
             A1 == {u \in mStartTasks' : taskServer'[u] = q}
  <2>1. IsFiniteSet(A) /\ t \notin A
    BY <1>3, <1>5, FS_Subset
  <2>2. /\ mNumActiveTasks[q] = Cardinality(A) /\ mNumActiveTasks[q] <= mNumSlots
        /\ mNumActiveTasks \in [Svr -> Nat] /\ taskServer \in [Task -> Svr \cup {Nil}]
    BY DEF JobInv, JobTypes, SlotsCounted
  <2>3. CASE q = p
    <3>1. A1 = A \cup {t}
      BY <1>1, <1>3, <1>5, <2>2, <2>3
    <3>2. mNumActiveTasks'[q] = mNumActiveTasks[q] + 1 /\ mNumActiveTasks[q] \in Nat
      BY <1>1, <2>2, <2>3
    <3> HIDE DEF A, A1
    <3>3. Cardinality(A \cup {t}) = IF t \in A THEN Cardinality(A) ELSE Cardinality(A) + 1
      BY <2>1, FS_AddElement
    <3>4. mNumActiveTasks'[q] = Cardinality(A1)
      BY <2>1, <2>2, <3>1, <3>2, <3>3
    <3>5. mNumActiveTasks[q] < mNumSlots
      BY <1>1, <2>3
    <3> QED BY <3>2, <3>4, <3>5 DEF A1
  <2>4. CASE q # p
    <3>1. A1 = A
      BY <1>1, <1>3, <1>5, <2>2, <2>4
    <3>2. mNumActiveTasks'[q] = mNumActiveTasks[q] /\ mNumActiveTasks[q] \in Nat
      BY <1>1, <2>2, <2>4
    <3> QED BY <2>2, <3>1, <3>2
  <2> QED BY <2>3, <2>4
<1>7. JobTypes'
  <2>1. mNumActiveTasks' \in [Svr -> Nat]
    <3>1. mNumActiveTasks' = [q \in Svr |-> mNumActiveTasks'[q]]
      BY <1>1 DEF JobInv, JobTypes
    <3> QED BY <1>6, <3>1
  <2>2. /\ status' \in [Task -> {"eWait", "eStart", "eFinish"}]
        /\ taskServer' \in [Task -> Svr \cup {Nil}]
    BY <1>1, <1>2 DEF JobInv, JobTypes
  <2>3. mWaitTaskInfoList' \in [Task -> Nat]
    BY <1>1, <1>4 DEF JobInv, JobTypes
  <2> QED BY <1>1, <1>2, <2>1, <2>2, <2>3 DEF JobInv, JobTypes
<1>8. StartedHasServer'
  BY <1>1, <1>2 DEF JobInv, JobTypes, StartedHasServer
<1>9. SlotsCounted'
  BY <1>6 DEF SlotsCounted
<1>10. EachTaskInOnePlace'
  <2>1. ASSUME NEW u \in Task
        PROVE  mWaitTaskInfoList'[u] = IF status'[u] = "eWait" THEN 1 ELSE 0
    BY <1>1, <1>4 DEF JobInv, JobTypes, EachTaskInOnePlace
  <2>2. mStartTasks' = {u \in Task : status'[u] = "eStart"}
    BY <1>1, <1>3 DEF JobInv, JobTypes
  <2>3. {u \in Task : status'[u] = "eFinish"} = {u \in Task : status[u] = "eFinish"}
    BY <1>1, <1>4 DEF JobInv, JobTypes
  <2>4. mFinishedNum' = Cardinality({u \in Task : status'[u] = "eFinish"})
    BY <1>1, <2>3 DEF JobInv, EachTaskInOnePlace
  <2>5. mStartedNum' = mFinishedNum' + Cardinality(mStartTasks')
    <3>1. Cardinality(mStartTasks') = Cardinality(mStartTasks) + 1
      BY <1>1, <1>3, <1>5, FS_AddElement
    <3>2. mStartedNum = mFinishedNum + Cardinality(mStartTasks)
      BY DEF JobInv, EachTaskInOnePlace
    <3> QED BY <1>1, <1>3, <3>1, <3>2
  <2> QED BY <2>1, <2>2, <2>4, <2>5 DEF EachTaskInOnePlace
<1>11. KnownStays
  <2> SUFFICES ASSUME NEW u \in Task, NEW s \in Stamp, NEW q \in Svr, KnownAt(u, s, q)
               PROVE  KnownAt(u, s, q)'
    BY DEF KnownStays
  <2>1. CASE u = t
    BY <1>1, <1>4, <2>1 DEF KnownAt, StampOf
  <2>2. CASE u # t
    BY <1>1, <2>2 DEF KnownAt, StampOf
  <2> QED BY <2>1, <2>2
<1>12. StampOf(t) \in Stamp
  <2>1. failNum[t] \in 0..eMaxTaskFailNum
    BY DEF JobInv, JobTypes
  <2> QED BY <2>1 DEF StampOf, Stamp
<1>13. KnownAt(t, StampOf(t), starting)'
  <2>1. status'[t] = "eStart" /\ taskServer'[t] = starting' /\ StampOf(t)' = StampOf(t)
    BY <1>1 DEF JobInv, JobTypes, StampOf, p
  <2> QED BY <2>1 DEF KnownAt
<1> QED BY <1>2, <1>7, <1>8, <1>9, <1>10, <1>11, <1>12, <1>13 DEF JobInv, p

-------------------------------------------------------------------------------
(***************************************************************************)
(* The machines and the messages, whatever the driver does.                *)
(***************************************************************************)
LEMMA DriverSame ==
  ASSUME IInv, UNCHANGED driverVars
  PROVE  JobInv' /\ KnownStays
<1>1. starting' \in Svr \cup {Nil}
  BY DEF driverVars, schedVars, IInv, JobInv, JobTypes
<1> QED BY <1>1, JobSame DEF driverVars, schedVars, IInv

LEMMA KnownGrows ==
  ASSUME KnownStays, NEW p \in Svr
  PROVE  Known(p) \subseteq Known(p)'
<1>1. ASSUME NEW r \in Run, IsKnown(r, p) PROVE IsKnown(r, p)'
  <2>1. r.t \in Task /\ r.stamp \in Stamp
    BY DEF Run
  <2> QED BY <1>1, <2>1 DEF KnownStays, IsKnown
<1> QED BY <1>1 DEF Known

LEMMA WaitsSet ==
  ASSUME WaitInv, KnownStays, NEW p \in Svr, NEW s \in Seq(Known(p)'),
         mWaitTasks' = [mWaitTasks EXCEPT ![p] = s]
  PROVE  WaitInv'
<1>1. ASSUME NEW q \in Svr PROVE mWaitTasks'[q] \in Seq(Known(q)')
  <2>1. CASE q = p
    BY <2>1 DEF WaitInv
  <2>2. CASE q # p
    <3>1. mWaitTasks'[q] = mWaitTasks[q] /\ mWaitTasks[q] \in Seq(Known(q))
      BY <2>2 DEF WaitInv
    <3>2. Known(q) \subseteq Known(q)'
      BY KnownGrows
    <3> QED BY <3>1, <3>2, SeqMonotonic
  <2> QED BY <2>1, <2>2
<1>2. s \in Seq(Run)
  <2>1. Known(p)' \subseteq Run
    BY DEF Known
  <2> QED BY <2>1, SeqMonotonic
<1>3. mWaitTasks' \in [Svr -> Seq(Run)]
  BY <1>2 DEF WaitInv
<1> QED BY <1>1, <1>3 DEF WaitInv, Known

LEMMA WaitsSame ==
  ASSUME WaitInv, KnownStays, UNCHANGED mWaitTasks
  PROVE  WaitInv'
<1>1. ASSUME NEW q \in Svr PROVE mWaitTasks'[q] \in Seq(Known(q)')
  <2>1. mWaitTasks'[q] = mWaitTasks[q] /\ mWaitTasks[q] \in Seq(Known(q))
    BY DEF WaitInv
  <2>2. Known(q) \subseteq Known(q)'
    BY KnownGrows
  <2> QED BY <2>1, <2>2, SeqMonotonic
<1> QED BY <1>1 DEF WaitInv, Known

LEMMA RunsSet ==
  ASSUME RunInv, KnownStays, NEW p \in Svr, NEW R \in SUBSET Info,
         \A i \in R : IsKnown(i, p), mRunTasks' = [mRunTasks EXCEPT ![p] = R]
  PROVE  RunInv'
<1>1. mRunTasks' \in [Svr -> SUBSET Info]
  BY DEF RunInv
<1>2. ASSUME NEW q \in Svr, NEW i \in mRunTasks'[q] PROVE IsKnown(i, q)'
  <2>1. i \in Info /\ IsKnown(i, q)
    BY <1>1 DEF RunInv
  <2>2. i.t \in Task /\ i.stamp \in Stamp
    BY <2>1 DEF Info
  <2> QED BY <2>1, <2>2 DEF KnownStays, IsKnown
<1> QED BY <1>1, <1>2 DEF RunInv

LEMMA RunsSame ==
  ASSUME RunInv, KnownStays, UNCHANGED mRunTasks
  PROVE  RunInv'
<1>1. ASSUME NEW q \in Svr, NEW i \in mRunTasks'[q] PROVE IsKnown(i, q)'
  <2>1. i \in Info /\ IsKnown(i, q)
    BY DEF RunInv
  <2>2. i.t \in Task /\ i.stamp \in Stamp
    BY <2>1 DEF Info
  <2> QED BY <2>1, <2>2 DEF KnownStays, IsKnown
<1> QED BY <1>1 DEF RunInv

LEMMA NetGrows ==
  ASSUME NetInv, KnownStays, NEW N \in SUBSET Message, net' \subseteq net \cup N,
         \A m \in N : m.type = "schedule" => IsKnown(m, m.svr)'
  PROVE  NetInv'
<1>1. net' \subseteq Message
  BY DEF NetInv
<1>2. ASSUME NEW m \in net', m.type = "schedule" PROVE IsKnown(m, m.svr)'
  <2>1. CASE m \in N
    BY <1>2, <2>1
  <2>2. CASE m \in net
    <3>1. m.t \in Task /\ m.stamp \in Stamp /\ m.svr \in Svr
      BY <1>2, <2>2 DEF NetInv, Message
    <3>2. KnownAt(m.t, m.stamp, m.svr)
      BY <1>2, <2>2 DEF NetInv, IsKnown
    <3>3. KnownAt(m.t, m.stamp, m.svr)'
      BY <3>1, <3>2 DEF KnownStays
    <3> QED BY <3>3 DEF IsKnown
  <2> QED BY <2>1, <2>2
<1> QED BY <1>1, <1>2 DEF NetInv

LEMMA NetShrinks ==
  ASSUME NetInv, KnownStays, net' \subseteq net
  PROVE  NetInv'
<1>1. {} \in SUBSET Message /\ net' \subseteq net \cup {}
  OBVIOUS
<1> QED BY <1>1, NetGrows

LEMMA QueueGrows ==
  ASSUME QueueInv, KnownStays, NEW N \in SUBSET Event, mQueue' \subseteq mQueue \cup N,
         \A e \in N : e.type = "eUpdateTask" => IsKnown(e.info, e.svr)'
  PROVE  QueueInv'
<1>1. mQueue' \subseteq Event
  BY DEF QueueInv
<1>2. ASSUME NEW e \in mQueue', e.type = "eUpdateTask" PROVE IsKnown(e.info, e.svr)'
  <2>1. CASE e \in N
    BY <1>2, <2>1
  <2>2. CASE e \in mQueue
    <3>1. e.info \in Info /\ e.svr \in Svr
      BY <1>2, <2>2 DEF QueueInv, Event
    <3>2. e.info.t \in Task /\ e.info.stamp \in Stamp
      BY <3>1 DEF Info
    <3>3. KnownAt(e.info.t, e.info.stamp, e.svr)
      BY <1>2, <2>2 DEF QueueInv, IsKnown
    <3>4. KnownAt(e.info.t, e.info.stamp, e.svr)'
      BY <3>1, <3>2, <3>3 DEF KnownStays
    <3> QED BY <3>4 DEF IsKnown
  <2> QED BY <2>1, <2>2
<1> QED BY <1>1, <1>2 DEF QueueInv

LEMMA QueueShrinks ==
  ASSUME QueueInv, KnownStays, mQueue' \subseteq mQueue
  PROVE  QueueInv'
<1>1. {} \in SUBSET Event /\ mQueue' \subseteq mQueue \cup {}
  OBVIOUS
<1> QED BY <1>1, QueueGrows

-------------------------------------------------------------------------------
(***************************************************************************)
(* The steps.                                                              *)
(***************************************************************************)
LEMMA InitInv == Init => IInv
<1> SUFFICES ASSUME Init PROVE IInv
  OBVIOUS
<1>1. {t \in Task : status[t] = "eFinish"} = {} /\ {t \in Task : status[t] = "eStart"} = {}
  BY DEF Init
<1>2. \A p \in Svr : {t \in mStartTasks : taskServer[t] = p} = {}
  BY DEF Init
<1>3. Cardinality({}) = 0
  BY FS_EmptySet
<1>4. JobTypes /\ StartedHasServer
  BY DEF Init, JobTypes, StartedHasServer
<1>5. SlotsCounted
  BY <1>2, <1>3 DEF Init, SlotsCounted
<1>6. EachTaskInOnePlace
  <2>1. \A t \in Task : mWaitTaskInfoList[t] = IF status[t] = "eWait" THEN 1 ELSE 0
    BY DEF Init
  <2>2. mStartTasks = {} /\ mStartedNum = 0 /\ mFinishedNum = 0
    BY DEF Init
  <2> QED BY <1>1, <1>3, <2>1, <2>2 DEF EachTaskInOnePlace
<1>7. WaitInv
  BY DEF Init, WaitInv
<1>8. RunInv /\ NetInv /\ QueueInv
  BY DEF Init, RunInv, NetInv, QueueInv
<1>9. SvrTypes
  BY DEF Init, SvrTypes
<1> QED BY <1>4, <1>5, <1>6, <1>7, <1>8, <1>9 DEF IInv, JobInv

(* A step of the driver changes nothing of the machines; what it sends, N, *)
(* is about runs that are known then.                                      *)
LEMMA DriverKeeps ==
  ASSUME IInv, JobInv', KnownStays, UNCHANGED <<mProcStatus, mgrVars, down, deaths>>,
         mQueue' \subseteq mQueue, NEW N \in SUBSET Message, net' \subseteq net \cup N,
         \A m \in N : m.type = "schedule" => IsKnown(m, m.svr)'
  PROVE  IInv'
<1>1. WaitInv'
  BY WaitsSame DEF IInv, mgrVars
<1>2. RunInv'
  BY RunsSame DEF IInv, mgrVars
<1>3. NetInv'
  BY NetGrows DEF IInv
<1>4. QueueInv'
  BY QueueShrinks DEF IInv
<1>5. SvrTypes'
  BY DEF IInv, SvrTypes, mgrVars
<1> QED BY <1>1, <1>2, <1>3, <1>4, <1>5 DEF IInv

LEMMA FailsKeeps ==
  ASSUME IInv, NEW S \in SUBSET mStartTasks, NEW more \in SUBSET Gets(Svr), TasksFail(S, more),
         UNCHANGED <<mProcStatus, mgrVars, down, deaths>>, mQueue' \subseteq mQueue
  PROVE  IInv'
<1> DEFINE N == [type : {"stop"}, svr : Svr, t : Task] \cup [type : {"getInfos"}, svr : Svr]
<1>1. JobInv' /\ KnownStays /\ net' \subseteq net \cup Stops(mStartTasks) \cup more
  BY FailsJob DEF IInv
<1>2. Stops(mStartTasks) \subseteq [type : {"stop"}, svr : Svr, t : Task]
  BY StopsTyped DEF IInv
<1>3. more \subseteq [type : {"getInfos"}, svr : Svr]
  BY DEF Gets
<1>4. N \subseteq Message
  BY DEF Message
<1>5. \A m \in N : m.type # "schedule"
  OBVIOUS
<1>6. net' \subseteq net \cup N
  BY <1>1, <1>2, <1>3
<1> HIDE DEF N
<1> QED BY <1>1, <1>4, <1>5, <1>6, DriverKeeps

LEMMA HeartbeatInv ==
  ASSUME IInv, NEW old \in SUBSET mStartTasks, Heartbeat(old)
  PROVE  IInv'
<1>1. /\ TasksFail(old, Gets(Svr)) /\ mQueue' \subseteq mQueue
      /\ UNCHANGED <<mProcStatus, mgrVars, down, deaths>>
  BY DEF Heartbeat
<1> QED BY <1>1, FailsKeeps

LEMMA HandleEventInv ==
  ASSUME IInv, NEW e \in mQueue, HandleEvent(e)
  PROVE  IInv'
<1>1. /\ UNCHANGED <<mProcStatus, mgrVars, down, deaths>> /\ mQueue' \subseteq mQueue
      /\ e \in Event /\ JobInv /\ QueueInv
  BY DEF HandleEvent, Took, IInv, QueueInv
<1>2. ASSUME JobInv', KnownStays, UNCHANGED net PROVE IInv'
  <2>1. {} \in SUBSET Message /\ net' \subseteq net \cup {}
    BY <1>2
  <2> QED BY <1>1, <1>2, <2>1, DriverKeeps
<1>3. CASE ScheduleNextTask(e)
  <2>1. /\ UNCHANGED <<jobVars, mWaitTaskInfoList, mNumActiveTasks>> /\ UNCHANGED net
        /\ starting' = e.svr
    BY <1>3 DEF ScheduleNextTask
  <2>2. e.svr \in Svr
    BY <1>1 DEF Event
  <2>3. JobInv' /\ KnownStays
    BY <1>1, <2>1, <2>2, JobSame
  <2> QED BY <1>2, <2>1, <2>3
<1>4. CASE SvrDeath(e)
  <2>1. TasksFail({t \in mStartTasks : taskServer[t] = e.svr}, {})
    BY <1>4 DEF SvrDeath
  <2> QED BY <1>1, <2>1, FailsKeeps
<1>5. CASE TaskFailed(e)
  <2>1. CASE IsValid(e.info)
    <3>1. TasksFail({e.info.t}, {}) /\ e.type = "eUpdateTask" /\ status[e.info.t] = "eStart"
      BY <1>5, <2>1 DEF TaskFailed, IsValid
    <3>2. e.info.t \in Task
      BY <1>1, <3>1 DEF Event, Info
    <3>3. {e.info.t} \in SUBSET mStartTasks
      BY <1>1, <3>1, <3>2, StartedIsFinite
    <3> QED BY <1>1, <3>1, <3>3, FailsKeeps
  <2>2. CASE ~IsValid(e.info)
    <3>1. UNCHANGED <<driverVars, net>>
      BY <1>5, <2>2 DEF TaskFailed
    <3> QED BY <1>2, <3>1, DriverSame
  <2> QED BY <2>1, <2>2
<1>6. CASE TaskFinished(e)
  <2>1. UNCHANGED net
    BY <1>6 DEF TaskFinished
  <2> QED BY <1>1, <1>2, <1>6, <2>1, FinishesJob
<1> QED BY <1>3, <1>4, <1>5, <1>6 DEF HandleEvent

LEMMA StartTaskInv ==
  ASSUME IInv, NEW t \in Task, StartTask(t)
  PROVE  IInv'
<1>1. /\ JobInv' /\ KnownStays /\ starting \in Svr /\ StampOf(t) \in Stamp
      /\ KnownAt(t, StampOf(t), starting)'
  BY StartsJob DEF IInv
<1>2. PICK p \in Svr, s \in Stamp : p = starting /\ s = StampOf(t)
  BY <1>1
<1>3. starting' = starting /\ StampOf(t)' = StampOf(t)
  BY DEF StartTask, StampOf
<1>4. KnownAt(t, s, p)'
  BY <1>1, <1>2, <1>3
<1> DEFINE m0 == [type |-> "schedule", svr |-> p, t |-> t, stamp |-> s]
<1>5. /\ net' = net \cup {m0} /\ mQueue' \subseteq mQueue
      /\ UNCHANGED <<mProcStatus, mgrVars, down, deaths>>
  BY <1>2 DEF StartTask
<1>6. {m0} \in SUBSET Message /\ net' \subseteq net \cup {m0}
  BY <1>5 DEF Message
<1>7. \A m \in {m0} : m.type = "schedule" => IsKnown(m, m.svr)'
  BY <1>4 DEF IsKnown
<1> HIDE DEF m0
<1> QED BY <1>1, <1>5, <1>6, <1>7, DriverKeeps

LEMMA StartTasksEndInv ==
  ASSUME IInv, StartTasksEnd
  PROVE  IInv'
<1>1. /\ UNCHANGED <<jobVars, mWaitTaskInfoList, mNumActiveTasks>> /\ starting' \in Svr \cup {Nil}
      /\ UNCHANGED <<mProcStatus, mgrVars, down, deaths>> /\ mQueue' \subseteq mQueue
      /\ {} \in SUBSET Message /\ net' \subseteq net \cup {}
  BY DEF StartTasksEnd
<1>2. JobInv' /\ KnownStays
  BY <1>1, JobSame DEF IInv
<1> QED BY <1>1, <1>2, DriverKeeps

(* A step of a machine, or of a message, changes nothing of the driver.    *)
LEMMA MgrKeeps ==
  ASSUME IInv, UNCHANGED driverVars, WaitInv', RunInv', NetInv', QueueInv', SvrTypes'
  PROVE  IInv'
BY DriverSame DEF IInv

LEMMA StartFirstInv ==
  ASSUME IInv, NEW p \in Svr, StartFirst(p)
  PROVE  IInv'
<1>1. /\ mWaitTasks[p] # <<>> /\ mWaitTasks[p] \in Seq(Known(p))
      /\ UNCHANGED <<driverVars, mProcStatus, mQueue, locked, net, down, deaths>>
      /\ mWaitTasks' = [mWaitTasks EXCEPT ![p] = Tail(@)]
      /\ mWaitTasks \in [Svr -> Seq(Run)] /\ mRunTasks \in [Svr -> SUBSET Info]
      /\ \A i \in mRunTasks[p] : IsKnown(i, p)
  BY DEF StartFirst, IInv, WaitInv, RunInv
<1>2. KnownStays /\ Known(p)' = Known(p)
  <2>1. UNCHANGED <<status, taskServer, failNum>>
    BY <1>1 DEF driverVars, jobVars
  <2> QED BY <1>1, <2>1, DriverSame DEF Known, IsKnown, KnownAt, StampOf
<1>3. Head(mWaitTasks[p]) \in Known(p) /\ Tail(mWaitTasks[p]) \in Seq(Known(p))
  BY <1>1, HeadTailProperties
<1>4. PICK r \in Known(p) : r = Head(mWaitTasks[p])
  BY <1>3
<1>5. r \in Run /\ IsKnown(r, p)
  BY DEF Known
<1> DEFINE new == [t |-> r.t, stamp |-> r.stamp, status |-> "eStart"]
           R == {i \in mRunTasks[p] : i.t # r.t} \cup {new}
<1>6. /\ mRunTasks' = [mRunTasks EXCEPT ![p] = R]
      /\ running' = [running EXCEPT ![p] = @ \cup {r}]
  BY <1>1, <1>4 DEF StartFirst
<1>7. new \in Info /\ IsKnown(new, p)
  BY <1>5 DEF Run, Info, IsKnown
<1>8. R \in SUBSET Info /\ \A i \in R : IsKnown(i, p)
  BY <1>1, <1>7
<1>9. WaitInv'
  <2>1. Tail(mWaitTasks[p]) \in Seq(Known(p)')
    BY <1>2, <1>3
  <2>2. PICK s \in Seq(Known(p)') : s = Tail(mWaitTasks[p])
    BY <2>1
  <2>3. mWaitTasks' = [mWaitTasks EXCEPT ![p] = s]
    BY <1>1, <2>2
  <2> QED BY <1>2, <2>3, WaitsSet DEF IInv
<1> HIDE DEF R, new
<1>10. RunInv'
  BY <1>2, <1>6, <1>8, RunsSet DEF IInv
<1>11. NetInv' /\ QueueInv'
  BY <1>1, <1>2, NetShrinks, QueueShrinks DEF IInv
<1>12. SvrTypes'
  BY <1>1, <1>5, <1>6 DEF IInv, SvrTypes
<1> QED BY <1>1, <1>9, <1>10, <1>11, <1>12, MgrKeeps

(* A process that ends changes what is said of runs, not which they are.   *)
LEMMA RunEndsInv ==
  ASSUME IInv, NEW p \in Svr, NEW r \in running[p], NEW meant, NEW s \in {"eFinish", "eFail"},
         RunEnds(p, r, meant, s)
  PROVE  IInv'
<1> DEFINE R == {IF i \in meant THEN [i EXCEPT !.status = s] ELSE i : i \in mRunTasks[p]}
<1>1. /\ UNCHANGED <<driverVars, mProcStatus, mQueue, mWaitTasks, locked, net, down, deaths>>
      /\ mRunTasks' = [mRunTasks EXCEPT ![p] = R]
      /\ running' = [running EXCEPT ![p] = @ \ {r}]
  BY DEF RunEnds, UpdateStatus
<1>2. \A i \in mRunTasks[p] : i \in Info /\ IsKnown(i, p)
  BY DEF IInv, RunInv
<1>3. KnownStays
  BY <1>1, DriverSame
<1>4. ASSUME NEW i \in mRunTasks[p]
      PROVE  [i EXCEPT !.status = s] \in Info /\ IsKnown([i EXCEPT !.status = s], p)
  <2>1. i \in Info /\ IsKnown(i, p)
    BY <1>2
  <2>2. [i EXCEPT !.status = s] \in Info
    BY <2>1 DEF Info
  <2>3. [i EXCEPT !.status = s].t = i.t /\ [i EXCEPT !.status = s].stamp = i.stamp
    BY <2>1 DEF Info
  <2> QED BY <2>1, <2>2, <2>3 DEF IsKnown
<1>5. R \in SUBSET Info /\ \A i \in R : IsKnown(i, p)
  BY <1>2, <1>4
<1> HIDE DEF R
<1>6. RunInv'
  BY <1>1, <1>3, <1>5, RunsSet DEF IInv
<1>7. WaitInv' /\ NetInv' /\ QueueInv'
  BY <1>1, <1>3, WaitsSame, NetShrinks, QueueShrinks DEF IInv
<1>8. SvrTypes'
  BY <1>1 DEF IInv, SvrTypes
<1> QED BY <1>1, <1>6, <1>7, <1>8, MgrKeeps

LEMMA RunGoesOnInv ==
  ASSUME IInv, NEW p \in Svr, NEW r \in running[p], RunGoesOn(p, r)
  PROVE  IInv'
<1>1. CASE RunFinishes(p, r)
  BY <1>1, RunEndsInv DEF RunFinishes, RunReports
<1>2. CASE RunFails(p, r)
  BY <1>2, RunEndsInv DEF RunFails, RunReports
<1>3. CASE RunDies(p, r)
  BY <1>3, RunEndsInv DEF RunDies
<1> QED BY <1>1, <1>2, <1>3 DEF RunGoesOn

LEMMA RemovesOne ==
  ASSUME NEW S, NEW s \in Seq(S), NEW i \in 1..Len(s)
  PROVE  RemoveAt(s, i) \in Seq(S)
<1>1. Len(s) \in Nat /\ \A j \in 1..Len(s) : s[j] \in S
  BY LenProperties
<1>2. SubSeq(s, 1, i - 1) \in Seq(S)
  <2>1. \A j \in 1..i - 1 : s[j] \in S
    BY <1>1
  <2>2. i - 1 \in Int
    BY <1>1
  <2> QED BY <2>1, <2>2, SubSeqProperties
<1>3. SubSeq(s, i + 1, Len(s)) \in Seq(S)
  <2>1. \A j \in i + 1..Len(s) : s[j] \in S
    BY <1>1
  <2>2. i + 1 \in Int /\ Len(s) \in Int
    BY <1>1
  <2> QED BY <2>1, <2>2, SubSeqProperties
<1> QED BY <1>2, <1>3, ConcatProperties DEF RemoveAt

(* What a machine's handler finds of the rest, whatever the message.       *)
LEMMA ReceivedFacts ==
  ASSUME IInv, NEW m \in net, Received(m), UNCHANGED driverVars
  PROVE  /\ KnownStays /\ NetInv' /\ m \in Message /\ m.svr \in Svr
         /\ \A p \in Svr : Known(p)' = Known(p)
<1>1. KnownStays
  BY DriverSame
<1>2. NetInv'
  BY <1>1, NetShrinks DEF IInv, Received
<1>3. m \in Message /\ m.svr \in Svr
  BY DEF IInv, NetInv, Message
<1>4. UNCHANGED <<status, taskServer, failNum>>
  BY DEF driverVars, jobVars
<1>5. \A p \in Svr : Known(p)' = Known(p)
  BY <1>4 DEF Known, IsKnown, KnownAt, StampOf
<1> QED BY <1>1, <1>2, <1>3, <1>5

LEMMA AddTaskInv ==
  ASSUME IInv, NEW m \in net, AddTaskLocal(m), UNCHANGED <<down, deaths>>
  PROVE  IInv'
<1>1. /\ m.type = "schedule" /\ Received(m)
      /\ UNCHANGED <<driverVars, mProcStatus, mQueue, mRunTasks, locked, running>>
  BY DEF AddTaskLocal
<1>2. /\ KnownStays /\ NetInv' /\ m \in Message /\ m.svr \in Svr
      /\ \A p \in Svr : Known(p)' = Known(p)
  BY <1>1, ReceivedFacts
<1> DEFINE r == [t |-> m.t, stamp |-> m.stamp]
           p == m.svr
<1>3. r \in Run /\ p \in Svr
  BY <1>1, <1>2 DEF Message, Run
<1>4. IsKnown(r, p)
  <2>1. IsKnown(m, m.svr)
    BY <1>1 DEF IInv, NetInv
  <2> QED BY <2>1 DEF IsKnown
<1>5. r \in Known(p)
  BY <1>3, <1>4 DEF Known
<1>6. /\ mWaitTasks[p] \in Seq(Known(p)) /\ mWaitTasks \in [Svr -> Seq(Run)]
  BY <1>3 DEF IInv, WaitInv
<1>7. Append(mWaitTasks[p], r) \in Seq(Known(p))
  BY <1>5, <1>6, AppendProperties
<1>8. WaitInv'
  <2>1. CASE IsFindWaitTask(p, m.t)
    <3>1. UNCHANGED mWaitTasks
      BY <2>1 DEF AddTaskLocal
    <3> QED BY <1>2, <3>1, WaitsSame DEF IInv
  <2>2. CASE ~IsFindWaitTask(p, m.t)
    <3>1. mWaitTasks' = [mWaitTasks EXCEPT ![p] = Append(mWaitTasks[p], r)]
      BY <2>2 DEF AddTaskLocal
    <3>2. Append(mWaitTasks[p], r) \in Seq(Known(p)')
      BY <1>2, <1>3, <1>7
    <3> HIDE DEF r, p
    <3>3. PICK s \in Seq(Known(p)') : s = Append(mWaitTasks[p], r)
      BY <3>2
    <3>4. mWaitTasks' = [mWaitTasks EXCEPT ![p] = s]
      BY <3>1, <3>3
    <3> QED BY <1>2, <1>3, <3>4, WaitsSet DEF IInv
  <2> QED BY <2>1, <2>2
<1>9. RunInv' /\ QueueInv' /\ SvrTypes'
  BY <1>1, <1>2, RunsSame, QueueShrinks DEF IInv, SvrTypes
<1> QED BY <1>1, <1>2, <1>8, <1>9, MgrKeeps

LEMMA StopTaskInv ==
  ASSUME IInv, NEW m \in net, StopTask(m), UNCHANGED <<down, deaths>>
  PROVE  IInv'
<1>1. /\ Received(m)
      /\ UNCHANGED <<driverVars, mProcStatus, mQueue, locked, running>>
  BY DEF StopTask
<1>2. /\ KnownStays /\ NetInv' /\ m.svr \in Svr
      /\ \A p \in Svr : Known(p)' = Known(p)
  BY <1>1, ReceivedFacts
<1>3. PICK p \in Svr : p = m.svr
  BY <1>2
<1>4. QueueInv' /\ SvrTypes'
  BY <1>1, <1>2, QueueShrinks DEF IInv, SvrTypes
<1>5. WaitInv' /\ RunInv'
  <2>1. CASE IsFindWaitTask(p, m.t)
    <3>1. RemoveWaitTask(p, m.t) /\ UNCHANGED mRunTasks
      BY <1>3, <2>1 DEF StopTask
    <3>2. PICK i \in DOMAIN mWaitTasks[p] :
            mWaitTasks' = [mWaitTasks EXCEPT ![p] = RemoveAt(mWaitTasks[p], i)]
      BY <3>1 DEF RemoveWaitTask
    <3>3. mWaitTasks[p] \in Seq(Known(p))
      BY DEF IInv, WaitInv
    <3>4. i \in 1..Len(mWaitTasks[p])
      BY <3>3, LenProperties
    <3>5. RemoveAt(mWaitTasks[p], i) \in Seq(Known(p))
      BY <3>3, <3>4, RemovesOne
    <3>6. RemoveAt(mWaitTasks[p], i) \in Seq(Known(p)')
      BY <1>2, <3>5
    <3>7. PICK s \in Seq(Known(p)') : s = RemoveAt(mWaitTasks[p], i)
      BY <3>6
    <3>8. mWaitTasks' = [mWaitTasks EXCEPT ![p] = s]
      BY <3>2, <3>7
    <3>9. WaitInv'
      BY <1>2, <3>8, WaitsSet DEF IInv
    <3> QED BY <1>2, <3>1, <3>9, RunsSame DEF IInv
  <2>2. CASE ~IsFindWaitTask(p, m.t)
    <3> DEFINE R == {i \in mRunTasks[p] : i.t # m.t}
    <3>1. mRunTasks' = [mRunTasks EXCEPT ![p] = R] /\ UNCHANGED mWaitTasks
      BY <1>3, <2>2 DEF StopTask
    <3>2. R \in SUBSET Info /\ \A i \in R : IsKnown(i, p)
      BY DEF IInv, RunInv
    <3> HIDE DEF R
    <3>3. RunInv'
      BY <1>2, <3>1, <3>2, RunsSet DEF IInv
    <3> QED BY <1>2, <3>1, <3>3, WaitsSame DEF IInv
  <2> QED BY <2>1, <2>2
<1> QED BY <1>1, <1>2, <1>4, <1>5, MgrKeeps

(* What a machine forgets when it is asked.                                *)
LEMMA ForgetsKeeps ==
  ASSUME IInv, KnownStays, NEW p \in Svr, Forgets(p)
  PROVE  RunInv'
<1> DEFINE R == {i \in mRunTasks[p] : i.status = "eStart"}
<1>1. mRunTasks' = [mRunTasks EXCEPT ![p] = R]
  BY DEF Forgets
<1>2. R \in SUBSET Info /\ \A i \in R : IsKnown(i, p)
  BY DEF IInv, RunInv
<1> HIDE DEF R
<1> QED BY <1>1, <1>2, RunsSet DEF IInv

LEMMA NeverUnlocksInv ==
  ASSUME IInv, NEW m \in net, NeverUnlocks(m), UNCHANGED <<down, deaths>>
  PROVE  IInv'
<1>1. /\ Received(m) /\ locked' = locked \cup {m.svr} /\ Forgets(m.svr)
      /\ UNCHANGED <<driverVars, mProcStatus, mQueue, mWaitTasks, running>>
  BY DEF NeverUnlocks
<1>2. KnownStays /\ NetInv' /\ m.svr \in Svr
  BY <1>1, ReceivedFacts
<1>3. WaitInv' /\ QueueInv'
  BY <1>1, <1>2, WaitsSame, QueueShrinks DEF IInv
<1>4. RunInv'
  BY <1>1, <1>2, ForgetsKeeps
<1>5. SvrTypes'
  BY <1>1, <1>2 DEF IInv, SvrTypes
<1> QED BY <1>1, <1>2, <1>3, <1>4, <1>5, MgrKeeps

LEMMA GetInfosInv ==
  ASSUME IInv, NEW m \in net, GetTaskRunnerInfos(m), UNCHANGED <<down, deaths>>
  PROVE  IInv'
<1>1. /\ Received(m) /\ Forgets(m.svr)
      /\ UNCHANGED <<driverVars, mWaitTasks, locked, running>>
  BY DEF GetTaskRunnerInfos
<1>2. KnownStays /\ NetInv' /\ m.svr \in Svr
  BY <1>1, ReceivedFacts
<1>3. PICK p \in Svr : p = m.svr
  BY <1>2
<1> DEFINE I == {i \in mRunTasks[p] : i.status # "eStart"}
           N == {[type |-> "eUpdateTask", svr |-> p, info |-> i] : i \in I}
                  \cup {[type |-> "eScheduleNextTask", svr |-> p]}
<1>4. mProcStatus' = mProcStatus \ {p} /\ mQueue' \subseteq mQueue \cup N
  BY <1>3 DEF GetTaskRunnerInfos, RespCallBack
<1>5. \A i \in I : i \in Info /\ IsKnown(i, p)
  BY DEF IInv, RunInv
<1>6. ASSUME NEW i \in I PROVE IsKnown(i, p)'
  <2>1. i.t \in Task /\ i.stamp \in Stamp /\ KnownAt(i.t, i.stamp, p)
    BY <1>5 DEF Info, IsKnown
  <2> QED BY <1>2, <2>1 DEF KnownStays, IsKnown
<1>7. N \in SUBSET Event
  BY <1>5 DEF Event
<1>8. \A e \in N : e.type = "eUpdateTask" => IsKnown(e.info, e.svr)'
  <2> SUFFICES ASSUME NEW e \in N, e.type = "eUpdateTask" PROVE IsKnown(e.info, e.svr)'
    OBVIOUS
  <2>1. PICK i \in I : e = [type |-> "eUpdateTask", svr |-> p, info |-> i]
    OBVIOUS
  <2>2. e.info = i /\ e.svr = p
    BY <2>1
  <2> QED BY <1>6, <2>2
<1> HIDE DEF N, I
<1>9. QueueInv'
  BY <1>2, <1>4, <1>7, <1>8, QueueGrows DEF IInv
<1>10. WaitInv'
  BY <1>1, <1>2, WaitsSame DEF IInv
<1>11. RunInv'
  BY <1>1, <1>2, ForgetsKeeps
<1>12. SvrTypes'
  BY <1>1, <1>4 DEF IInv, SvrTypes
<1> QED BY <1>1, <1>2, <1>9, <1>10, <1>11, <1>12, MgrKeeps

LEMMA DeathReportedKeeps ==
  ASSUME IInv, KnownStays, NEW p \in Svr, DeathReported(p)
  PROVE  QueueInv' /\ mProcStatus' \subseteq Svr
<1> DEFINE N == {[type |-> "eSvrDeath", svr |-> p]}
<1>1. /\ N \in SUBSET Event /\ \A e \in N : e.type # "eUpdateTask"
      /\ mQueue' \subseteq mQueue \cup N /\ mProcStatus' = mProcStatus \cup {p}
  BY DEF Event, DeathReported
<1> HIDE DEF N
<1>2. QueueInv'
  BY <1>1, QueueGrows DEF IInv
<1> QED BY <1>1, <1>2 DEF IInv, SvrTypes

LEMMA DeathCallBackInv ==
  ASSUME IInv, NEW m \in net, DeathCallBack(m)
  PROVE  IInv'
<1>1. /\ Received(m) /\ UNCHANGED <<driverVars, mgrVars, down, deaths>>
      /\ DeathReported(m.svr) \/ UNCHANGED <<mProcStatus, mQueue>>
  BY DEF DeathCallBack
<1>2. KnownStays /\ NetInv' /\ m.svr \in Svr
  BY <1>1, ReceivedFacts
<1>3. WaitInv' /\ RunInv'
  BY <1>1, <1>2, WaitsSame, RunsSame DEF IInv, mgrVars
<1>4. QueueInv' /\ mProcStatus' \subseteq Svr
  <2>1. CASE DeathReported(m.svr)
    BY <1>2, <2>1, DeathReportedKeeps
  <2>2. CASE UNCHANGED <<mProcStatus, mQueue>>
    BY <1>2, <2>2, QueueShrinks DEF IInv, SvrTypes
  <2> QED BY <1>1, <2>1, <2>2
<1>5. SvrTypes'
  BY <1>1, <1>4 DEF IInv, SvrTypes, mgrVars
<1> QED BY <1>1, <1>2, <1>3, <1>4, <1>5, MgrKeeps

LEMMA AnswerLostInv ==
  ASSUME IInv, NEW m \in net, AnswerLost(m)
  PROVE  IInv'
<1>1. /\ Received(m) /\ UNCHANGED <<driverVars, mWaitTasks, locked, running>>
      /\ Forgets(m.svr) /\ DeathReported(m.svr)
      /\ deaths < MaxDeaths /\ down' = down \cup {m.svr} /\ deaths' = deaths + 1
  BY DEF AnswerLost
<1>2. KnownStays /\ NetInv' /\ m.svr \in Svr
  BY <1>1, ReceivedFacts
<1>3. WaitInv' /\ RunInv'
  BY <1>1, <1>2, WaitsSame, ForgetsKeeps DEF IInv
<1>4. QueueInv' /\ mProcStatus' \subseteq Svr
  BY <1>1, <1>2, DeathReportedKeeps
<1>5. SvrTypes'
  BY <1>1, <1>2, <1>4 DEF IInv, SvrTypes
<1> QED BY <1>1, <1>2, <1>3, <1>4, <1>5, MgrKeeps

LEMMA CrashInv ==
  ASSUME IInv, NEW p \in Svr, Crash(p)
  PROVE  IInv'
<1>1. /\ UNCHANGED <<driverVars, mProcStatus, mQueue, net>>
      /\ deaths < MaxDeaths /\ down' = down \cup {p} /\ deaths' = deaths + 1
      /\ mWaitTasks' = [mWaitTasks EXCEPT ![p] = <<>>]
      /\ mRunTasks' = [mRunTasks EXCEPT ![p] = {}]
      /\ running' = [running EXCEPT ![p] = {}] /\ locked' = locked \ {p}
  BY DEF Crash
<1>2. KnownStays
  BY <1>1, DriverSame
<1>3. <<>> \in Seq(Known(p)') /\ {} \in SUBSET Info
  OBVIOUS
<1>4. WaitInv'
  BY <1>1, <1>2, <1>3, WaitsSet DEF IInv
<1>5. RunInv'
  BY <1>1, <1>2, <1>3, RunsSet DEF IInv
<1>6. NetInv' /\ QueueInv'
  BY <1>1, <1>2, NetShrinks, QueueShrinks DEF IInv
<1>7. SvrTypes'
  BY <1>1 DEF IInv, SvrTypes
<1> QED BY <1>1, <1>4, <1>5, <1>6, <1>7, MgrKeeps

(* A machine that is cut off, or back, and a step that changes nothing.    *)
LEMMA OnlyDown ==
  ASSUME IInv, UNCHANGED <<driverVars, mProcStatus, mQueue, mgrVars, net>>,
         down' \subseteq Svr, deaths' \in 0..MaxDeaths
  PROVE  IInv'
<1>1. KnownStays
  BY DriverSame
<1>2. WaitInv' /\ RunInv'
  BY <1>1, WaitsSame, RunsSame DEF IInv, mgrVars
<1>3. NetInv' /\ QueueInv'
  BY <1>1, NetShrinks, QueueShrinks DEF IInv
<1>4. SvrTypes'
  BY DEF IInv, SvrTypes, mgrVars
<1> QED BY <1>2, <1>3, <1>4, MgrKeeps

LEMMA NextInv == IInv /\ [Next]_vars => IInv'
<1> SUFFICES ASSUME IInv, [Next]_vars PROVE IInv'
  OBVIOUS
<1>0. down \subseteq Svr /\ deaths \in 0..MaxDeaths
  BY DEF IInv, SvrTypes
<1>1. CASE DriverGoesOn
  BY <1>1, HandleEventInv, StartTaskInv, StartTasksEndInv DEF DriverGoesOn
<1>2. ASSUME NEW old \in SUBSET mStartTasks, Heartbeat(old) PROVE IInv'
  BY <1>2, HeartbeatInv
<1>3. ASSUME NEW p \in Svr, StartFirst(p) \/ CutOff(p) \/ Crash(p) \/ Back(p) PROVE IInv'
  <2>1. CASE CutOff(p)
    BY <1>0, <2>1, OnlyDown DEF CutOff
  <2>2. CASE Back(p)
    BY <1>0, <2>2, OnlyDown DEF Back
  <2> QED BY <1>3, <2>1, <2>2, StartFirstInv, CrashInv
<1>4. ASSUME NEW p \in Svr, NEW r \in running[p], RunGoesOn(p, r) PROVE IInv'
  BY <1>4, RunGoesOnInv
<1>5. ASSUME NEW m \in net, Goes(m) \/ AnswerLost(m) PROVE IInv'
  <2>1. CASE Deliver(m)
    <3>1. UNCHANGED <<down, deaths>>
      BY <2>1 DEF Deliver
    <3> QED BY <2>1, <3>1, AddTaskInv, StopTaskInv, GetInfosInv, NeverUnlocksInv DEF Deliver
  <2> QED BY <1>5, <2>1, DeathCallBackInv, AnswerLostInv DEF Goes
<1>6. CASE UNCHANGED vars
  BY <1>0, <1>6, OnlyDown DEF vars
<1> QED BY <1>1, <1>2, <1>3, <1>4, <1>5, <1>6 DEF Next, Step

LEMMA Invariant == SafeSpec => []IInv
BY InitInv, NextInv, PTL DEF SafeSpec

-------------------------------------------------------------------------------
(***************************************************************************)
(* The theorems.                                                           *)
(***************************************************************************)
(* The slots that AosTaskSchedulerNorm counts for a machine are the tasks  *)
(* that are started there, never more than there are: a slot is given back *)
(* once, and by the machine that lent it, whatever failure, time-out,      *)
(* death or late result ends the task.                                     *)
THEOREM SlotsAreCounted == SafeSpec => []SlotsCounted
<1>1. IInv => SlotsCounted
  BY DEF IInv, JobInv
<1> QED BY <1>1, Invariant, PTL

(* AosLogicTask's list, its map of started tasks and its two counters say  *)
(* the same of every task: none is dropped, listed twice or counted twice. *)
THEOREM EachTaskIsInOnePlace == SafeSpec => []EachTaskInOnePlace
<1>1. IInv => EachTaskInOnePlace
  BY DEF IInv, JobInv
<1> QED BY <1>1, Invariant, PTL

LEMMA CountsTyped ==
  ASSUME IInv
  PROVE  mStartedNum \in 0..Cardinality(Task) /\ mFinishedNum \in 0..Cardinality(Task)
<1> DEFINE F == {t \in Task : status[t] = "eFinish"}
<1>1. /\ mStartTasks \subseteq Task /\ IsFiniteSet(mStartTasks)
      /\ Cardinality(mStartTasks) \in Nat
      /\ \A t \in Task : t \in mStartTasks <=> status[t] = "eStart"
  BY StartedIsFinite DEF IInv
<1>2. /\ mFinishedNum = Cardinality(F) /\ mStartedNum = mFinishedNum + Cardinality(mStartTasks)
  BY DEF IInv, JobInv, EachTaskInOnePlace
<1>3. F \in SUBSET (Task \ mStartTasks)
  BY <1>1
<1> HIDE DEF F
<1>4. /\ Cardinality(Task \ mStartTasks) = Cardinality(Task) - Cardinality(mStartTasks)
      /\ Cardinality(Task) \in Nat /\ IsFiniteSet(Task \ mStartTasks)
  BY <1>1, PartCounts, FS_Subset
<1>5. Cardinality(F) \in Nat /\ Cardinality(F) <= Cardinality(Task \ mStartTasks)
  BY <1>3, <1>4, PartCounts
<1> QED BY <1>1, <1>2, <1>4, <1>5

(* Everything has the type it is declared with; in particular no task      *)
(* fails more often than eMaxTaskFailNum without the job's failing, and    *)
(* what is queued, sent or kept names a machine and a run of the job.      *)
THEOREM TypeCorrect == SafeSpec => []TypeOK
<1>1. ASSUME IInv PROVE TypeOK
  <2>1. /\ JobTypes /\ SlotsCounted /\ EachTaskInOnePlace /\ SvrTypes
        /\ mStartTasks \subseteq Task
    BY <1>1, StartedIsFinite DEF IInv, JobInv
  <2>2. mNumActiveTasks \in [Svr -> 0..mNumSlots]
    <3>1. mNumActiveTasks \in [Svr -> Nat]
      BY <2>1 DEF JobTypes
    <3>2. ASSUME NEW p \in Svr PROVE mNumActiveTasks[p] \in 0..mNumSlots
      <4>1. mNumActiveTasks[p] \in Nat /\ mNumActiveTasks[p] <= mNumSlots
        BY <2>1, <3>1 DEF SlotsCounted
      <4> QED BY <4>1
    <3> QED BY <3>1, <3>2
  <2>3. \A p \in Svr : \A i \in DOMAIN mWaitTasks[p] : mWaitTasks[p][i] \in Run
    <3> SUFFICES ASSUME NEW p \in Svr, NEW i \in DOMAIN mWaitTasks[p]
                 PROVE  mWaitTasks[p][i] \in Run
      OBVIOUS
    <3>1. mWaitTasks[p] \in Seq(Run)
      BY <1>1 DEF IInv, WaitInv
    <3> QED BY <3>1, LenProperties, ElementOfSeq
  <2>4. mQueue \subseteq Event /\ net \subseteq Message /\ mRunTasks \in [Svr -> SUBSET Info]
    BY <1>1 DEF IInv, QueueInv, NetInv, RunInv
  <2>5. mStartedNum \in 0..Cardinality(Task) /\ mFinishedNum \in 0..Cardinality(Task)
    BY <1>1, CountsTyped
  <2> QED BY <2>1, <2>2, <2>3, <2>4, <2>5 DEF TypeOK, JobTypes, SvrTypes
<1> QED BY <1>1, Invariant, PTL
===============================================================================
