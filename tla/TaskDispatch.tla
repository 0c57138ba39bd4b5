----------------------------- MODULE TaskDispatch -----------------------------
(***************************************************************************)
(* The dispatching of a job's tasks: the job server's AosTaskDriver thread *)
(* with AosJob, AosLogicTask and AosTaskSchedulerNorm, the AosTaskMgr of   *)
(* each machine with its task processes, and the transactions between.     *)
(*                                                                         *)
(* The driver asks every machine what it runs (a heartbeat).  The answers  *)
(* become events: a free slot makes the scheduler start waiting tasks, the *)
(* end of a task is counted once, a failed one waits again.  A machine     *)
(* that is reported dead, and a task of which nothing has been heard for   *)
(* long, count as failures.  Machines crash and lose all they run, or are  *)
(* cut off and go on.                                                      *)
(***************************************************************************)
EXTENDS Integers, FiniteSets, Sequences, SequencesExt

CONSTANTS
  Task, Svr,
  Nil,
  Place,           \* the machine a task is bound to by its input, or Nil
  mNumSlots,       \* tasks of the job on one machine
  eMaxTaskFailNum, \* failures of one task before the job fails
  MaxDeaths,       \* bound: machines that crash or are cut off
  MaxPending       \* bound: answers and events the driver waits for when it asks again

ASSUME DispatchAssumption ==
  /\ IsFiniteSet(Task) /\ IsFiniteSet(Svr) /\ Nil \notin Svr
  /\ Place \in [Task -> Svr \cup {Nil}]
  /\ mNumSlots \in Nat \ {0}
  /\ eMaxTaskFailNum \in Nat /\ MaxDeaths \in Nat /\ MaxPending \in Nat

VARIABLES
  jobStatus,
  status, taskServer,    \* AosTaskInfo of each task
  failNum,               \* entries of error_reasons
  mStartTasks, mStartedNum, mFinishedNum,
  mWaitTaskInfoList,     \* how often each task is in the list
  mNumActiveTasks,
  mProcStatus,           \* the machines that are eUnusable
  starting,              \* the machine the driver is in startTasksPriv for
  mQueue,                \* events for the driver
  mWaitTasks, mRunTasks, \* of each AosTaskMgr: the deque, the map mStartTasks
  locked,                \* machines whose AosTaskMgr's mLock is never unlocked
  running,               \* the processes of each machine
  net, down, deaths

jobVars == <<jobStatus, status, taskServer, failNum, mStartTasks, mStartedNum, mFinishedNum>>
schedVars == <<mWaitTaskInfoList, mNumActiveTasks, starting>>
driverVars == <<jobVars, schedVars>>
mgrVars == <<mWaitTasks, mRunTasks, locked, running>>
vars == <<driverVars, mProcStatus, mQueue, mgrVars, net, down, deaths>>

\* A run of a task.  The start stamp is the number of the run: a task is started
\* once more after each failure.
Stamp == 1..eMaxTaskFailNum + 1
Run == [t : Task, stamp : Stamp]
Info == [t : Task, stamp : Stamp, status : {"eStart", "eFinish", "eFail"}]

Message == [type : {"schedule"}, svr : Svr, t : Task, stamp : Stamp]
           \cup [type : {"stop"}, svr : Svr, t : Task]
           \cup [type : {"getInfos"}, svr : Svr]

Event == [type : {"eScheduleNextTask", "eSvrDeath"}, svr : Svr]
         \cup [type : {"eUpdateTask"}, svr : Svr, info : Info]

Init == /\ jobStatus = "eStart"
        /\ status = [t \in Task |-> "eWait"] /\ taskServer = [t \in Task |-> Nil]
        /\ failNum = [t \in Task |-> 0]
        /\ mStartTasks = {} /\ mStartedNum = 0 /\ mFinishedNum = 0
        /\ mWaitTaskInfoList = [t \in Task |-> 1]
        /\ mNumActiveTasks = [p \in Svr |-> 0]
        /\ mProcStatus = {}
        /\ starting = Nil
        /\ mQueue = {}
        /\ mWaitTasks = [p \in Svr |-> <<>>] /\ mRunTasks = [p \in Svr |-> {}]
        /\ locked = {}
        /\ running = [p \in Svr |-> {}]
        /\ net = {} /\ down = {} /\ deaths = 0

StampOf(t) == failNum[t] + 1
Gets(S) == {[type |-> "getInfos", svr |-> p] : p \in S}

-------------------------------------------------------------------------------
(***************************************************************************)
(* Failures.                                                               *)
(***************************************************************************)
\* The mutant of returnNumActive: the slot is not given back.
Keeps(p, S) == mNumActiveTasks[p]

Returned(p, S) == mNumActiveTasks[p] - Cardinality({t \in S : taskServer[t] = p})

\* Mutant: the counter of started tasks is not taken back.
StillCounted(S) == mStartedNum

Uncounted(S) == mStartedNum - Cardinality(S)

\* taskFailed, of all the tasks S a handler finds failed: the job fails at the
\* limit, or when 70 percent of the machines are dead; else they wait again.
JobFails(S) ==
  \/ \E t \in S : failNum[t] + 1 > eMaxTaskFailNum
  \/ S # {} /\ Cardinality(mProcStatus) * 100 >= Cardinality(Svr) * 70

Stops(S) == {[type |-> "stop", svr |-> taskServer[t], t |-> t] : t \in S}

TasksFail(S, more) ==
  IF JobFails(S)
  THEN /\ jobStatus' = "eFail"
       /\ net' = net \cup Stops(mStartTasks)
       /\ UNCHANGED <<status, taskServer, failNum, mStartTasks, mStartedNum, mFinishedNum,
                      schedVars>>
  ELSE /\ status' = [t \in Task |-> IF t \in S THEN "eWait" ELSE status[t]]
       /\ failNum' = [t \in Task |-> IF t \in S THEN failNum[t] + 1 ELSE failNum[t]]
       /\ mStartTasks' = mStartTasks \ S
       /\ mStartedNum' = Uncounted(S)
       /\ mNumActiveTasks' = [p \in Svr |-> Returned(p, S)]
       /\ mWaitTaskInfoList' = [t \in Task |-> mWaitTaskInfoList[t] + IF t \in S THEN 1 ELSE 0]
       /\ net' = net \cup Stops(S) \cup more
       /\ UNCHANGED <<jobStatus, taskServer, mFinishedNum, starting>>

-------------------------------------------------------------------------------
(***************************************************************************)
(* The driver thread.  It is in its loop, or in startTasksPriv.            *)
(***************************************************************************)
Driving == starting = Nil /\ jobStatus = "eStart"

\* The timer, or eSignalHeartbeat: tasks not heard of for long fail, and every
\* machine is asked.  (One that notifies the end of a task is asked earlier.)
Heartbeat(old) ==
  /\ Driving
  /\ Cardinality(net \cap Gets(Svr)) + Cardinality(mQueue) <= MaxPending
  /\ TasksFail(old, Gets(Svr))
  /\ UNCHANGED <<mProcStatus, mQueue, mgrVars, down, deaths>>

Took(e) == mQueue' = mQueue \ {e}

ScheduleNextTask(e) ==
  /\ e.type = "eScheduleNextTask"
  /\ starting' = e.svr
  /\ UNCHANGED <<jobVars, mWaitTaskInfoList, mNumActiveTasks, net>>

SvrDeath(e) ==
  /\ e.type = "eSvrDeath"
  /\ TasksFail({t \in mStartTasks : taskServer[t] = e.svr}, {})

\* Mutant: the stamp is not compared.
IsValidAnyRun(info) == status[info.t] = "eStart"

IsValid(info) == status[info.t] = "eStart" /\ StampOf(info.t) = info.stamp

TaskFailed(e) ==
  /\ e.type = "eUpdateTask" /\ e.info.status = "eFail"
  /\ IF IsValid(e.info) THEN TasksFail({e.info.t}, {}) ELSE UNCHANGED <<driverVars, net>>

\* taskInfoFinished, then nextTask, which takes the task off its machine.
TaskFinished(e) ==
  /\ e.type = "eUpdateTask" /\ e.info.status = "eFinish"
  /\ UNCHANGED net
  /\ IF IsValid(e.info)
     THEN /\ status' = [status EXCEPT ![e.info.t] = "eFinish"]
          /\ mFinishedNum' = mFinishedNum + 1
          /\ mStartTasks' = mStartTasks \ {e.info.t}
          /\ jobStatus' = IF mStartedNum = mFinishedNum' /\ mStartedNum = Cardinality(Task)
                          THEN "eFinish" ELSE jobStatus
          /\ mNumActiveTasks' = [mNumActiveTasks EXCEPT ![e.svr] = @ - 1]
          /\ starting' = e.svr
          /\ UNCHANGED <<taskServer, failNum, mStartedNum, mWaitTaskInfoList>>
     ELSE UNCHANGED driverVars

HandleEvent(e) ==
  /\ Driving /\ Took(e)
  /\ \/ ScheduleNextTask(e) \/ SvrDeath(e)
     \/ TaskFailed(e) \/ TaskFinished(e)
  /\ UNCHANGED <<mProcStatus, mgrVars, down, deaths>>

\* A task that is not bound goes to a machine with the fewest active tasks.
CheckRunable(p) == \A q \in Svr : mNumActiveTasks[p] <= mNumActiveTasks[q]

Runable(t, p) == Place[t] = p \/ (Place[t] = Nil /\ CheckRunable(p))

\* Mutant: one task more than there are slots.
HasRoomForOneMore(p) == mNumActiveTasks[p] <= mNumSlots

HasSlot(p) == mNumActiveTasks[p] < mNumSlots

Waiting == {t \in Task : mWaitTaskInfoList[t] > 0}

\* One turn of the loop of startTasksPriv.  The order of the list is left open.
StartTask(t) ==
  /\ starting # Nil /\ jobStatus = "eStart"
  /\ t \in Waiting /\ HasSlot(starting) /\ Runable(t, starting)
  /\ mWaitTaskInfoList' = [mWaitTaskInfoList EXCEPT ![t] = @ - 1]
  /\ mNumActiveTasks' = [mNumActiveTasks EXCEPT ![starting] = @ + 1]
  /\ status' = [status EXCEPT ![t] = "eStart"]
  /\ taskServer' = [taskServer EXCEPT ![t] = starting]
  /\ mStartTasks' = mStartTasks \cup {t}
  /\ mStartedNum' = mStartedNum + 1
  /\ net' = net \cup {[type |-> "schedule", svr |-> starting, t |-> t, stamp |-> StampOf(t)]}
  /\ UNCHANGED <<jobStatus, failNum, mFinishedNum, starting, mProcStatus, mQueue, mgrVars, down,
                 deaths>>

\* The loop ends at the limit, at the end of the list, or at the first task that
\* is not bound when this machine is not the one for it.
StartTasksEnd ==
  /\ starting # Nil
  /\ \/ ~HasSlot(starting)
     \/ \A t \in Waiting : ~Runable(t, starting)
     \/ \E t \in Waiting : Place[t] = Nil /\ ~CheckRunable(starting)
  /\ starting' = Nil
  /\ UNCHANGED <<jobVars, mWaitTaskInfoList, mNumActiveTasks, mProcStatus, mQueue, mgrVars,
                 net, down, deaths>>

-------------------------------------------------------------------------------
(***************************************************************************)
(* AosTaskMgr, under its mLock.                                            *)
(***************************************************************************)
Received(m) == net' = net \ {m}
Works(p) == p \notin locked

IsFindWaitTask(p, t) == \E i \in DOMAIN mWaitTasks[p] : mWaitTasks[p][i].t = t

\* A task that waits already keeps the stamp it has.
AddTaskLocal(m) ==
  /\ m.type = "schedule" /\ Works(m.svr) /\ Received(m)
  /\ mWaitTasks' = IF IsFindWaitTask(m.svr, m.t) THEN mWaitTasks
                   ELSE [mWaitTasks EXCEPT ![m.svr] = Append(@, [t |-> m.t, stamp |-> m.stamp])]
  /\ UNCHANGED <<driverVars, mProcStatus, mQueue, mRunTasks, locked, running>>

\* The first one with the task's id.
RemoveWaitTask(p, t) ==
  \E i \in DOMAIN mWaitTasks[p] :
    /\ mWaitTasks[p][i].t = t /\ \A j \in 1..i - 1 : mWaitTasks[p][j].t # t
    /\ mWaitTasks' = [mWaitTasks EXCEPT ![p] = RemoveAt(@, i)]

\* The process is killed later: RunDies.
StopTask(m) ==
  /\ m.type = "stop" /\ Works(m.svr) /\ Received(m)
  /\ IF IsFindWaitTask(m.svr, m.t)
     THEN RemoveWaitTask(m.svr, m.t) /\ UNCHANGED mRunTasks
     ELSE /\ mRunTasks' = [mRunTasks EXCEPT ![m.svr] = {i \in @ : i.t # m.t}]
          /\ UNCHANGED mWaitTasks
  /\ UNCHANGED <<driverVars, mProcStatus, mQueue, locked, running>>

\* The thread starts the first task when there is a process for it; a task that
\* is in the map already is overwritten.
StartFirst(p) ==
  /\ Works(p) /\ mWaitTasks[p] # <<>>
  /\ LET r == Head(mWaitTasks[p])
     IN  /\ mRunTasks' = [mRunTasks EXCEPT ![p] = {i \in @ : i.t # r.t}
               \cup {[t |-> r.t, stamp |-> r.stamp, status |-> "eStart"]}]
         /\ running' = [running EXCEPT ![p] = @ \cup {r}]
  /\ mWaitTasks' = [mWaitTasks EXCEPT ![p] = Tail(@)]
  /\ UNCHANGED <<driverVars, mProcStatus, mQueue, locked, net, down, deaths>>

\* updateTaskStatus, of the tasks in the map that a process means.
UpdateStatus(p, meant, s) ==
  mRunTasks' = [mRunTasks EXCEPT ![p] =
    {IF i \in meant THEN [i EXCEPT !.status = s] ELSE i : i \in @}]

RunEnds(p, r, meant, s) ==
  /\ r \in running[p] /\ Works(p)
  /\ running' = [running EXCEPT ![p] = @ \ {r}]
  /\ UpdateStatus(p, meant, s)
  /\ UNCHANGED <<driverVars, mProcStatus, mQueue, mWaitTasks, locked, net, down, deaths>>

\* A process reports the end of its task by the task's id, of whatever run.
RunReports(p, r, s) == RunEnds(p, r, {i \in mRunTasks[p] : i.t = r.t}, s)

RunFinishes(p, r) == RunReports(p, r, "eFinish")

RunFails(p, r) == RunReports(p, r, "eFail")

\* A process that crashes, or is killed, is known by its pid.
RunDies(p, r) ==
  RunEnds(p, r, {i \in mRunTasks[p] : i.t = r.t /\ i.stamp = r.stamp}, "eFail")

\* getTaskRunnerInfos: what has ended is reported once and forgotten (what runs,
\* reported for its progress, is left out).  With more tasks than slots it returns
\* without the unlock, and nothing is answered.
TooMany(p) == Cardinality(mRunTasks[p]) > mNumSlots

Forgets(p) == mRunTasks' = [mRunTasks EXCEPT ![p] = {i \in @ : i.status = "eStart"}]

NeverUnlocks(m) ==
  /\ m.type = "getInfos" /\ Works(m.svr) /\ TooMany(m.svr) /\ Received(m)
  /\ locked' = locked \cup {m.svr} /\ Forgets(m.svr)
  /\ UNCHANGED <<driverVars, mProcStatus, mQueue, mWaitTasks, running>>

\* respCallBack.  The answer's way is no step of its own: the events it becomes
\* wait for the driver as long.
RespCallBack(p, infos, idle) ==
  /\ mProcStatus' = mProcStatus \ {p}
  /\ mQueue' = mQueue \cup {[type |-> "eUpdateTask", svr |-> p, info |-> i] : i \in infos}
                      \cup IF idle THEN {[type |-> "eScheduleNextTask", svr |-> p]} ELSE {}

GetTaskRunnerInfos(m) ==
  /\ m.type = "getInfos" /\ Works(m.svr) /\ ~TooMany(m.svr) /\ Received(m)
  /\ Forgets(m.svr)
  /\ RespCallBack(m.svr, {i \in mRunTasks[m.svr] : i.status # "eStart"},
                  Cardinality(mRunTasks[m.svr]) < mNumSlots)
  /\ UNCHANGED <<driverVars, mWaitTasks, locked, running>>

DeathReported(p) ==
  /\ mProcStatus' = mProcStatus \cup {p}
  /\ mQueue' = mQueue \cup {[type |-> "eSvrDeath", svr |-> p]}

\* The machine is cut off with its answer on the way: what it has forgotten is
\* not heard of again.
AnswerLost(m) ==
  /\ m.type = "getInfos" /\ Works(m.svr) /\ ~TooMany(m.svr) /\ Received(m)
  /\ m.svr \notin down /\ deaths < MaxDeaths
  /\ down' = down \cup {m.svr} /\ deaths' = deaths + 1
  /\ Forgets(m.svr) /\ DeathReported(m.svr)
  /\ UNCHANGED <<driverVars, mWaitTasks, locked, running>>

\* A call to a machine that is down ends with the report of its death; the other
\* transactions are dropped.
DeathCallBack(m) ==
  /\ m.svr \in down /\ Received(m)
  /\ IF m.type = "getInfos" THEN DeathReported(m.svr) ELSE UNCHANGED <<mProcStatus, mQueue>>
  /\ UNCHANGED <<driverVars, mgrVars, down, deaths>>

Deliver(m) ==
  /\ m.svr \notin down
  /\ \/ AddTaskLocal(m) \/ StopTask(m)
     \/ GetTaskRunnerInfos(m) \/ NeverUnlocks(m)
  /\ UNCHANGED <<down, deaths>>

-------------------------------------------------------------------------------
(***************************************************************************)
(* The machines (external): cut off, crashed, and back.                    *)
(***************************************************************************)
CutOff(p) ==
  /\ p \notin down /\ deaths < MaxDeaths
  /\ down' = down \cup {p} /\ deaths' = deaths + 1
  /\ UNCHANGED <<driverVars, mProcStatus, mQueue, mgrVars, net>>

Crash(p) ==
  /\ p \notin down /\ deaths < MaxDeaths
  /\ down' = down \cup {p} /\ deaths' = deaths + 1
  /\ mWaitTasks' = [mWaitTasks EXCEPT ![p] = <<>>]
  /\ mRunTasks' = [mRunTasks EXCEPT ![p] = {}]
  /\ running' = [running EXCEPT ![p] = {}]
  /\ locked' = locked \ {p}
  /\ UNCHANGED <<driverVars, mProcStatus, mQueue, net>>

Back(p) ==
  /\ p \in down
  /\ down' = down \ {p}
  /\ UNCHANGED <<driverVars, mProcStatus, mQueue, mgrVars, net, deaths>>

-------------------------------------------------------------------------------
DriverGoesOn == \/ \E e \in mQueue : HandleEvent(e)
                \/ \E t \in Task : StartTask(t)
                \/ StartTasksEnd
Goes(m) == Deliver(m) \/ DeathCallBack(m)
RunGoesOn(p, r) == RunFinishes(p, r) \/ RunFails(p, r) \/ RunDies(p, r)

Step == \/ DriverGoesOn
        \/ \E old \in SUBSET mStartTasks : Heartbeat(old)
        \/ \E p \in Svr : StartFirst(p) \/ CutOff(p) \/ Crash(p) \/ Back(p)
        \/ \E p \in Svr : \E r \in running[p] : RunGoesOn(p, r)
        \/ \E m \in net : Goes(m) \/ AnswerLost(m)

\* Bound: the model ends with the job.
Next == jobStatus = "eStart" /\ Step

\* Nothing of the last start of t is left, on its machine or on the way.
Lost(t) ==
  LET here(r) == r.t = t /\ r.stamp = StampOf(t)
      p == taskServer[t]
  IN  /\ t \in mStartTasks
      /\ ~\E m \in net : m.type = "schedule" /\ here(m)
      /\ ~\E i \in DOMAIN mWaitTasks[p] : here(mWaitTasks[p][i])
      /\ ~\E r \in running[p] \cup mRunTasks[p] : here(r)
      /\ ~\E e \in mQueue : e.type = "eUpdateTask" /\ here(e.info)

TimeOut == \E old \in SUBSET mStartTasks :
             {t \in mStartTasks : Lost(t)} \subseteq old /\ Heartbeat(old)

SafeSpec == Init /\ [][Next]_vars
\* The driver's thread and the machines' threads, processes and messages go on;
\* a machine that is down returns; a task of which nothing is left times out.
Fairness == /\ WF_vars(DriverGoesOn) /\ SF_vars(TimeOut)
            /\ WF_vars(\E m \in net \cap Gets(Svr) : Goes(m))
            /\ WF_vars(\E m \in net \ Gets(Svr) : Goes(m))
            /\ \A p \in Svr : /\ WF_vars(StartFirst(p)) /\ WF_vars(Back(p))
                             /\ WF_vars(\E r \in running[p] : RunGoesOn(p, r))

Spec == SafeSpec /\ Fairness

-------------------------------------------------------------------------------
TypeOK ==
  /\ jobStatus \in {"eStart", "eFinish", "eFail"}
  /\ status \in [Task -> {"eWait", "eStart", "eFinish"}]
  /\ taskServer \in [Task -> Svr \cup {Nil}]
  /\ failNum \in [Task -> 0..eMaxTaskFailNum]
  /\ mStartTasks \subseteq Task
  /\ mStartedNum \in 0..Cardinality(Task) /\ mFinishedNum \in 0..Cardinality(Task)
  /\ mWaitTaskInfoList \in [Task -> Nat]
  /\ mNumActiveTasks \in [Svr -> 0..mNumSlots]
  /\ starting \in Svr \cup {Nil}
  /\ mProcStatus \subseteq Svr /\ locked \subseteq Svr /\ down \subseteq Svr
  /\ mQueue \subseteq Event
  /\ \A p \in Svr : \A i \in DOMAIN mWaitTasks[p] : mWaitTasks[p][i] \in Run
  /\ mRunTasks \in [Svr -> SUBSET Info]
  /\ running \in [Svr -> SUBSET Run]
  /\ net \subseteq Message
  /\ deaths \in 0..MaxDeaths

\* What the scheduler counts for a machine is the number of tasks started there,
\* whichever of a failure, a time-out, a death or a late result of another run
\* or machine ends them, so that no slot leaks and none is used twice
\* (AosTaskSchedulerNorm: nextTask, returnNumActive, startTasksPriv).
SlotsCounted ==
  \A p \in Svr : /\ mNumActiveTasks[p] = Cardinality({t \in mStartTasks : taskServer[t] = p})
               /\ mNumActiveTasks[p] <= mNumSlots

\* A task waits once, or is started, or has ended, and the logical task counts it
\* so: it is never dropped from the list, nor listed twice (AosLogicTask,
\* AosJob::taskFailed, AosTaskSchedulerNorm::addTasks).
EachTaskInOnePlace ==
  /\ \A t \in Task : mWaitTaskInfoList[t] = IF status[t] = "eWait" THEN 1 ELSE 0
  /\ mStartTasks = {t \in Task : status[t] = "eStart"}
  /\ mFinishedNum = Cardinality({t \in Task : status[t] = "eFinish"})
  /\ mStartedNum = mFinishedNum + Cardinality(mStartTasks)

\* The job finishes or fails, whatever is lost or reported late, as long as no
\* AosTaskMgr is left locked (AosTaskDriver::threadFunc, AosJob::svrDeath).
JobEnds == <>(jobStatus # "eStart" \/ locked # {})

\* "aos_assert_r(run_infos.size() <= num_slots, false)" (TaskMgr.cpp,
\* getTaskRunnerInfos), which returns with mLock held.
NeverTooMany == locked = {}
===============================================================================
