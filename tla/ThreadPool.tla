------------------------------ MODULE ThreadPool ------------------------------
(***************************************************************************)
(* OmnThreadPool: proc() queues a task and hands the oldest one to a       *)
(* thread shell that is not active, or to a new one while there are fewer  *)
(* than eMaxThreadShells.  A shell's thread sleeps until startProcess()    *)
(* gives it a task, runs it, posts the semaphore of the procSync() that    *)
(* waits for it, becomes idle and asks the pool for more work.  A thread   *)
(* that has slept for ten minutes exits; startProcess() then makes a new   *)
(* one.                                                                    *)
(*                                                                         *)
(* proc() and returnShell() hold the pool's mLock from the first to the    *)
(* last statement and are one step each.  The steps of a shell's thread    *)
(* are the stretches between its uses of mCntlLock.                        *)
(***************************************************************************)
EXTENDS Naturals, Sequences, FiniteSets

CONSTANTS
  Task,         \* OmnThrdShellProc objects, each handed over once
  Caller,       \* threads outside the pool that hand tasks over
  Owner,        \* who hands a task over: a Caller, or a Task from its run()
  Sync,         \* the owners that use procSync; the others use procAsync
  MaxShells,    \* eMaxThreadShells
  SlowWakeup,   \* may a shell be given a task after its thread's wait has
                \* timed out and before that thread has mCntlLock again
  Nil

Submitter == Task \cup Caller
Children(o) == {t \in Task : Owner[t] = o}
Shell == 1..MaxShells

ASSUME PoolAssumption == /\ IsFiniteSet(Task)
                         /\ Task \cap Caller = {}
                         /\ Nil \notin Task
                         /\ Owner \in [Task -> Submitter]
                         /\ Sync \subseteq Submitter
                         /\ MaxShells \in Nat \ {0}
                         /\ SlowWakeup \in BOOLEAN

VARIABLES
  mProcessors,  \* the pool's queue
  shells,       \* mShells.size()
  mState,       \* of each shell: eStateIdle, eStateActive or eStateStopped
  mProcessor,   \* the task of each shell
  thread,       \* where the thread of each shell is
  sent,         \* the tasks handed to proc()
  sem,          \* the semaphore of each owner's procSync
  taken,        \* how often the owner's procSync has returned from sem->wait()
  done          \* the tasks whose run() has returned

shellVars == <<shells, mState, mProcessor, thread>>
ownerVars == <<sent, sem, taken>>
vars == <<mProcessors, shellVars, ownerVars, done>>

\* top: before the lock and the test of mProcessor.  wait: in timedWait.
\* timedOut: the wait is over, mCntlLock not yet taken again.  run: in run().
\* ran: semaphore posted, mProcessor still set.  idle: before returnShell().
ThreadPc == {"none", "top", "wait", "timedOut", "run", "ran", "idle", "exited"}

Init == /\ mProcessors = <<>>
        /\ shells = 0
        /\ mState = [s \in Shell |-> "idle"]
        /\ mProcessor = [s \in Shell |-> Nil]
        /\ thread = [s \in Shell |-> "none"]
        /\ sent = {}
        /\ sem = [o \in Submitter |-> 0]
        /\ taken = [o \in Submitter |-> 0]
        /\ done = {}

-------------------------------------------------------------------------------
(***************************************************************************)
(* The pool, under mLock.                                                  *)
(***************************************************************************)
\* Mutant: a thread that has exited is not replaced.
AsleepNotGone == {"none", "wait"}

\* Mutant: no signal.
AsleepUnsignalled == {"none", "exited"}

\* The threads that startProcess starts or wakes: one of a new shell, one that
\* is in its wait when mCntlCondVar is signalled, one that has exited.
Asleep == {"none", "wait", "exited"}

\* OmnThreadShell::startProcess; th is where the threads are.  A shell that has
\* a task refuses, and the caller does not look.
StartProcess(s, t, th) ==
  IF mProcessor[s] # Nil THEN thread' = th /\ UNCHANGED <<mState, mProcessor>>
  ELSE /\ mState' = [mState EXCEPT ![s] = "active"]
       /\ mProcessor' = [mProcessor EXCEPT ![s] = t]
       /\ thread' = [th EXCEPT ![s] = IF @ \in Asleep THEN "top" ELSE @]

\* The first shell that is not active, or a new one; nothing at the limit.
Free == {s \in 1..shells : mState[s] # "active"}
GetShell == {s \in Shell : \/ s \in Free /\ \A u \in Free : s <= u
                           \/ Free = {} /\ s = shells + 1}

\* Mutant: the task stays in the queue.
HandOutKeeps(q, th) ==
  \/ /\ GetShell = {}
     /\ mProcessors' = q
     /\ thread' = th
     /\ UNCHANGED <<shells, mState, mProcessor>>
  \/ \E s \in GetShell :
       /\ mProcessors' = q
       /\ shells' = IF s > shells THEN s ELSE shells
       /\ StartProcess(s, Head(q), th)

\* The oldest task of queue q is handed to a shell, if there is one.
HandOut(q, th) ==
  \/ /\ GetShell = {}
     /\ mProcessors' = q
     /\ thread' = th
     /\ UNCHANGED <<shells, mState, mProcessor>>
  \/ \E s \in GetShell :
       /\ mProcessors' = Tail(q)
       /\ shells' = IF s > shells THEN s ELSE shells
       /\ StartProcess(s, Head(q), th)

\* An owner is at work: a caller always, a task while a thread runs it.
AtWork(o) == o \in Caller \/ \E s \in Shell : thread[s] = "run" /\ mProcessor[s] = o

Proc(o, t) ==
  /\ t \in Children(o) \ sent
  /\ AtWork(o)
  /\ sent' = sent \cup {t}
  /\ HandOut(Append(mProcessors, t), thread)
  /\ UNCHANGED <<sem, taken, done>>

\* Mutant: one wait too few.
WaitsButOne(o) == IF o \in Sync THEN Cardinality(Children(o)) - 1 ELSE 0

\* procSync has handed all tasks over and waits once for each of them.
Waits(o) == IF o \in Sync THEN Cardinality(Children(o)) ELSE 0

\* Mutant: the wait does not wait.
SemWaitAnyway(o) ==
  /\ AtWork(o)
  /\ Children(o) \subseteq sent
  /\ taken[o] < Waits(o)
  /\ sem' = [sem EXCEPT ![o] = @ - 1]
  /\ taken' = [taken EXCEPT ![o] = @ + 1]
  /\ UNCHANGED <<mProcessors, shellVars, sent, done>>

SemWait(o) ==
  /\ AtWork(o)
  /\ Children(o) \subseteq sent
  /\ taken[o] < Waits(o)
  /\ sem[o] > 0
  /\ sem' = [sem EXCEPT ![o] = @ - 1]
  /\ taken' = [taken EXCEPT ![o] = @ + 1]
  /\ UNCHANGED <<mProcessors, shellVars, sent, done>>

Returned(o) == Children(o) \subseteq sent /\ taken[o] = Waits(o)

-------------------------------------------------------------------------------
(***************************************************************************)
(* The thread of a shell, OmnThreadShell::threadFunc.                      *)
(***************************************************************************)
\* With a task the thread runs it, without one it sleeps.
Look(s) ==
  /\ thread[s] = "top"
  /\ thread' = [thread EXCEPT ![s] = IF mProcessor[s] = Nil THEN "wait" ELSE "run"]
  /\ UNCHANGED <<mProcessors, shells, mState, mProcessor, ownerVars, done>>

\* The thread leaves whether or not it has been given a task by now.
Exit(s) ==
  /\ thread' = [thread EXCEPT ![s] = "exited"]
  /\ mState' = [mState EXCEPT ![s] = "stopped"]
  /\ UNCHANGED <<mProcessors, shells, mProcessor, ownerVars, done>>

TimeOut(s) ==
  /\ thread[s] = "wait"
  /\ \/ Exit(s)
     \/ /\ SlowWakeup
        /\ thread' = [thread EXCEPT ![s] = "timedOut"]
        /\ UNCHANGED <<mProcessors, shells, mState, mProcessor, ownerVars, done>>

Expire(s) == thread[s] = "timedOut" /\ Exit(s)

PostSem(t) == IF Owner[t] \in Sync THEN [sem EXCEPT ![Owner[t]] = @ + 1] ELSE sem

\* run() returns when what the task itself waits for has returned.
FinishRun(s) ==
  /\ thread[s] = "run"
  /\ Returned(mProcessor[s])
  /\ thread' = [thread EXCEPT ![s] = "ran"]
  /\ done' = done \cup {mProcessor[s]}
  /\ sem' = PostSem(mProcessor[s])
  /\ UNCHANGED <<mProcessors, shells, mState, mProcessor, sent, taken>>

BecomeIdle(s) ==
  /\ thread[s] = "ran"
  /\ thread' = [thread EXCEPT ![s] = "idle"]
  /\ mProcessor' = [mProcessor EXCEPT ![s] = Nil]
  /\ mState' = [mState EXCEPT ![s] = "idle"]
  /\ UNCHANGED <<mProcessors, shells, ownerVars, done>>

\* The queue's oldest task goes to any shell that is free, often to this one.
ReturnShell(s) ==
  /\ thread[s] = "idle"
  /\ LET awake == [thread EXCEPT ![s] = "top"]
     IN  IF mProcessors # <<>> THEN HandOut(mProcessors, awake)
         ELSE thread' = awake /\ UNCHANGED <<mProcessors, shells, mState, mProcessor>>
  /\ UNCHANGED <<ownerVars, done>>

-------------------------------------------------------------------------------
OwnerStep(o) == SemWait(o) \/ \E t \in Task : Proc(o, t)
ShellStep(s) == Look(s) \/ Expire(s) \/ FinishRun(s) \/ BecomeIdle(s) \/ ReturnShell(s)
Work == (\E o \in Submitter : OwnerStep(o)) \/ (\E s \in Shell : ShellStep(s))
Next == Work \/ \E s \in Shell : TimeOut(s)

SafeSpec == Init /\ [][Next]_vars

\* Threads are scheduled, and run() returns once what it waits for has; that
\* anybody sleeps for ten minutes is not assumed.
Spec == /\ SafeSpec
        /\ \A o \in Submitter : WF_vars(OwnerStep(o))
        /\ \A s \in Shell : WF_vars(ShellStep(s))

-------------------------------------------------------------------------------
TypeOK == /\ mProcessors \in Seq(Task)
          /\ shells \in 0..MaxShells
          /\ mState \in [Shell -> {"idle", "active", "stopped"}]
          /\ mProcessor \in [Shell -> Task \cup {Nil}]
          /\ thread \in [Shell -> ThreadPc]
          /\ sent \subseteq Task
          /\ sem \in [Submitter -> Nat]
          /\ taken \in [Submitter -> Nat]
          /\ done \subseteq Task

Queued == {mProcessors[i] : i \in DOMAIN mProcessors}
Held == {mProcessor[s] : s \in Shell} \ {Nil}

\* No task is run twice: it is never in two places of the pool, and one that
\* has been run is not queued again (proc, returnShell and startProcess pass
\* tasks on under two locks).
RunOnce ==
  /\ \A i, j \in DOMAIN mProcessors : mProcessors[i] = mProcessors[j] => i = j
  /\ \A s, u \in Shell : mProcessor[s] = mProcessor[u] /\ mProcessor[s] # Nil => s = u
  /\ Queued \cap (Held \cup done) = {}
  /\ \A s \in Shell : mProcessor[s] \in done => thread[s] = "ran"

\* procSync returns only when every task it has handed over has been run: the
\* posts it has taken are those of its own tasks (ThreadPool.cpp, procSync).
SyncReturnsAfterAll ==
  \A o \in Sync : Children(o) # {} /\ Returned(o) => Children(o) \subseteq done

\* A task is lost: startProcess has given it to a shell whose thread was on its
\* way out, and getShell hands that shell out again.
TaskLost == \E s \in Free : mProcessor[s] # Nil

\* "This is true because the caller gets this thread shell from ThreadShellMgr,
\* which will ensure that" (ThreadShell.cpp, startProcess): a shell that getShell
\* may hand out has no task.
FreeShellsHaveNoTask == ~TaskLost

\* Every shell there may be runs a task that hands over tasks of its own and
\* waits for them in procSync.
AllShellsNested == \A s \in Shell : thread[s] = "run" /\ mProcessor[s] \in Sync

\* The two ways in which the pool may stop serving: a task was lost, or every
\* thread waits for ever for tasks that no thread is left to run.
LockedUp == <>TaskLost \/ <>[]AllShellsNested

\* The pool keeps the promise of WorkQueue: tasks are started oldest first,
\* none is dropped between the queue and a thread, and each is finished, unless
\* the pool locks up; the order is kept even then, up to a lost task.
Queue == INSTANCE WorkQueue WITH
           Workers <- MaxShells, waiting <- mProcessors,
           running <- Held \ done, finished <- done
ImplementsWorkQueue ==
  /\ Queue!Init
  /\ [][TaskLost' \/ Queue!Next]_(Queue!vars)
  /\ LockedUp \/ Queue!Fairness

\* Everybody who hands tasks over gets to the end of procSync or procAsync,
\* unless the pool locks up: nested calls of procSync at eMaxThreadShells and a
\* task lost to a time-out are the only ways to hang (procSync, getShell).
CallersReturn == \A c \in Caller : LockedUp \/ <>Returned(c)
==============================================================================
