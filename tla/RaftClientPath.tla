---------------------------- MODULE RaftClientPath ----------------------------
(***************************************************************************)
(* The way of a client's data through one Raft server, and of the answer   *)
(* back: handleClientData puts an entry with the client's call in          *)
(* mDataQueue and posts mDataSem; the data thread moves it to mLogQueue;   *)
(* the message thread applies it when it is committed and answers the      *)
(* call.  When a role is entered, the main thread's init() empties         *)
(* mDataQueue and answers the calls in mLogQueue, without any lock.        *)
(*                                                                         *)
(* An entry is known by its call.  Entries of other leaders carry no call  *)
(* and are left out, and so are the messages that move the commit index.   *)
(***************************************************************************)
EXTENDS Naturals, Sequences

CONSTANTS Call,           \* the calls of clients, one entry each
          StatMachFails,  \* may the state machine refuse to append or to apply
          MaxRoles        \* bound: role changes

ASSUME ClientAssumption == StatMachFails \in BOOLEAN /\ MaxRoles \in Nat

VARIABLES
  mRole, roles,           \* the role, and how often it has changed
  mDataQueue, mDataSem,
  mLogQueue, committed,   \* the entries that are not applied, how many are committed
  mCall,                  \* the calls whose entry still points at them
  result,                 \* what is set in a call, to be sent
  answers,                \* what has been sent to the client of a call
  applied,                \* the entries the state machine has applied
  client,                 \* the transport thread of each call
  dataPc, dataLog,        \* data thread, and the entry it has popped
  msgPc, applying,        \* message thread, and the position it applies
  mainPc, mainRole, notifying, \* main thread, the role it is in, position
  ansPc, ansLog, ansResult,    \* the message or main thread answering a call
  down                    \* the process has died

roleVars == <<mRole, roles>>
queueVars == <<mDataQueue, mDataSem>>
logVars == <<mLogQueue, committed, applied>>
callVars == <<mCall, result, answers>>
dataVars == <<dataPc, dataLog>>
msgVars == <<msgPc, applying>>
mainVars == <<mainPc, mainRole, notifying>>
ansVars == <<ansPc, ansLog, ansResult>>
vars == <<roleVars, queueVars, logVars, callVars, client, dataVars, msgVars, mainVars,
          ansVars, down>>

Role == {"leader", "follower", "candidate"}
Answering == {"msg", "main"}
None == <<>>  \* no entry; an entry that is held is <<c>>

Init == /\ mRole = "follower" /\ roles = 0
        /\ mDataQueue = <<>> /\ mDataSem = 0
        /\ mLogQueue = <<>> /\ committed = 0 /\ applied = {}
        /\ mCall = {}
        /\ result = [c \in Call |-> "none"]
        /\ answers = [c \in Call |-> <<>>]
        /\ client = [c \in Call |-> "new"]
        /\ dataPc = "top" /\ dataLog = None
        /\ msgPc = "idle" /\ applying = 0
        /\ mainPc = "switch" /\ mainRole = "follower" /\ notifying = 0
        /\ ansPc = [t \in Answering |-> "none"]
        /\ ansLog = [t \in Answering |-> None]
        /\ ansResult = [t \in Answering |-> "none"]
        /\ down = FALSE

-------------------------------------------------------------------------------
(***************************************************************************)
(* handleClientData: the queue under mDataLock, then the semaphore.        *)
(***************************************************************************)
PushData(c) ==
  /\ client[c] = "new"
  /\ client' = [client EXCEPT ![c] = "pushed"]
  /\ mDataQueue' = Append(mDataQueue, c)
  /\ mCall' = mCall \cup {c}
  /\ UNCHANGED <<roleVars, mDataSem, logVars, result, answers, dataVars, msgVars, mainVars,
                 ansVars, down>>

\* Mutant: no post.
PostDataNot(c) ==
  /\ client[c] = "pushed"
  /\ client' = [client EXCEPT ![c] = "posted"]
  /\ UNCHANGED <<roleVars, queueVars, logVars, callVars, dataVars, msgVars, mainVars,
                 ansVars, down>>

PostData(c) ==
  /\ client[c] = "pushed"
  /\ client' = [client EXCEPT ![c] = "posted"]
  /\ mDataSem' = mDataSem + 1
  /\ UNCHANGED <<roleVars, mDataQueue, logVars, callVars, dataVars, msgVars, mainVars,
                 ansVars, down>>

-------------------------------------------------------------------------------
(***************************************************************************)
(* The data thread, dataThreadFunc.                                        *)
(***************************************************************************)
TestRole ==
  /\ dataPc = "top"
  /\ dataPc' = IF mRole = "leader" THEN "look" ELSE "clear"
  /\ UNCHANGED <<roleVars, queueVars, logVars, callVars, client, dataLog, msgVars, mainVars,
                 ansVars, down>>

\* clearClientData compares an index that grows with a size that shrinks: the
\* older half of the queue stays.
ClearClientData ==
  /\ dataPc = "clear"
  /\ dataPc' = "wait"
  /\ mDataQueue' = SubSeq(mDataQueue, 1, Len(mDataQueue) \div 2)
  /\ UNCHANGED <<roleVars, mDataSem, logVars, callVars, client, dataLog, msgVars, mainVars,
                 ansVars, down>>

DataSemWait ==
  /\ dataPc = "wait" /\ mDataSem > 0
  /\ dataPc' = "top" /\ mDataSem' = mDataSem - 1
  /\ UNCHANGED <<roleVars, mDataQueue, logVars, callVars, client, dataLog, msgVars, mainVars,
                 ansVars, down>>

LookAtQueue ==
  /\ dataPc = "look"
  /\ dataPc' = IF mDataQueue = <<>> THEN "wait" ELSE "pop"
  /\ UNCHANGED <<roleVars, queueVars, logVars, callVars, client, dataLog, msgVars, mainVars,
                 ansVars, down>>

\* init() takes no lock: the queue may be empty by now, and front() is
\* undefined; the process dies.
Pop ==
  /\ dataPc = "pop"
  /\ IF mDataQueue = <<>> THEN down' = TRUE /\ UNCHANGED <<mDataQueue, dataPc, dataLog>>
     ELSE /\ dataLog' = <<Head(mDataQueue)>>
          /\ mDataQueue' = Tail(mDataQueue)
          /\ dataPc' = "append"
          /\ UNCHANGED down
  /\ UNCHANGED <<roleVars, mDataSem, logVars, callVars, client, msgVars, mainVars, ansVars>>

\* appendLog; when it refuses, the thread ends with the entry unanswered.
AppendLog ==
  /\ dataPc = "append"
  /\ dataLog' = None
  /\ \/ mLogQueue' = mLogQueue \o dataLog /\ dataPc' = "top"
     \/ StatMachFails /\ dataPc' = "ended" /\ UNCHANGED mLogQueue
  /\ UNCHANGED <<roleVars, queueVars, committed, applied, callVars, client, msgVars, mainVars,
                 ansVars, down>>

DataThread == TestRole \/ ClearClientData \/ DataSemWait \/ LookAtQueue \/ Pop \/ AppendLog

-------------------------------------------------------------------------------
(***************************************************************************)
(* AosRaftLogEntry::apply and notifyJimoCall: the statements from the test *)
(* of mCall on, by the thread t.  A call that the other thread has cleared *)
(* is a null pointer.                                                      *)
(***************************************************************************)
StartAnswer(t, c, r) == /\ ansPc' = [ansPc EXCEPT ![t] = "test"]
                        /\ ansLog' = [ansLog EXCEPT ![t] = <<c>>]
                        /\ ansResult' = [ansResult EXCEPT ![t] = r]
NoAnswer(t) == ansPc[t] = "none"

TestCall(t) ==
  /\ ansPc[t] = "test"
  /\ IF ansLog[t][1] \in mCall
     THEN ansPc' = [ansPc EXCEPT ![t] = "set"] /\ UNCHANGED ansLog
     ELSE ansPc' = [ansPc EXCEPT ![t] = "none"] /\ ansLog' = [ansLog EXCEPT ![t] = None]
  /\ UNCHANGED <<callVars, ansResult, down>>

SetResult(t) ==
  /\ ansPc[t] = "set"
  /\ IF ansLog[t][1] \in mCall
     THEN /\ result' = [result EXCEPT ![ansLog[t][1]] = ansResult[t]]
          /\ ansPc' = [ansPc EXCEPT ![t] = "send"]
          /\ UNCHANGED down
     ELSE down' = TRUE /\ UNCHANGED <<result, ansPc>>
  /\ UNCHANGED <<mCall, answers, ansLog, ansResult>>

SendResp(t) ==
  /\ ansPc[t] = "send"
  /\ IF ansLog[t][1] \in mCall
     THEN /\ answers' = [answers EXCEPT ![ansLog[t][1]] = Append(@, result[ansLog[t][1]])]
          /\ ansPc' = [ansPc EXCEPT ![t] = "forget"]
          /\ UNCHANGED down
     ELSE down' = TRUE /\ UNCHANGED <<answers, ansPc>>
  /\ UNCHANGED <<mCall, result, ansLog, ansResult>>

ForgetCall(t) ==
  /\ ansPc[t] = "forget"
  /\ mCall' = mCall \ {ansLog[t][1]}
  /\ ansPc' = [ansPc EXCEPT ![t] = "none"]
  /\ ansLog' = [ansLog EXCEPT ![t] = None]
  /\ UNCHANGED <<result, answers, ansResult, down>>

AnswerStep(t) ==
  /\ TestCall(t) \/ SetResult(t) \/ SendResp(t) \/ ForgetCall(t)
  /\ UNCHANGED <<roleVars, queueVars, logVars, client, dataVars, msgVars, mainVars>>

-------------------------------------------------------------------------------
(***************************************************************************)
(* The message thread.                                                     *)
(***************************************************************************)
MsgIdle == msgPc = "idle" /\ NoAnswer("msg")

\* A message is handled that leaves n entries committed: applyCommittedLogs.
Commit(n) ==
  /\ MsgIdle
  /\ committed' = n /\ msgPc' = "apply" /\ applying' = 1
  /\ UNCHANGED <<roleVars, queueVars, mLogQueue, applied, callVars, client, dataVars, mainVars,
                 ansVars, down>>

\* Mutant: the last committed entry is not applied.
ToApplyLess == applying < committed

ToApply == applying <= committed

\* Mutant: the answer does not wait for the state machine.
OutcomesBlind(c) == {<<"ok", applied>>}

\* What the state machine may do with the entry c.
Outcomes(c) == {<<"ok", applied \cup {c}>>}
               \cup IF StatMachFails THEN {<<"fail", applied>>} ELSE {}

\* Entry by entry; a failure ends the loop and nothing leaves mLogQueue.
ApplyEntry ==
  /\ msgPc = "apply" /\ NoAnswer("msg") /\ ToApply
  /\ \E o \in Outcomes(mLogQueue[applying]) :
       /\ StartAnswer("msg", mLogQueue[applying], o[1])
       /\ applied' = o[2]
       /\ msgPc' = IF o[1] = "ok" THEN "apply" ELSE "idle"
       /\ applying' = applying + 1
  /\ UNCHANGED <<roleVars, queueVars, mLogQueue, committed, callVars, client, dataVars, mainVars,
                 down>>

\* Mutant: the entries leave the queue, the commit index stays.
SetLastLogIdAppliedOnly ==
  /\ msgPc = "apply" /\ NoAnswer("msg") /\ ~ToApply
  /\ msgPc' = "idle" /\ applying' = 0
  /\ mLogQueue' = SubSeq(mLogQueue, committed + 1, Len(mLogQueue))
  /\ UNCHANGED <<roleVars, queueVars, committed, applied, callVars, client, dataVars, mainVars,
                 ansVars, down>>

SetLastLogIdApplied ==
  /\ msgPc = "apply" /\ NoAnswer("msg") /\ ~ToApply
  /\ msgPc' = "idle" /\ applying' = 0
  /\ mLogQueue' = SubSeq(mLogQueue, committed + 1, Len(mLogQueue))
  /\ committed' = 0
  /\ UNCHANGED <<roleVars, queueVars, applied, callVars, client, dataVars, mainVars, ansVars, down>>

\* A request of another leader removes entries that are not committed.
RemoveLogs(n) ==
  /\ MsgIdle /\ mRole # "leader"
  /\ mLogQueue' = SubSeq(mLogQueue, 1, n)
  /\ UNCHANGED <<roleVars, queueVars, committed, applied, callVars, client, dataVars, msgVars,
                 mainVars, ansVars, down>>

\* changeRole by the message thread: a step-down, or the votes have arrived.
MsgChangeRole(r) ==
  /\ MsgIdle /\ roles < MaxRoles
  /\ \/ mRole # "follower" /\ r = "follower"
     \/ mRole = "candidate" /\ r = "leader"
  /\ mRole' = r /\ roles' = roles + 1
  /\ msgPc' = "notify"
  /\ UNCHANGED <<queueVars, logVars, callVars, client, dataVars, applying, mainVars, ansVars, down>>

Notify == mDataSem' = mDataSem + 1

MsgNotify ==
  /\ msgPc = "notify"
  /\ msgPc' = "idle"
  /\ Notify
  /\ UNCHANGED <<roleVars, mDataQueue, logVars, callVars, client, dataVars, applying, mainVars,
                 ansVars, down>>

\* What follows once a message is being handled.
MsgGoesOn == ApplyEntry \/ SetLastLogIdApplied \/ MsgNotify \/ AnswerStep("msg")

-------------------------------------------------------------------------------
(***************************************************************************)
(* The main thread, and init() at the head of each role.                   *)
(***************************************************************************)
Switch ==
  /\ mainPc = "switch"
  /\ mainPc' = "clear" /\ mainRole' = mRole
  /\ UNCHANGED <<roleVars, queueVars, logVars, callVars, client, dataVars, msgVars, notifying,
                 ansVars, down>>

InitClears ==
  /\ mainPc = "clear"
  /\ mainPc' = "answer" /\ notifying' = 1
  /\ mDataQueue' = <<>>
  /\ UNCHANGED <<roleVars, mDataSem, logVars, callVars, client, dataVars, msgVars, mainRole,
                 ansVars, down>>

\* notifyJimoCall of the log manager: entries may be added or go meanwhile.
NotifyJimoCall ==
  /\ mainPc = "answer" /\ NoAnswer("main")
  /\ IF notifying <= Len(mLogQueue)
     THEN /\ StartAnswer("main", mLogQueue[notifying], "fail")
          /\ notifying' = notifying + 1
          /\ UNCHANGED mainPc
     ELSE mainPc' = "loop" /\ notifying' = 0 /\ UNCHANGED ansVars
  /\ UNCHANGED <<roleVars, queueVars, logVars, callVars, client, dataVars, msgVars, mainRole, down>>

LeaveLoop ==
  /\ mainPc = "loop" /\ mRole # mainRole
  /\ mainPc' = "switch"
  /\ UNCHANGED <<roleVars, queueVars, logVars, callVars, client, dataVars, msgVars, mainRole,
                 notifying, ansVars, down>>

\* The election timeout of a follower.
BecomeCandidate ==
  /\ mainPc = "loop" /\ mainRole = "follower" /\ mRole = "follower" /\ roles < MaxRoles
  /\ mRole' = "candidate" /\ roles' = roles + 1
  /\ mainPc' = "notify"
  /\ UNCHANGED <<queueVars, logVars, callVars, client, dataVars, msgVars, mainRole, notifying,
                 ansVars, down>>

MainNotify ==
  /\ mainPc = "notify"
  /\ mainPc' = "loop"
  /\ Notify
  /\ UNCHANGED <<roleVars, mDataQueue, logVars, callVars, client, dataVars, msgVars, mainRole,
                 notifying, ansVars, down>>

MainGoesOn == Switch \/ InitClears \/ NotifyJimoCall \/ LeaveLoop \/ MainNotify \/ AnswerStep("main")

-------------------------------------------------------------------------------
\* What comes from outside: calls, messages of the group and the timeout.
Outside == \/ \E c \in Call : PushData(c)
           \/ \E n \in 1..Len(mLogQueue) : n >= committed /\ Commit(n)
           \/ \E n \in 0..Len(mLogQueue) : n >= committed /\ RemoveLogs(n)
           \/ \E r \in Role : MsgChangeRole(r)
           \/ BecomeCandidate

Next == ~down /\ (Outside \/ (\E c \in Call : PostData(c)) \/ DataThread \/ MsgGoesOn \/ MainGoesOn)

SafeSpec == Init /\ [][Next]_vars

\* Each thread goes on with what it has begun.
Spec == /\ SafeSpec
        /\ \A c \in Call : WF_vars(~down /\ PostData(c))
        /\ WF_vars(~down /\ DataThread)
        /\ WF_vars(~down /\ MsgGoesOn)
        /\ WF_vars(~down /\ MainGoesOn)

-------------------------------------------------------------------------------
Entries(q) == {q[i] : i \in DOMAIN q}

TypeOK ==
  /\ mRole \in Role /\ roles \in 0..MaxRoles
  /\ mDataQueue \in Seq(Call) /\ mDataSem \in Nat
  /\ mLogQueue \in Seq(Call) /\ committed \in 0..Len(mLogQueue) /\ applied \subseteq Call
  /\ mCall \subseteq Call
  /\ result \in [Call -> {"none", "ok", "fail"}]
  /\ answers \in [Call -> Seq({"ok", "fail"})]
  /\ client \in [Call -> {"new", "pushed", "posted"}]
  /\ dataPc \in {"top", "clear", "wait", "look", "pop", "append", "ended"}
  /\ dataLog \in Seq(Call) /\ Len(dataLog) = IF dataPc = "append" THEN 1 ELSE 0
  /\ msgPc \in {"idle", "apply", "notify"} /\ applying \in Nat
  /\ mainPc \in {"switch", "clear", "answer", "loop", "notify"} /\ mainRole \in Role
  /\ notifying \in Nat
  /\ ansPc \in [Answering -> {"none", "test", "set", "send", "forget"}]
  /\ ansLog \in [Answering -> Seq(Call)]
  /\ ansResult \in [Answering -> {"none", "ok", "fail"}]
  /\ \A t \in Answering : ansPc[t] # "none" => Len(ansLog[t]) = 1 /\ ansResult[t] # "none"
  /\ down \in BOOLEAN

\* A thread is between its change of the queue or the role and its post.
PostPending == msgPc = "notify" \/ mainPc = "notify" \/ \E c \in Call : client[c] = "pushed"

\* No wake-up is lost: while the server leads, the data thread never sleeps on
\* a queue with data unless a post is still to come (handleClientData and
\* changeRole post after they have changed what dataThreadFunc tests).
NoLostWakeup ==
  dataPc = "wait" /\ mDataSem = 0 /\ mRole = "leader" /\ mDataQueue # <<>> => PostPending

\* A client that is told of success has its data applied, although both threads
\* set the result in the same call (AosRaftLogEntry::apply, notifyJimoCall).
SuccessMeansApplied == \A c \in Call : "ok" \in Entries(answers[c]) => c \in applied

\* While the server leads, data that is queued gets out of the queue: to the
\* log, or with init() (dataThreadFunc), unless the thread ends on a refusal.
QueueIsServed ==
  \A c \in Call :
    (c \in Entries(mDataQueue) /\ mRole = "leader")
      ~> (c \notin Entries(mDataQueue) \/ mRole # "leader" \/ dataPc = "ended" \/ down)

\* The client of a committed entry gets an answer (applyCommittedLogs).
CommittedIsAnswered ==
  \A c \in Call :
    (c \in Entries(SubSeq(mLogQueue, 1, committed))) ~> (answers[c] # <<>> \/ down)

\* "For non-replied log entry, need to send failure message" (RaftServer.cpp,
\* init): an entry that has been replied to gets no second answer.
RepliedOnce == \A c \in Call : Len(answers[c]) <= 1

\* The same comment: an entry that is not replied to does not just disappear.
DroppedAreAnswered ==
  \A c \in Call :
    \/ client[c] = "new" \/ c \in applied \/ answers[c] # <<>>
    \/ c \in Entries(mDataQueue) \cup Entries(dataLog) \cup Entries(mLogQueue)
    \/ \E t \in Answering : c \in Entries(ansLog[t])
==============================================================================
