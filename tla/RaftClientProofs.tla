--------------------------- MODULE RaftClientProofs ---------------------------
(***************************************************************************)
(* Proofs about RaftClientPath, for any number of clients' calls, any      *)
(* number of role changes, and a state machine that may fail.              *)
(***************************************************************************)
EXTENDS RaftClientPath, TLAPS

-------------------------------------------------------------------------------
(* The positions the two threads look at are in the queue.                 *)
Positions == /\ msgPc = "apply" => applying > 0
             /\ mainPc = "answer" => notifying > 0

(* What is sent has been set.                                              *)
ResultIsSet == \A t \in Answering : ansPc[t] = "send" => result[ansLog[t][1]] # "none"

TypeInv == TypeOK /\ Positions /\ ResultIsSet

(* What StartAnswer and the steps of an answer do to their variables.      *)
AnswerType ==
  /\ ansPc \in [Answering -> {"none", "test", "set", "send", "forget"}]
  /\ ansLog \in [Answering -> Seq(Call)]
  /\ ansResult \in [Answering -> {"none", "ok", "fail"}]
  /\ \A t \in Answering : ansPc[t] # "none" => Len(ansLog[t]) = 1 /\ ansResult[t] # "none"

LEMMA TypeInit == Init => TypeInv
<1> SUFFICES ASSUME Init PROVE TypeInv
  OBVIOUS
<1>1. mDataQueue \in Seq(Call) /\ mLogQueue \in Seq(Call) /\ Len(mLogQueue) = 0
      /\ dataLog \in Seq(Call) /\ Len(dataLog) = 0
  BY DEF Init, None
<1>2. answers \in [Call -> Seq({"ok", "fail"})]
  <2>1. <<>> \in Seq({"ok", "fail"})
    OBVIOUS
  <2> QED BY <2>1 DEF Init
<1>3. AnswerType
  <2>1. None \in Seq(Call)
    BY DEF None
  <2> QED BY <2>1 DEF Init, AnswerType
<1>4. ResultIsSet
  BY DEF Init, ResultIsSet
<1>5. /\ result \in [Call -> {"none", "ok", "fail"}]
      /\ client \in [Call -> {"new", "pushed", "posted"}]
  BY DEF Init
<1>6. /\ mRole \in Role /\ roles \in 0..MaxRoles /\ mDataSem \in Nat
      /\ committed \in 0..Len(mLogQueue) /\ applied \subseteq Call /\ mCall \subseteq Call
      /\ dataPc = "top" /\ msgPc = "idle" /\ applying = 0
      /\ mainPc = "switch" /\ mainRole \in Role /\ notifying = 0 /\ down = FALSE
  BY <1>1, ClientAssumption DEF Init, Role
<1>7. TypeOK
  BY <1>1, <1>2, <1>3, <1>5, <1>6 DEF TypeOK, AnswerType
<1> QED BY <1>4, <1>6, <1>7 DEF TypeInv, Positions

LEMMA StartAnswerType ==
  ASSUME AnswerType, NEW t \in Answering, NEW c \in Call, NEW r \in {"ok", "fail"},
         StartAnswer(t, c, r)
  PROVE  AnswerType'
<1>1. <<c>> \in Seq(Call) /\ Len(<<c>>) = 1
  OBVIOUS
<1>2. /\ ansLog' = [ansLog EXCEPT ![t] = <<c>>]
      /\ ansPc' = [ansPc EXCEPT ![t] = "test"]
      /\ ansResult' = [ansResult EXCEPT ![t] = r]
  BY DEF StartAnswer
<1>3. /\ ansLog' \in [Answering -> Seq(Call)]
      /\ ansPc' \in [Answering -> {"none", "test", "set", "send", "forget"}]
      /\ ansResult' \in [Answering -> {"none", "ok", "fail"}]
  BY <1>1, <1>2 DEF AnswerType
<1>4. ASSUME NEW u \in Answering, ansPc'[u] # "none"
      PROVE  Len(ansLog'[u]) = 1 /\ ansResult'[u] # "none"
  <2>1. CASE u = t
    BY <1>1, <1>2, <2>1 DEF AnswerType
  <2>2. CASE u # t
    <3>1. ansPc'[u] = ansPc[u] /\ ansLog'[u] = ansLog[u] /\ ansResult'[u] = ansResult[u]
      BY <1>2, <2>2 DEF AnswerType
    <3> QED BY <1>4, <3>1 DEF AnswerType
  <2> QED BY <2>1, <2>2
<1> QED BY <1>3, <1>4 DEF AnswerType

LEMMA AnswerStepType ==
  ASSUME TypeInv, NEW t \in Answering, AnswerStep(t)
  PROVE  TypeInv'
<1>0. AnswerType
  BY DEF TypeInv, TypeOK, AnswerType
<1>1. ansPc[t] # "none" /\ ansLog[t] \in Seq(Call) /\ Len(ansLog[t]) = 1
      /\ ansResult[t] \in {"ok", "fail"}
  BY <1>0 DEF AnswerType, AnswerStep, TestCall, SetResult, SendResp, ForgetCall
<1>2. ansLog[t][1] \in Call
  BY <1>1
<1>3. None \in Seq(Call)
  BY DEF None
<1>4. AnswerType'
  <2>1. ansPc' \in [Answering -> {"none", "test", "set", "send", "forget"}]
    BY <1>0 DEF AnswerType, AnswerStep, TestCall, SetResult, SendResp, ForgetCall
  <2>2. ansLog' \in [Answering -> Seq(Call)] /\ ansResult' = ansResult
    BY <1>0, <1>3 DEF AnswerType, AnswerStep, TestCall, SetResult, SendResp, ForgetCall
  <2>3. \A u \in Answering : ansPc'[u] # "none" => ansPc[u] # "none" /\ ansLog'[u] = ansLog[u]
    BY <1>0, <1>1 DEF AnswerType, AnswerStep, TestCall, SetResult, SendResp, ForgetCall
  <2> QED BY <1>0, <2>1, <2>2, <2>3 DEF AnswerType
<1>5. /\ mCall' \subseteq Call
      /\ result' \in [Call -> {"none", "ok", "fail"}]
      /\ down' \in BOOLEAN
  BY <1>1, <1>2 DEF TypeInv, TypeOK, AnswerStep, TestCall, SetResult, SendResp, ForgetCall, callVars
<1>6. answers' \in [Call -> Seq({"ok", "fail"})]
  <2>1. CASE answers' = answers
    BY <2>1 DEF TypeInv, TypeOK
  <2>2. CASE /\ ansPc[t] = "send"
             /\ answers' = [answers EXCEPT ![ansLog[t][1]] = Append(@, result[ansLog[t][1]])]
    <3>1. PICK c \in Call : c = ansLog[t][1]
      BY <1>2
    <3>2. result[c] \in {"ok", "fail"}
      BY <2>2, <3>1 DEF TypeInv, TypeOK, ResultIsSet
    <3> QED BY <2>2, <3>1, <3>2 DEF TypeInv, TypeOK
  <2> QED BY <2>1, <2>2 DEF AnswerStep, TestCall, SetResult, SendResp, ForgetCall, callVars
<1>7. ResultIsSet'
  <2>1. \A u \in Answering : ansPc'[u] = "send" =>
          \/ ansPc[u] = "send" /\ ansLog'[u] = ansLog[u]
          \/ u = t /\ SetResult(t) /\ ansLog'[u] = ansLog[u]
    BY <1>0 DEF AnswerType, AnswerStep, TestCall, SetResult, SendResp, ForgetCall
  <2>2. \A c \in Call : result[c] # "none" => result'[c] # "none"
    BY <1>1, <1>2 DEF TypeInv, TypeOK, AnswerStep, TestCall, SetResult, SendResp, ForgetCall, callVars
  <2>3. SetResult(t) /\ ansPc'[t] = "send" => result'[ansLog[t][1]] # "none"
    BY <1>0, <1>1, <1>2 DEF AnswerType, TypeInv, TypeOK, SetResult
  <2>4. \A u \in Answering : ansPc[u] # "none" => ansLog[u][1] \in Call
    BY <1>0 DEF AnswerType
  <2> QED BY <2>1, <2>2, <2>3, <2>4 DEF TypeInv, ResultIsSet
<1> QED
  BY <1>4, <1>5, <1>6, <1>7
  DEF TypeInv, TypeOK, Positions, AnswerType, AnswerStep, roleVars, queueVars, logVars, dataVars,
      msgVars, mainVars

(* A prefix of a queue is a queue, and no longer.                          *)
LEMMA Prefix ==
  ASSUME NEW q \in Seq(Call), NEW n \in Nat, n <= Len(q)
  PROVE  SubSeq(q, 1, n) \in Seq(Call) /\ Len(SubSeq(q, 1, n)) = n
OBVIOUS

LEMMA OneMore == \A n \in Nat : n + 1 \in Nat
OBVIOUS

LEMMA TypeNext == TypeInv /\ [Next]_vars => TypeInv'
<1> SUFFICES ASSUME TypeInv, [Next]_vars PROVE TypeInv'
  OBVIOUS
<1> USE DEF TypeInv, Positions, ResultIsSet, roleVars, queueVars, logVars, callVars, dataVars,
            msgVars, mainVars, ansVars
<1>1. ASSUME NEW c \in Call, PushData(c) \/ PostData(c) PROVE TypeInv'
  <2>1. client' \in [Call -> {"new", "pushed", "posted"}]
    <3>1. client \in [Call -> {"new", "pushed", "posted"}]
      BY DEF TypeOK
    <3>2. \E v \in {"pushed", "posted"} : client' = [client EXCEPT ![c] = v]
      BY <1>1 DEF PushData, PostData
    <3> QED BY <3>1, <3>2
  <2>2. UNCHANGED <<roleVars, logVars, result, answers, dataVars, msgVars, mainVars, ansVars, down>>
    BY <1>1 DEF PushData, PostData
  <2>3. mDataQueue' \in Seq(Call) /\ mDataSem' \in Nat /\ mCall' \subseteq Call
    <3>1. CASE PushData(c)
      <4>1. Append(mDataQueue, c) \in Seq(Call)
        BY DEF TypeOK
      <4> QED BY <3>1, <4>1 DEF TypeOK, PushData
    <3>2. CASE PostData(c)
      BY <3>2, OneMore DEF TypeOK, PostData
    <3> QED BY <1>1, <3>1, <3>2
  <2>4. Positions' /\ ResultIsSet'
    BY <2>2
  <2>5. TypeOK'
    BY <2>1, <2>2, <2>3 DEF TypeOK
  <2> QED BY <2>4, <2>5
<1>2. ASSUME TestRole \/ DataSemWait \/ LookAtQueue PROVE TypeInv'
  <2>1. UNCHANGED <<roleVars, mDataQueue, logVars, callVars, client, dataLog, msgVars, mainVars,
                    ansVars, down>>
    BY <1>2 DEF TestRole, DataSemWait, LookAtQueue
  <2>2. mDataSem \in Nat => mDataSem' \in Nat
    BY <1>2 DEF TestRole, DataSemWait, LookAtQueue
  <2>3. dataPc # "append" /\ dataPc' \in {"top", "clear", "wait", "look", "pop"}
    BY <1>2 DEF TestRole, DataSemWait, LookAtQueue
  <2>4. TypeOK'
    BY <2>1, <2>2, <2>3 DEF TypeOK
  <2> QED BY <2>1, <2>4
<1>3. ASSUME ClearClientData PROVE TypeInv'
  <2>1. mDataQueue \in Seq(Call) /\ Len(mDataQueue) \div 2 \in Nat
        /\ Len(mDataQueue) \div 2 <= Len(mDataQueue)
    BY DEF TypeOK
  <2>2. mDataQueue' \in Seq(Call)
    BY <1>3, <2>1, Prefix DEF ClearClientData
  <2> QED BY <1>3, <2>2 DEF TypeOK, ClearClientData
<1>4. ASSUME Pop PROVE TypeInv'
  <2>1. CASE mDataQueue = <<>>
    BY <1>4, <2>1 DEF TypeOK, Pop
  <2>2. CASE mDataQueue # <<>>
    <3>1. Head(mDataQueue) \in Call /\ Tail(mDataQueue) \in Seq(Call)
      BY <2>2 DEF TypeOK
    <3>2. <<Head(mDataQueue)>> \in Seq(Call) /\ Len(<<Head(mDataQueue)>>) = 1
      BY <3>1
    <3> QED BY <1>4, <2>2, <3>1, <3>2 DEF TypeOK, Pop
  <2> QED BY <2>1, <2>2
<1>5. ASSUME AppendLog PROVE TypeInv'
  <2>1. dataLog' \in Seq(Call) /\ Len(dataLog') = 0
    BY <1>5 DEF AppendLog, None
  <2>2. mLogQueue' \in Seq(Call) /\ Len(mLogQueue') >= Len(mLogQueue)
    <3>1. CASE mLogQueue' = mLogQueue \o dataLog
      <4>1. mLogQueue \in Seq(Call) /\ dataLog \in Seq(Call)
        BY DEF TypeOK
      <4>2. mLogQueue \o dataLog \in Seq(Call) /\ Len(mLogQueue \o dataLog) >= Len(mLogQueue)
        BY <4>1
      <4> QED BY <3>1, <4>2
    <3>2. CASE UNCHANGED mLogQueue
      BY <3>2 DEF TypeOK
    <3> QED BY <1>5, <3>1, <3>2 DEF AppendLog
  <2>3. committed' \in 0..Len(mLogQueue')
    BY <1>5, <2>2 DEF TypeOK, AppendLog
  <2> QED BY <1>5, <2>1, <2>2, <2>3 DEF TypeOK, AppendLog
<1>6. ASSUME NEW n \in 1..Len(mLogQueue), n >= committed, Commit(n) PROVE TypeInv'
  BY <1>6 DEF TypeOK, Commit
<1>7. ASSUME ApplyEntry PROVE TypeInv'
  <2>1. applying \in 1..Len(mLogQueue)
    BY <1>7 DEF TypeOK, ApplyEntry, ToApply
  <2>2. mLogQueue[applying] \in Call
    BY <2>1 DEF TypeOK
  <2>3. PICK o \in Outcomes(mLogQueue[applying]) :
          /\ StartAnswer("msg", mLogQueue[applying], o[1])
          /\ applied' = o[2]
          /\ msgPc' = IF o[1] = "ok" THEN "apply" ELSE "idle"
    BY <1>7 DEF ApplyEntry
  <2>4. o[1] \in {"ok", "fail"} /\ o[2] \subseteq Call
    BY <2>2 DEF Outcomes, TypeOK
  <2>5. AnswerType'
    BY <2>2, <2>3, <2>4, StartAnswerType DEF AnswerType, TypeOK, Answering
  <2>6. \A t \in Answering : ansPc'[t] = "send" => ansPc[t] = "send" /\ ansLog'[t] = ansLog[t]
    BY <2>3 DEF StartAnswer, TypeOK, Answering
  <2>7. applying' = applying + 1 /\ applying' \in Nat /\ applying' > 0
    BY <1>7, <2>1 DEF ApplyEntry
  <2> QED BY <1>7, <2>3, <2>4, <2>5, <2>6, <2>7 DEF ApplyEntry, TypeOK, AnswerType
<1>8. ASSUME SetLastLogIdApplied PROVE TypeInv'
  <2>1. mLogQueue' \in Seq(Call)
    BY <1>8 DEF TypeOK, SetLastLogIdApplied
  <2>2. committed' \in 0..Len(mLogQueue')
    BY <1>8, <2>1 DEF SetLastLogIdApplied
  <2> QED BY <1>8, <2>1, <2>2 DEF TypeOK, SetLastLogIdApplied
<1>9. ASSUME NEW n \in 0..Len(mLogQueue), n >= committed, RemoveLogs(n) PROVE TypeInv'
  <2>1. mLogQueue' \in Seq(Call) /\ Len(mLogQueue') = n
    BY <1>9, Prefix DEF TypeOK, RemoveLogs
  <2>2. committed' \in 0..Len(mLogQueue')
    BY <1>9, <2>1 DEF TypeOK, RemoveLogs
  <2> QED BY <1>9, <2>1, <2>2 DEF TypeOK, RemoveLogs
<1>10. ASSUME NEW r \in Role, MsgChangeRole(r) PROVE TypeInv'
  <2>1. roles' \in 0..MaxRoles
    BY <1>10, ClientAssumption DEF TypeOK, MsgChangeRole
  <2> QED BY <1>10, <2>1 DEF TypeOK, MsgChangeRole
<1>11. ASSUME MsgNotify \/ MainNotify PROVE TypeInv'
  <2>1. mDataSem' \in Nat
    BY <1>11, OneMore DEF TypeOK, MsgNotify, MainNotify, Notify
  <2>2. UNCHANGED <<roleVars, mDataQueue, logVars, callVars, client, dataVars, applying, mainRole,
                    notifying, ansVars, down>>
    BY <1>11 DEF MsgNotify, MainNotify
  <2>3. msgPc' \in {msgPc, "idle"} /\ mainPc' \in {mainPc, "loop"}
    BY <1>11 DEF MsgNotify, MainNotify
  <2>4. TypeOK'
    BY <2>1, <2>2, <2>3 DEF TypeOK
  <2> QED BY <2>2, <2>3, <2>4
<1>12. ASSUME Switch \/ LeaveLoop PROVE TypeInv'
  <2>1. UNCHANGED <<roleVars, queueVars, logVars, callVars, client, dataVars, msgVars, notifying,
                    ansVars, down>>
    BY <1>12 DEF Switch, LeaveLoop
  <2>2. mainPc' \in {"clear", "switch"} /\ mainRole' \in {mRole, mainRole}
    BY <1>12 DEF Switch, LeaveLoop
  <2>3. TypeOK'
    BY <2>1, <2>2 DEF TypeOK
  <2> QED BY <2>1, <2>2, <2>3
<1>13. ASSUME InitClears PROVE TypeInv'
  <2>1. mDataQueue' \in Seq(Call)
    BY <1>13 DEF InitClears
  <2> QED BY <1>13, <2>1 DEF TypeOK, InitClears
<1>14. ASSUME NotifyJimoCall PROVE TypeInv'
  <2>1. CASE notifying <= Len(mLogQueue)
    <3>1. notifying \in 1..Len(mLogQueue)
      BY <1>14, <2>1 DEF TypeOK, NotifyJimoCall
    <3>2. mLogQueue[notifying] \in Call
      BY <3>1 DEF TypeOK
    <3>3. StartAnswer("main", mLogQueue[notifying], "fail")
      BY <1>14, <2>1 DEF NotifyJimoCall
    <3>4. AnswerType'
      BY <3>2, <3>3, StartAnswerType DEF AnswerType, TypeOK, Answering
    <3>5. \A t \in Answering : ansPc'[t] = "send" => ansPc[t] = "send" /\ ansLog'[t] = ansLog[t]
      BY <3>3 DEF StartAnswer, TypeOK, Answering
    <3>6. notifying' \in Nat /\ notifying' > 0
      BY <1>14, <2>1, <3>1 DEF NotifyJimoCall
    <3>7. UNCHANGED <<roleVars, queueVars, logVars, callVars, client, dataVars, msgVars,
                      mainPc, mainRole, down>>
      BY <1>14, <2>1 DEF NotifyJimoCall
    <3>8. TypeOK'
      BY <3>4, <3>6, <3>7 DEF TypeOK, AnswerType
    <3>9. Positions' /\ ResultIsSet'
      BY <3>5, <3>6, <3>7
    <3> QED BY <3>8, <3>9
  <2>2. CASE ~(notifying <= Len(mLogQueue))
    BY <1>14, <2>2 DEF NotifyJimoCall, TypeOK
  <2> QED BY <2>1, <2>2
<1>15. ASSUME BecomeCandidate PROVE TypeInv'
  <2>1. roles' \in 0..MaxRoles
    BY <1>15, ClientAssumption DEF TypeOK, BecomeCandidate
  <2> QED BY <1>15, <2>1 DEF TypeOK, BecomeCandidate, Role
<1>16. CASE UNCHANGED vars
  BY <1>16 DEF TypeOK, vars
<1> QED
  BY <1>1, <1>2, <1>3, <1>4, <1>5, <1>6, <1>7, <1>8, <1>9, <1>10, <1>11, <1>12, <1>13, <1>14,
     <1>15, <1>16, AnswerStepType
  DEF Next, Outside, DataThread, MsgGoesOn, MainGoesOn, Answering

(* Every variable keeps its type: positions are inside the queues they are *)
(* used on, though no lock is held, and only results that were set are     *)
(* sent.                                                                   *)
THEOREM TypeCorrect == SafeSpec => []TypeOK
<1>1. TypeInv => TypeOK
  BY DEF TypeInv
<1> QED BY <1>1, TypeInit, TypeNext, PTL DEF SafeSpec

-------------------------------------------------------------------------------
(* A thread has changed the role and will post mDataSem.                   *)
NotifyPending == msgPc = "notify" \/ mainPc = "notify"

(* A data thread that found another role clears the queue and sleeps only  *)
(* with a post to come, if the server leads by then.                       *)
ClearsWithPost == dataPc = "clear" /\ mRole = "leader" => mDataSem > 0 \/ NotifyPending

Wakeups == ClearsWithPost /\ NoLostWakeup

LEMMA WakeupsNext == TypeInv /\ Wakeups /\ [Next]_vars => Wakeups'
<1> SUFFICES ASSUME TypeInv, Wakeups, [Next]_vars PROVE Wakeups'
  OBVIOUS
<1>0. mDataSem \in Nat /\ client \in [Call -> {"new", "pushed", "posted"}]
  BY DEF TypeInv, TypeOK
<1> USE DEF Wakeups, ClearsWithPost, NoLostWakeup, NotifyPending, PostPending, roleVars, queueVars,
            logVars, callVars, dataVars, msgVars, mainVars, ansVars
<1>1. ASSUME NEW c \in Call, PushData(c) PROVE Wakeups'
  <2>1. client'[c] = "pushed"
    BY <1>0, <1>1 DEF PushData
  <2> QED BY <1>1, <2>1 DEF PushData
<1>2. ASSUME NEW c \in Call, PostData(c) PROVE Wakeups'
  <2>1. mDataSem' > 0
    BY <1>0, <1>2 DEF PostData
  <2> QED BY <2>1
<1>3. ASSUME DataThread PROVE Wakeups'
  <2>1. CASE ClearClientData
    BY <1>0, <2>1 DEF ClearClientData
  <2>2. CASE TestRole \/ DataSemWait \/ LookAtQueue
    BY <2>2 DEF TestRole, DataSemWait, LookAtQueue
  <2>3. CASE Pop \/ AppendLog
    BY <2>3 DEF Pop, AppendLog
  <2> QED BY <1>3, <2>1, <2>2, <2>3 DEF DataThread
<1>4. ASSUME NEW n \in Nat, Commit(n) \/ RemoveLogs(n) PROVE Wakeups'
  BY <1>4 DEF Commit, RemoveLogs, MsgIdle
<1>5. ASSUME NEW r \in Role, MsgChangeRole(r) PROVE Wakeups'
  BY <1>5 DEF MsgChangeRole
<1>6. ASSUME MsgNotify \/ MainNotify PROVE Wakeups'
  <2>1. mDataSem' > 0
    BY <1>0, <1>6 DEF MsgNotify, MainNotify, Notify
  <2> QED BY <2>1
<1>7. ASSUME ApplyEntry \/ SetLastLogIdApplied PROVE Wakeups'
  BY <1>7 DEF ApplyEntry, SetLastLogIdApplied
<1>8. ASSUME NEW t \in Answering, AnswerStep(t) PROVE Wakeups'
  BY <1>8 DEF AnswerStep
<1>9. ASSUME Switch \/ InitClears \/ NotifyJimoCall \/ LeaveLoop PROVE Wakeups'
  BY <1>9 DEF Switch, InitClears, NotifyJimoCall, LeaveLoop
<1>10. ASSUME BecomeCandidate PROVE Wakeups'
  BY <1>10 DEF BecomeCandidate
<1>11. CASE UNCHANGED vars
  BY <1>11 DEF vars
<1>12. Len(mLogQueue) \in Nat
  BY DEF TypeInv, TypeOK
<1> QED
  BY <1>1, <1>2, <1>3, <1>4, <1>5, <1>6, <1>7, <1>8, <1>9, <1>10, <1>11, <1>12
  DEF Next, Outside, MsgGoesOn, MainGoesOn, Answering

(* The data thread of a leader never sleeps on a queue with data unless a  *)
(* post of mDataSem is still to come, wherever calls and role changes fall *)
(* between the steps of dataThreadFunc.                                    *)
THEOREM NoWakeupLost == SafeSpec => []NoLostWakeup
<1>1. Init => Wakeups
  BY DEF Init, Wakeups, ClearsWithPost, NoLostWakeup
<1>2. Wakeups => NoLostWakeup
  BY DEF Wakeups
<1> QED BY <1>1, <1>2, TypeInit, TypeNext, WakeupsNext, PTL DEF SafeSpec

-------------------------------------------------------------------------------
(* "ok" is set in a call only by apply, once the state machine has taken   *)
(* the entry; notifyJimoCall, in the main thread, only ever sets "fail".   *)
OkMeansApplied ==
  /\ \A c \in Call : result[c] = "ok" => c \in applied
  /\ \A t \in Answering :
       ansPc[t] # "none" /\ ansResult[t] = "ok" => ansLog[t][1] \in applied

Answered == OkMeansApplied /\ SuccessMeansApplied

LEMMA AnsweredNext == TypeInv /\ Answered /\ [Next]_vars => Answered'
<1> SUFFICES ASSUME TypeInv, Answered, [Next]_vars PROVE Answered'
  OBVIOUS
<1>0. AnswerType /\ TypeOK
  BY DEF AnswerType, TypeInv, TypeOK
<1>1. ASSUME NEW t \in Answering, AnswerStep(t) PROVE Answered'
  <2>0. /\ ansPc[t] # "none" /\ ansLog[t] \in Seq(Call) /\ Len(ansLog[t]) = 1
        /\ applied' = applied /\ ansResult' = ansResult
    BY <1>0, <1>1 DEF AnswerType, AnswerStep, TestCall, SetResult, SendResp, ForgetCall, logVars
  <2>1. PICK c \in Call : c = ansLog[t][1]
    BY <2>0
  <2>2. \A d \in Call : result'[d] = "ok" => d \in applied
    <3>1. CASE result' = result
      BY <3>1 DEF Answered, OkMeansApplied
    <3>2. CASE result' = [result EXCEPT ![c] = ansResult[t]]
      BY <2>0, <2>1, <3>2, <1>0 DEF Answered, OkMeansApplied, TypeOK
    <3> QED BY <1>1, <2>1, <3>1, <3>2
            DEF AnswerStep, TestCall, SetResult, SendResp, ForgetCall, callVars
  <2>3. ASSUME NEW u \in Answering, ansPc'[u] # "none", ansResult'[u] = "ok"
        PROVE  ansLog'[u][1] \in applied
    <3>1. ansPc[u] # "none" /\ ansLog'[u] = ansLog[u]
      BY <1>0, <1>1, <2>0, <2>3
      DEF AnswerType, AnswerStep, TestCall, SetResult, SendResp, ForgetCall
    <3> QED BY <2>0, <2>3, <3>1 DEF Answered, OkMeansApplied
  <2>4. SuccessMeansApplied'
    <3>1. CASE answers' = answers
      BY <2>0, <3>1 DEF Answered, SuccessMeansApplied, Entries
    <3>2. CASE answers' = [answers EXCEPT ![c] = Append(@, result[c])]
      <4> SUFFICES ASSUME NEW d \in Call, NEW i \in DOMAIN answers'[d], answers'[d][i] = "ok"
                   PROVE  d \in applied
        BY <2>0 DEF SuccessMeansApplied, Entries
      <4>1. CASE d # c
        <5>1. answers'[d] = answers[d]
          BY <1>0, <3>2, <4>1 DEF TypeOK
        <5> QED BY <5>1 DEF Answered, SuccessMeansApplied, Entries
      <4>2. CASE d = c
        <5>1. answers'[d] = Append(answers[d], result[d]) /\ answers[d] \in Seq({"ok", "fail"})
          BY <1>0, <3>2, <4>2 DEF TypeOK
        <5>2. i \in 1..(Len(answers[d]) + 1)
          BY <5>1
        <5>3. CASE i \in 1..Len(answers[d])
          <6>1. answers[d][i] = "ok" /\ i \in DOMAIN answers[d]
            BY <5>1, <5>3
          <6> QED BY <6>1 DEF Answered, SuccessMeansApplied, Entries
        <5>4. CASE i = Len(answers[d]) + 1
          <6>1. result[d] = "ok"
            BY <5>1, <5>4
          <6> QED BY <6>1 DEF Answered, OkMeansApplied
        <5> QED BY <5>1, <5>2, <5>3, <5>4
      <4> QED BY <4>1, <4>2
    <3> QED BY <1>1, <2>1, <3>1, <3>2
            DEF AnswerStep, TestCall, SetResult, SendResp, ForgetCall, callVars
  <2> QED BY <2>0, <2>2, <2>3, <2>4 DEF Answered, OkMeansApplied
<1>2. ASSUME UNCHANGED <<result, answers, ansVars>>, applied \subseteq applied' PROVE Answered'
  BY <1>2 DEF Answered, OkMeansApplied, SuccessMeansApplied, Entries, ansVars
<1>3. ASSUME ApplyEntry PROVE Answered'
  <2>1. PICK o \in Outcomes(mLogQueue[applying]) :
          /\ StartAnswer("msg", mLogQueue[applying], o[1])
          /\ applied' = o[2]
    BY <1>3 DEF ApplyEntry
  <2>2. /\ applied \subseteq applied' /\ UNCHANGED <<result, answers>>
        /\ o[1] = "ok" => mLogQueue[applying] \in applied'
    BY <1>3, <2>1 DEF Outcomes, ApplyEntry, callVars
  <2>3. ASSUME NEW u \in Answering, ansPc'[u] # "none", ansResult'[u] = "ok"
        PROVE  ansLog'[u][1] \in applied'
    <3>1. CASE u = "msg"
      BY <1>0, <2>1, <2>2, <2>3, <3>1 DEF StartAnswer, AnswerType
    <3>2. CASE u # "msg"
      <4>1. ansPc'[u] = ansPc[u] /\ ansLog'[u] = ansLog[u] /\ ansResult'[u] = ansResult[u]
        BY <1>0, <2>1, <3>2 DEF StartAnswer, AnswerType
      <4> QED BY <2>2, <2>3, <4>1 DEF Answered, OkMeansApplied
    <3> QED BY <3>1, <3>2
  <2> QED BY <2>2, <2>3 DEF Answered, OkMeansApplied, SuccessMeansApplied, Entries
<1>4. ASSUME NotifyJimoCall PROVE Answered'
  <2>1. applied' = applied /\ UNCHANGED <<result, answers>>
    BY <1>4 DEF NotifyJimoCall, logVars, callVars
  <2>2. CASE UNCHANGED ansVars
    BY <1>2, <2>1, <2>2
  <2>3. CASE StartAnswer("main", mLogQueue[notifying], "fail")
    <3>1. ASSUME NEW u \in Answering, ansPc'[u] # "none", ansResult'[u] = "ok"
          PROVE  ansLog'[u][1] \in applied
      <4>1. u # "main"
        BY <1>0, <2>3, <3>1 DEF StartAnswer, AnswerType
      <4>2. ansPc'[u] = ansPc[u] /\ ansLog'[u] = ansLog[u] /\ ansResult'[u] = ansResult[u]
        BY <1>0, <2>3, <4>1 DEF StartAnswer, AnswerType
      <4> QED BY <3>1, <4>2 DEF Answered, OkMeansApplied
    <3> QED BY <2>1, <3>1 DEF Answered, OkMeansApplied, SuccessMeansApplied, Entries
  <2> QED BY <1>4, <2>2, <2>3 DEF NotifyJimoCall
<1>5. ASSUME NEW c \in Call, PushData(c) \/ PostData(c) PROVE Answered'
  BY <1>2, <1>5 DEF PushData, PostData, callVars, logVars
<1>6. ASSUME DataThread PROVE Answered'
  BY <1>2, <1>6 DEF DataThread, TestRole, ClearClientData, DataSemWait, LookAtQueue, Pop, AppendLog,
                    callVars, logVars
<1>7. ASSUME NEW n \in Nat, Commit(n) \/ RemoveLogs(n) PROVE Answered'
  BY <1>2, <1>7 DEF Commit, RemoveLogs, callVars
<1>8. ASSUME NEW r \in Role, MsgChangeRole(r) PROVE Answered'
  BY <1>2, <1>8 DEF MsgChangeRole, callVars, logVars
<1>9. ASSUME SetLastLogIdApplied \/ MsgNotify PROVE Answered'
  BY <1>2, <1>9 DEF SetLastLogIdApplied, MsgNotify, callVars, logVars
<1>10. ASSUME Switch \/ InitClears \/ LeaveLoop \/ MainNotify \/ BecomeCandidate PROVE Answered'
  BY <1>2, <1>10 DEF Switch, InitClears, LeaveLoop, MainNotify, BecomeCandidate, callVars, logVars
<1>11. CASE UNCHANGED vars
  BY <1>2, <1>11 DEF vars, callVars, logVars
<1>12. Len(mLogQueue) \in Nat
  BY <1>0 DEF TypeOK
<1> QED
  BY <1>1, <1>3, <1>4, <1>5, <1>6, <1>7, <1>8, <1>9, <1>10, <1>11, <1>12
  DEF Next, Outside, MsgGoesOn, MainGoesOn, Answering

(* A client that is told of success has its data applied, though the main  *)
(* thread may answer the same call at the same time and both write the     *)
(* result into the same call.                                              *)
THEOREM SuccessIsApplied == SafeSpec => []SuccessMeansApplied
<1>1. Init => Answered
  BY DEF Init, Answered, OkMeansApplied, SuccessMeansApplied, Entries
<1>2. Answered => SuccessMeansApplied
  BY DEF Answered
<1> QED BY <1>1, <1>2, TypeInit, TypeNext, AnsweredNext, PTL DEF SafeSpec

===============================================================================
