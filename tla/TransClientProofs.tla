--------------------------- MODULE TransClientProofs ---------------------------
(***************************************************************************)
(* Proofs about TransClient for any transactions, servers and limits.      *)
(***************************************************************************)
EXTENDS TransClient, FiniteSetTheorems, WellFoundedInduction, TLAPS

(* The types of what the proofs use; every death report carries the id of  *)
(* the server the client runs on.                                          *)
WaitTypes ==
  /\ pc \in [Trans -> {"new", "blocked", "waiting", "returned"}]
  /\ mWaitMap \subseteq Trans
  /\ mAckSids \in [Trans -> SUBSET Cube]
  /\ mDeathSids \in [Trans -> SUBSET {Self}]
  /\ respRecved \subseteq Trans
  /\ posts \in [Trans -> Nat]
  /\ respLate \in [Trans -> Nat] /\ deathLate \in [Trans -> Nat]
  /\ master \in Cube
  /\ net \subseteq Req \cup Answer \cup [type : {"death"}, t : Trans, sid : {Self}, of : Cube]

(* Only who asks for a response gets one.                                  *)
RespAsked ==
  /\ \A m \in net : m.type = "resp" => m.t \in NeedResp
  /\ \A t \in Trans : respLate[t] > 0 \/ t \in respRecved => t \in NeedResp

(* A semaphore is posted for what has come, and for nothing else.          *)
PostsTell ==
  \A t \in Trans :
    /\ t \in respRecved => posts[t] > 0
    /\ t \notin NeedResp /\ mAckSids[t] # {} => posts[t] > 0
    /\ t \in NeedResp /\ posts[t] > 0 => t \in respRecved \cup svrDeath
    /\ pc[t] = "returned" => posts[t] > 0

(* What RecvSvrDeath and the others leave a sender that waits.             *)
Known(t) == t \in mWaitMap \/ posts[t] > 0 \/ respLate[t] > 0 \/ deathLate[t] > 0

NoCube == \A t \in Trans : Kind[t] # "cube"

IInv == WaitTypes /\ RespAsked /\ PostsTell

USE TransAssumption

(* An addition to one semaphore or to one counter of late threads.         *)
LEMMA AddOne ==
  ASSUME NEW f \in [Trans -> Nat], NEW t \in Trans, NEW n \in Nat
  PROVE  /\ [f EXCEPT ![t] = @ + n] \in [Trans -> Nat]
         /\ \A u \in Trans : f[u] > 0 => [f EXCEPT ![t] = @ + n][u] > 0
         /\ \A u \in Trans : u # t => [f EXCEPT ![t] = @ + n][u] = f[u]
         /\ n > 0 => [f EXCEPT ![t] = @ + n][t] > 0
OBVIOUS

(* One thread less.                                                        *)
LEMMA TakeOne ==
  ASSUME NEW f \in [Trans -> Nat], NEW t \in Trans, f[t] > 0
  PROVE  /\ [f EXCEPT ![t] = @ - 1] \in [Trans -> Nat]
         /\ \A u \in Trans : u # t => [f EXCEPT ![t] = @ - 1][u] = f[u]
         /\ \A u \in Trans : [f EXCEPT ![t] = @ - 1][u] > 0 => f[u] > 0
OBVIOUS

-------------------------------------------------------------------------------
LEMMA InitInv == Init => IInv
BY DEF Init, IInv, WaitTypes, RespAsked, PostsTell

(* Copies are requests, whatever is sent.                                  *)
LEMMA CopiesAreReq ==
  ASSUME WaitTypes, NEW t \in Trans, NEW known \in BOOLEAN
  PROVE  Copies(t, known) \subseteq Req
<1>1. Targets(t) \subseteq Cube
  <2>1. Kind[t] \in {"saved", "cube", "task"} /\ ToSvr[t] \in Cube /\ master \in Cube
    BY DEF WaitTypes
  <2> QED BY <2>1 DEF Targets
<1> QED BY <1>1 DEF Copies, Req

(* An answer more or less on the way.                                      *)
LEMMA NetKeeps ==
  ASSUME IInv, NEW S, UNCHANGED <<waitVars, transVars, lateVars, pc>>, master' \in Cube,
         S \subseteq Req \cup Answer \cup [type : {"death"}, t : Trans, sid : {Self}, of : Cube],
         \A m \in S : m.type = "resp" => m.t \in NeedResp,
         net' \subseteq net \cup S
  PROVE  IInv'
<1>1. /\ net' \subseteq Req \cup Answer \cup [type : {"death"}, t : Trans, sid : {Self}, of : Cube]
      /\ \A m \in net' : m.type = "resp" => m.t \in NeedResp
  BY DEF IInv, WaitTypes, RespAsked
<1> QED BY <1>1 DEF IInv, WaitTypes, RespAsked, PostsTell, waitVars, transVars, lateVars

LEMMA NetShrinks ==
  ASSUME IInv, UNCHANGED <<waitVars, transVars, lateVars, pc>>, master' \in Cube,
         net' \subseteq net
  PROVE  IInv'
<1>1. /\ net' \subseteq Req \cup Answer \cup [type : {"death"}, t : Trans, sid : {Self}, of : Cube]
      /\ \A m \in net' : m.type = "resp" => m.t \in NeedResp
  BY DEF IInv, WaitTypes, RespAsked
<1> QED BY <1>1 DEF IInv, WaitTypes, RespAsked, PostsTell, waitVars, transVars, lateVars

LEMMA SenderInv == ASSUME IInv, NEW t \in Trans, Sender(t) PROVE IInv'
<1>0. WaitTypes /\ RespAsked /\ PostsTell
  BY DEF IInv
<1>1. CASE SendTrans(t)
  <2>1. Copies(t, FALSE) \subseteq Req
    BY <1>0, CopiesAreReq
  <2>2. \A m \in Copies(t, FALSE) : m.type = "req"
    BY DEF Copies
  <2>3. /\ mWaitMap' = mWaitMap \cup {t} /\ mAckSids' = mAckSids /\ mDeathSids' = mDeathSids
        /\ net' = net \cup Copies(t, FALSE)
        /\ pc' = [pc EXCEPT ![t] = "waiting"]
        /\ UNCHANGED <<transVars, lateVars, groupVars>>
    BY <1>1 DEF SendTrans, AddToWaitQueue
  <2>4. WaitTypes'
    BY <1>0, <2>1, <2>3 DEF WaitTypes, transVars, lateVars, groupVars
  <2>5. RespAsked'
    BY <1>0, <2>2, <2>3 DEF RespAsked, transVars, lateVars
  <2>6. PostsTell'
    BY <1>0, <2>3 DEF PostsTell, WaitTypes, transVars
  <2> QED BY <2>4, <2>5, <2>6 DEF IInv
<1>2. CASE WaitForRoom(t)
  BY <1>0, <1>2 DEF IInv, WaitTypes, RespAsked, PostsTell, WaitForRoom, sendVars, waitVars,
                    transVars, lateVars, groupVars
<1>3. CASE WaitReturns(t)
  BY <1>0, <1>3 DEF IInv, WaitTypes, RespAsked, PostsTell, WaitReturns, sendVars, waitVars,
                    transVars, lateVars, groupVars
<1> QED BY <1>1, <1>2, <1>3 DEF Sender

(* What a message that is on its way carries.                              *)
LEMMA OnTheWay ==
  ASSUME WaitTypes, NEW m \in net
  PROVE  /\ m.t \in Trans
         /\ m.type \in {"req", "ack", "resp"} => m.sid \in Cube
         /\ m.type = "death" => m.sid = Self /\ m.of \in Cube
BY DEF WaitTypes, Req, Answer

LEMMA RecvRespInv == ASSUME IInv, NEW m \in net, RecvResp(m) PROVE IInv'
<1>0. WaitTypes /\ RespAsked /\ PostsTell
  BY DEF IInv
<1>1. CASE m.t \notin mWaitMap
  <2>1. UNCHANGED <<waitVars, transVars, lateVars, pc, master>> /\ net' \subseteq net
    BY <1>1 DEF RecvResp, Ignored, Taken, sendVars, groupVars
  <2>2. master' \in Cube
    BY <1>0, <2>1 DEF WaitTypes
  <2> QED BY <2>1, <2>2, NetShrinks
<1>2. CASE m.t \in mWaitMap
  <2>1. /\ mAckSids' = [mAckSids EXCEPT ![m.t] = @ \cup {m.sid}]
        /\ mDeathSids' = [mDeathSids EXCEPT ![m.t] = @ \ {m.sid}]
        /\ mWaitMap' \subseteq mWaitMap
        /\ respLate' = [respLate EXCEPT ![m.t] = @ + 1]
        /\ UNCHANGED <<pc, transVars, deathLate, master>>
        /\ net' = net \ {m}
    BY <1>2 DEF RecvResp, AddAck, KeepOrRemove, RemoveFromWaitQueue, Taken, sendVars, groupVars
  <2>2. m.type = "resp" /\ m.t \in Trans /\ m.sid \in Cube /\ m.t \in NeedResp
    BY <1>0, OnTheWay DEF RecvResp, RespAsked
  <2>3. WaitTypes'
    BY <1>0, <2>1, <2>2 DEF WaitTypes, transVars
  <2>4. RespAsked'
    BY <1>0, <2>1, <2>2 DEF RespAsked, WaitTypes, transVars
  <2>5. PostsTell'
    BY <1>0, <2>1, <2>2 DEF PostsTell, WaitTypes, transVars
  <2> QED BY <2>3, <2>4, <2>5 DEF IInv
<1> QED BY <1>1, <1>2

LEMMA RecvAckInv == ASSUME IInv, NEW m \in net, RecvAck(m) PROVE IInv'
<1>0. WaitTypes /\ RespAsked /\ PostsTell
  BY DEF IInv
<1>1. CASE m.t \notin mWaitMap
  <2>1. UNCHANGED <<waitVars, transVars, lateVars, pc, master>> /\ net' \subseteq net
    BY <1>1 DEF RecvAck, Ignored, Taken, sendVars, groupVars
  <2>2. master' \in Cube
    BY <1>0, <2>1 DEF WaitTypes
  <2> QED BY <2>1, <2>2, NetShrinks
<1>2. CASE m.t \in mWaitMap
  <2>1. /\ mAckSids' = [mAckSids EXCEPT ![m.t] = @ \cup {m.sid}]
        /\ mDeathSids' = [mDeathSids EXCEPT ![m.t] = @ \ {m.sid}]
        /\ mWaitMap' \subseteq mWaitMap
        /\ posts' = IF m.t \in NeedResp THEN posts ELSE [posts EXCEPT ![m.t] = @ + 1]
        /\ UNCHANGED <<pc, respRecved, svrDeath, respLate, deathLate, master>>
        /\ net' = net \ {m}
    BY <1>2 DEF RecvAck, AddAck, KeepOrRemove, RemoveFromWaitQueue, Taken, AckPosts, PostSem,
                sendVars, groupVars, lateVars
  <2>2. m.type = "ack" /\ m.t \in Trans /\ m.sid \in Cube
    BY <1>0, OnTheWay DEF RecvAck
  <2>3. /\ posts' \in [Trans -> Nat]
        /\ \A u \in Trans : posts[u] > 0 => posts'[u] > 0
        /\ \A u \in Trans : u # m.t \/ u \in NeedResp => posts'[u] = posts[u]
        /\ m.t \notin NeedResp => posts'[m.t] > 0
    BY <1>0, <2>1, <2>2, AddOne DEF WaitTypes
  <2>4. WaitTypes'
    BY <1>0, <2>1, <2>2, <2>3 DEF WaitTypes
  <2>5. RespAsked'
    BY <1>0, <2>1 DEF RespAsked
  <2>6. PostsTell'
    BY <1>0, <2>1, <2>2, <2>3 DEF PostsTell, WaitTypes
  <2> QED BY <2>4, <2>5, <2>6 DEF IInv
<1> QED BY <1>1, <1>2

LEMMA RecvSvrDeathInv == ASSUME IInv, NEW m \in net, RecvSvrDeath(m) PROVE IInv'
<1>0. WaitTypes /\ RespAsked /\ PostsTell
  BY DEF IInv
<1>1. CASE m.t \notin mWaitMap
  <2>1. UNCHANGED <<waitVars, transVars, lateVars, pc, master>> /\ net' \subseteq net
    BY <1>1 DEF RecvSvrDeath, Ignored, Taken, sendVars, groupVars
  <2>2. master' \in Cube
    BY <1>0, <2>1 DEF WaitTypes
  <2> QED BY <2>1, <2>2, NetShrinks
<1>2. CASE m.t \in mWaitMap
  <2>1. /\ mDeathSids' = [mDeathSids EXCEPT ![m.t] = @ \cup {m.sid}]
        /\ mAckSids' = [mAckSids EXCEPT ![m.t] = @ \ {m.sid}]
        /\ mWaitMap' \subseteq mWaitMap
        /\ deathLate' = [deathLate EXCEPT ![m.t] = @ + IF GivesUp(m.t) THEN 1 ELSE 0]
        /\ UNCHANGED <<pc, transVars, respLate, master>>
        /\ net' = net \ {m}
    BY <1>2 DEF RecvSvrDeath, AddDeathSvr, KeepOrRemove, RemoveFromWaitQueue, Taken, sendVars,
                groupVars
  <2>2. m.type = "death" /\ m.t \in Trans /\ m.sid = Self
    BY <1>0, OnTheWay DEF RecvSvrDeath
  <2>3. deathLate' \in [Trans -> Nat]
    BY <1>0, <2>1, <2>2, AddOne DEF WaitTypes
  <2>4. WaitTypes'
    BY <1>0, <2>1, <2>2, <2>3 DEF WaitTypes, transVars
  <2>5. RespAsked'
    BY <1>0, <2>1 DEF RespAsked, transVars
  <2>6. PostsTell'
    BY <1>0, <2>1, <2>2 DEF PostsTell, WaitTypes, transVars
  <2> QED BY <2>4, <2>5, <2>6 DEF IInv
<1> QED BY <1>1, <1>2

LEMMA FinishInv == ASSUME IInv, NEW t \in Trans, Finish(t) PROVE IInv'
<1>0. WaitTypes /\ RespAsked /\ PostsTell
  BY DEF IInv
<1>1. CASE RespRecved(t)
  <2>1. t \in NeedResp /\ respLate[t] > 0
    BY <1>0, <1>1 DEF RespRecved, RespAsked
  <2>2. /\ respLate' = [respLate EXCEPT ![t] = @ - 1]
        /\ respRecved' = respRecved \cup {t} /\ posts' = [posts EXCEPT ![t] = @ + 1]
        /\ UNCHANGED <<pc, mWaitMap, mAckSids, mDeathSids, svrDeath, deathLate, net, master>>
    BY <1>1, <2>1 DEF RespRecved, PostSem, sendVars, waitVars, groupVars
  <2>3. /\ posts' \in [Trans -> Nat]
        /\ \A u \in Trans : posts[u] > 0 => posts'[u] > 0
        /\ \A u \in Trans : u # t => posts'[u] = posts[u]
        /\ posts'[t] > 0
    BY <1>0, <2>2, AddOne DEF WaitTypes
  <2>4. /\ respLate' \in [Trans -> Nat]
        /\ \A u \in Trans : respLate'[u] > 0 => respLate[u] > 0
    BY <1>0, <2>1, <2>2, TakeOne DEF WaitTypes
  <2>5. WaitTypes'
    BY <1>0, <2>2, <2>3, <2>4 DEF WaitTypes
  <2>6. RespAsked'
    BY <1>0, <2>1, <2>2, <2>4 DEF RespAsked
  <2>7. PostsTell'
    BY <1>0, <2>1, <2>2, <2>3 DEF PostsTell
  <2> QED BY <2>5, <2>6, <2>7 DEF IInv
<1>2. CASE SetSvrDeath(t)
  <2>2. /\ deathLate[t] > 0 /\ deathLate' = [deathLate EXCEPT ![t] = @ - 1]
        /\ svrDeath' = svrDeath \cup {t} /\ posts' = [posts EXCEPT ![t] = @ + 1]
        /\ UNCHANGED <<pc, mWaitMap, mAckSids, mDeathSids, respRecved, respLate, net, master>>
    BY <1>2 DEF SetSvrDeath, PostSem, sendVars, waitVars, groupVars
  <2>3. /\ posts' \in [Trans -> Nat]
        /\ \A u \in Trans : posts[u] > 0 => posts'[u] > 0
        /\ \A u \in Trans : u # t => posts'[u] = posts[u]
        /\ posts'[t] > 0
    BY <1>0, <2>2, AddOne DEF WaitTypes
  <2>4. deathLate' \in [Trans -> Nat]
    BY <1>0, <2>2, TakeOne DEF WaitTypes
  <2>5. WaitTypes'
    BY <1>0, <2>2, <2>3, <2>4 DEF WaitTypes
  <2>6. RespAsked'
    BY <1>0, <2>2 DEF RespAsked
  <2>7. PostsTell'
    BY <1>0, <2>2, <2>3 DEF PostsTell
  <2> QED BY <2>5, <2>6, <2>7 DEF IInv
<1> QED BY <1>1, <1>2 DEF Finish

LEMMA ServersInv ==
  ASSUME IInv, \/ \E m \in net : Serve(m) \/ Report(m)
               \/ ResendAllTrans \/ Resend \/ \E s \in Cube : SvrDies(s)
  PROVE  IInv'
<1>0. WaitTypes /\ RespAsked /\ master \in Cube
  BY DEF IInv, WaitTypes
<1>1. ASSUME NEW m \in net, Serve(m) PROVE IInv'
  <2> DEFINE S == {[type |-> k, t |-> m.t, sid |-> m.sid] :
                     k \in {"ack"} \cup IF Responds(m) THEN {"resp"} ELSE {}}
  <2>1. m.t \in Trans /\ m.sid \in Cube
    BY <1>0, <1>1, OnTheWay DEF Serve
  <2>2. /\ S \subseteq Answer
        /\ \A n \in S : n.type = "resp" => n.t \in NeedResp
    BY <2>1 DEF Answer, Responds
  <2>3. /\ UNCHANGED <<waitVars, transVars, lateVars, pc, master>>
        /\ net' \subseteq net \cup S
    BY <1>1 DEF Serve, sendVars, groupVars
  <2> HIDE DEF S
  <2> QED BY <1>0, <2>2, <2>3, NetKeeps
<1>2. ASSUME NEW m \in net, Report(m) PROVE IInv'
  <2> DEFINE S == {[type |-> "death", t |-> m.t, sid |-> Self, of |-> m.sid]}
  <2>1. m.t \in Trans /\ m.sid \in Cube
    BY <1>0, <1>2, OnTheWay DEF Report
  <2>2. /\ S \subseteq [type : {"death"}, t : Trans, sid : {Self}, of : Cube]
        /\ \A n \in S : n.type # "resp"
    BY <2>1
  <2>3. /\ UNCHANGED <<waitVars, transVars, lateVars, pc, master>>
        /\ net' \subseteq net \cup S
    BY <1>2 DEF Report, sendVars, groupVars
  <2> HIDE DEF S
  <2> QED BY <1>0, <2>2, <2>3, NetKeeps
<1>3. CASE ResendAllTrans
  <2> DEFINE S == UNION {Copies(t, t \in respRecved) : t \in mWaitMap}
  <2>1. S \subseteq Req
    <3>1. \A t \in mWaitMap : t \in Trans /\ (t \in respRecved) \in BOOLEAN
      BY <1>0 DEF WaitTypes
    <3>2. ASSUME NEW t \in mWaitMap PROVE Copies(t, t \in respRecved) \subseteq Req
      BY <1>0, <3>1, CopiesAreReq
    <3> QED BY <3>2
  <2>2. \A n \in S : n.type # "resp"
    BY <2>1 DEF Req
  <2>3. /\ UNCHANGED <<waitVars, transVars, lateVars, pc, master>>
        /\ net' \subseteq net \cup S
    BY <1>3 DEF ResendAllTrans, sendVars, groupVars
  <2> HIDE DEF S
  <2> QED BY <1>0, <2>1, <2>2, <2>3, NetKeeps
<1>4. CASE Resend
  BY <1>0, <1>4, NetShrinks DEF Resend, TriggerResend
<1>5. ASSUME NEW s \in Cube, SvrDies(s) PROVE IInv'
  BY <1>0, <1>5, NetShrinks DEF SvrDies, sendVars
<1> QED BY <1>1, <1>2, <1>3, <1>4, <1>5

LEMMA StepInv == IInv /\ [Next]_vars => IInv'
<1> SUFFICES ASSUME IInv, [Next]_vars PROVE IInv'
  OBVIOUS
<1>1. CASE UNCHANGED vars
  BY <1>1, NetShrinks DEF vars, sendVars, groupVars, IInv, WaitTypes
<1>2. ASSUME NEW m \in net, Receive(m) PROVE IInv'
  BY <1>2, RecvRespInv, RecvAckInv, RecvSvrDeathInv, ServersInv DEF Receive
<1>3. ASSUME NEW t \in Trans, Sender(t) \/ Finish(t) PROVE IInv'
  BY <1>3, SenderInv, FinishInv
<1> QED BY <1>1, <1>2, <1>3, ServersInv DEF Next

LEMMA Invariance == SafeSpec => []IInv
BY InitInv, StepInv, PTL DEF SafeSpec

(* Who returns from waitResp has the response or knows of its server's     *)
(* death, with any number of senders, servers, copies and answers          *)
(* (sendTrans, recvAck, recvResp, recvSvrDeath).                           *)
THEOREM RespIsThere == SafeSpec => []ReturnsWithResp
<1>1. IInv => ReturnsWithResp
  BY DEF IInv, WaitTypes, PostsTell, ReturnsWithResp
<1> QED BY <1>1, Invariance, PTL

-------------------------------------------------------------------------------
(* The cardinalities that AosWaitInfo compares.  A death report names the  *)
(* client's own server, so mDeathSids never holds two.                     *)
LEMMA DeathsOne ==
  ASSUME NEW D \in SUBSET {Self}
  PROVE  Cardinality(D) \in {0, 1} /\ (D # {} => Cardinality(D) = 1)
<1>1. D = {} \/ D = {Self}
  OBVIOUS
<1>2. Cardinality({}) = 0 /\ Cardinality({Self}) = 1
  BY FS_EmptySet, FS_Singleton
<1> QED BY <1>1, <1>2

(* When nobody has acknowledged a transaction that is not sent to the      *)
(* master of the cube, complete means that all its servers are dead.       *)
LEMMA NoAckAllDead ==
  ASSUME NoCube, NEW t \in Trans, NEW D \in SUBSET {Self}, AckFinish({}, D, t)
  PROVE  AllSvrDeath(D, t)
<1>1. Cardinality({}) = 0 /\ Cardinality(Cube) \in Nat /\ Cardinality(Cube) # 0
  BY FS_EmptySet, FS_CardinalityType
<1>2. NeedAckNum(t) = BkpSvrNum(t) /\ NeedAckNum(t) \in Nat /\ NeedAckNum(t) > 0
  <2>1. Kind[t] = "saved" \/ Kind[t] = "task"
    BY DEF NoCube
  <2> QED BY <1>1, <2>1 DEF NeedAckNum, BkpSvrNum
<1>3. Cardinality(D) \in {0, 1} /\ 0 + Cardinality(D) >= NeedAckNum(t)
  BY <1>1, DeathsOne DEF AckFinish
<1> QED BY <1>2, <1>3 DEF AllSvrDeath

(* The senders that wait are known after every handler.                    *)
LEMMA KnownAck ==
  ASSUME IInv, NEW m \in net, RecvResp(m) \/ RecvAck(m), NEW t \in Trans, Known(t)
  PROVE  Known(t)'
<1>0. WaitTypes /\ RespAsked /\ PostsTell /\ m.t \in Trans
  BY OnTheWay DEF IInv
<1>1. CASE m.t \notin mWaitMap
  BY <1>1 DEF RecvResp, RecvAck, Ignored, waitVars, transVars, lateVars, Known
<1>2. CASE m.t \in mWaitMap /\ RecvResp(m)
  <2>1. /\ mWaitMap' = mWaitMap \/ mWaitMap' = mWaitMap \ {m.t}
        /\ respLate' = [respLate EXCEPT ![m.t] = @ + 1]
        /\ UNCHANGED <<posts, deathLate>>
    BY <1>2 DEF RecvResp, KeepOrRemove, RemoveFromWaitQueue, transVars
  <2>2. /\ \A u \in Trans : respLate[u] > 0 => respLate'[u] > 0
        /\ respLate'[m.t] > 0
    BY <1>0, <2>1, AddOne DEF WaitTypes
  <2> QED BY <2>1, <2>2 DEF Known
<1>3. CASE m.t \in mWaitMap /\ RecvAck(m)
  <2>1. /\ mWaitMap' = mWaitMap \/ (/\ mWaitMap' = mWaitMap \ {m.t}
                                    /\ m.t \in NeedResp => m.t \in respRecved)
        /\ posts' = IF m.t \in NeedResp THEN posts ELSE [posts EXCEPT ![m.t] = @ + 1]
        /\ UNCHANGED <<respLate, deathLate>>
    BY <1>3 DEF RecvAck, KeepOrRemove, RemoveFromWaitQueue, AckPosts, PostSem, lateVars
  <2>2. /\ \A u \in Trans : posts[u] > 0 => posts'[u] > 0
        /\ m.t \notin NeedResp => posts'[m.t] > 0
    BY <1>0, <2>1, AddOne DEF WaitTypes
  <2>3. m.t \in respRecved => posts[m.t] > 0
    BY <1>0 DEF PostsTell
  <2> QED BY <2>1, <2>2, <2>3 DEF Known
<1> QED BY <1>1, <1>2, <1>3

LEMMA KnownDeath ==
  ASSUME NoCube, IInv, NEW m \in net, RecvSvrDeath(m), NEW t \in Trans, Known(t)
  PROVE  Known(t)'
<1>0. WaitTypes /\ RespAsked /\ PostsTell /\ m.t \in Trans /\ m.sid = Self
  BY OnTheWay DEF IInv, RecvSvrDeath
<1>1. CASE m.t \notin mWaitMap
  BY <1>1 DEF RecvSvrDeath, Ignored, waitVars, transVars, lateVars, Known
<1>2. CASE m.t \in mWaitMap
  <2>1. /\ mAckSids'[m.t] = mAckSids[m.t] \ {Self}
        /\ mDeathSids'[m.t] = mDeathSids[m.t] \cup {Self}
        /\ mWaitMap' = mWaitMap \/ (mWaitMap' = mWaitMap \ {m.t} /\ DropsOnDeath(m.t))
        /\ deathLate' = [deathLate EXCEPT ![m.t] = @ + IF GivesUp(m.t) THEN 1 ELSE 0]
        /\ UNCHANGED <<posts, respLate>>
    BY <1>0, <1>2 DEF RecvSvrDeath, AddDeathSvr, KeepOrRemove, RemoveFromWaitQueue, transVars,
                      WaitTypes
  <2>2. /\ \A u \in Trans : deathLate[u] > 0 => deathLate'[u] > 0
        /\ GivesUp(m.t) => deathLate'[m.t] > 0
    <3>1. CASE GivesUp(m.t)
      BY <1>0, <2>1, <3>1, AddOne DEF WaitTypes
    <3>2. CASE ~GivesUp(m.t)
      BY <1>0, <2>1, <3>2, AddOne DEF WaitTypes
    <3> QED BY <3>1, <3>2
  <2>3. DropsOnDeath(m.t) => posts[m.t] > 0 \/ GivesUp(m.t)
    <3> SUFFICES ASSUME DropsOnDeath(m.t) PROVE posts[m.t] > 0 \/ GivesUp(m.t)
      OBVIOUS
    <3>1. CASE m.t \in NeedResp
      <4>1. m.t \in respRecved => posts[m.t] > 0
        BY <1>0 DEF PostsTell
      <4> QED BY <3>1, <4>1 DEF DropsOnDeath, GivesUp
    <3>2. CASE m.t \notin NeedResp /\ mAckSids[m.t] # {}
      BY <1>0, <3>2 DEF PostsTell
    <3>3. CASE m.t \notin NeedResp /\ mAckSids[m.t] = {}
      <4>1. mAckSids'[m.t] = {} /\ mDeathSids'[m.t] \in SUBSET {Self}
        BY <1>0, <2>1, <3>3 DEF WaitTypes
      <4>2. AckFinish({}, mDeathSids'[m.t], m.t)
        BY <4>1 DEF DropsOnDeath, AckFinished
      <4>3. AllSvrDeath(mDeathSids'[m.t], m.t)
        BY <1>0, <4>1, <4>2, NoAckAllDead
      <4> QED BY <3>3, <4>3 DEF GivesUp
    <3> QED BY <3>1, <3>2, <3>3
  <2> QED BY <2>1, <2>2, <2>3 DEF Known
<1> QED BY <1>1, <1>2

LEMMA KnownFinish ==
  ASSUME IInv, NEW f \in Trans, Finish(f), NEW t \in Trans, Known(t)
  PROVE  Known(t)'
<1>0. WaitTypes /\ RespAsked
  BY DEF IInv
<1>1. /\ mWaitMap' = mWaitMap /\ posts' = [posts EXCEPT ![f] = @ + 1]
      /\ \/ respLate' = [respLate EXCEPT ![f] = @ - 1] /\ deathLate' = deathLate
         \/ deathLate' = [deathLate EXCEPT ![f] = @ - 1] /\ respLate' = respLate
  BY <1>0 DEF Finish, RespRecved, SetSvrDeath, PostSem, waitVars, RespAsked
<1>2. posts'[f] > 0 /\ (posts[t] > 0 => posts'[t] > 0)
  BY <1>0, <1>1, AddOne DEF WaitTypes
<1>3. t # f => respLate'[t] = respLate[t] /\ deathLate'[t] = deathLate[t]
  BY <1>0, <1>1 DEF WaitTypes
<1> QED BY <1>1, <1>2, <1>3 DEF Known

LEMMA KnownStep ==
  ASSUME NoCube PROVE IInv /\ WaiterIsKnown /\ [Next]_vars => WaiterIsKnown'
<1> SUFFICES ASSUME IInv, WaiterIsKnown, [Next]_vars, NEW t \in Trans, pc'[t] = "waiting"
             PROVE  Known(t)'
  BY DEF WaiterIsKnown, Known
<1>0. WaitTypes /\ (pc[t] = "waiting" => Known(t))
  BY DEF IInv, WaiterIsKnown, Known
<1>1. ASSUME NEW s \in Trans, Sender(s) PROVE Known(t)'
  <2>1. CASE SendTrans(s)
    <3>1. /\ mWaitMap' = mWaitMap \cup {s} /\ pc' = [pc EXCEPT ![s] = "waiting"]
          /\ UNCHANGED <<posts, respLate, deathLate>>
      BY <2>1 DEF SendTrans, AddToWaitQueue, transVars, lateVars
    <3> QED BY <1>0, <3>1 DEF Known, WaitTypes
  <2>2. CASE WaitForRoom(s) \/ WaitReturns(s)
    <3>1. /\ pc[t] = "waiting" /\ UNCHANGED <<waitVars, transVars, lateVars>>
      BY <1>0, <2>2 DEF WaitForRoom, WaitReturns, WaitTypes
    <3> QED BY <1>0, <3>1 DEF Known, waitVars, transVars, lateVars
  <2> QED BY <1>1, <2>1, <2>2 DEF Sender
<1>2. CASE pc' = pc /\ UNCHANGED <<waitVars, transVars, lateVars>>
  BY <1>0, <1>2 DEF Known, waitVars, transVars, lateVars
<1>3. ASSUME NEW f \in Trans, Finish(f) PROVE Known(t)'
  <2>1. pc' = pc
    BY <1>3 DEF Finish, RespRecved, SetSvrDeath, sendVars
  <2> QED BY <1>0, <1>3, <2>1, KnownFinish
<1>4. ASSUME NEW m \in net, RecvResp(m) \/ RecvAck(m) \/ RecvSvrDeath(m) PROVE Known(t)'
  <2>1. pc' = pc
    BY <1>4 DEF RecvResp, RecvAck, RecvSvrDeath, sendVars
  <2> QED BY <1>0, <1>4, <2>1, KnownAck, KnownDeath
<1>5. ASSUME NEW m \in net, Serve(m) \/ Report(m) PROVE Known(t)'
  BY <1>2, <1>5 DEF Serve, Report, sendVars
<1>6. CASE ResendAllTrans \/ Resend \/ \E s \in Cube : SvrDies(s)
  BY <1>2, <1>6 DEF ResendAllTrans, Resend, SvrDies, sendVars
<1>7. CASE UNCHANGED vars
  BY <1>2, <1>7 DEF vars, sendVars
<1> QED BY <1>1, <1>3, <1>4, <1>5, <1>6, <1>7 DEF Next, Receive

(* A sender that waits can still be woken, while no transaction is sent to *)
(* the master of the cube: for those, one death report makes the           *)
(* acknowledgements complete and tells nobody (recvSvrDeath).              *)
THEOREM WaitersStayKnown == ASSUME NoCube PROVE SafeSpec => []WaiterIsKnown
<1>1. Init => WaiterIsKnown
  BY DEF Init, WaiterIsKnown
<1>2. IInv /\ WaiterIsKnown /\ [Next]_vars => WaiterIsKnown'
  BY KnownStep
<1> QED BY <1>1, <1>2, Invariance, PTL DEF SafeSpec

-------------------------------------------------------------------------------
(***************************************************************************)
(* The sum of the sizes of some transactions, which the library computes   *)
(* one by one in an order left open: it does not depend on the order.      *)
(* Where the library's induction theorems would be cited, a smallest set   *)
(* of transactions that is against the claim is looked at.                 *)
(***************************************************************************)
Total(U) == MapThenSumSet(LAMBDA t : Size[t], U)

IsSum(f, S) == /\ f \in [SUBSET S -> Nat] /\ f[{}] = 0
               /\ \A U \in SUBSET S : \A t \in U : f[U] = Size[t] + f[U \ {t}]

OneByOne(f, S) ==
  [U \in SUBSET S |-> IF U = {} THEN 0
                      ELSE Size[CHOOSE t \in U : TRUE] + f[U \ {CHOOSE t \in U : TRUE}]]

(* Of some sets of transactions one has no smaller one among them.         *)
LEMMA SmallestSet ==
  ASSUME NEW Sets \in SUBSET SUBSET Trans, Sets # {}
  PROVE  \E M \in Sets : \A t \in M : M \ {t} \notin Sets
<1>1. IsWellFoundedOn(StrictSubsetOrdering(Trans), FiniteSubsetsOf(Trans))
  BY FS_StrictSubsetOrderingWellFounded
<1>2. Sets \subseteq FiniteSubsetsOf(Trans)
  BY FS_FiniteSubsetsOfFinite
<1>3. PICK M \in Sets : \A L \in Sets : ~ (<<L, M>> \in StrictSubsetOrdering(Trans))
  BY <1>1, <1>2, WFMin
<1>4. ASSUME NEW t \in M, M \ {t} \in Sets PROVE FALSE
  <2>1. <<M \ {t}, M>> \in StrictSubsetOrdering(Trans)
    BY <1>4 DEF StrictSubsetOrdering
  <2> QED BY <1>3, <1>4, <2>1
<1> QED BY <1>4

LEMMA SumGrows ==
  ASSUME NEW S \in SUBSET Trans, NEW t \in Trans \ S, NEW f, IsSum(f, S)
  PROVE  \E g : IsSum(g, S \cup {t})
<1> DEFINE g == [U \in SUBSET (S \cup {t}) |-> IF t \in U THEN Size[t] + f[U \ {t}] ELSE f[U]]
<1>1. /\ f \in [SUBSET S -> Nat] /\ f[{}] = 0
      /\ \A U \in SUBSET S : \A u \in U : f[U] = Size[u] + f[U \ {u}]
  BY DEF IsSum
<1>2. g \in [SUBSET (S \cup {t}) -> Nat]
  <2>1. ASSUME NEW U \in SUBSET (S \cup {t})
        PROVE  (IF t \in U THEN Size[t] + f[U \ {t}] ELSE f[U]) \in Nat
    <3>1. CASE t \in U
      <4>1. U \ {t} \in SUBSET S
        OBVIOUS
      <4>2. f[U \ {t}] \in Nat /\ Size[t] \in Nat
        BY <1>1, <4>1
      <4> QED BY <3>1, <4>2
    <3>2. CASE t \notin U
      <4>1. U \in SUBSET S
        BY <3>2
      <4>2. f[U] \in Nat
        BY <1>1, <4>1
      <4> QED BY <3>2, <4>2
    <3> QED BY <3>1, <3>2
  <2> QED BY <2>1
<1>3. g[{}] = 0
  BY <1>1
<1>4. ASSUME NEW U \in SUBSET (S \cup {t}), NEW u \in U
      PROVE  g[U] = Size[u] + g[U \ {u}]
  <2>1. CASE t \notin U
    <3>1. U \in SUBSET S /\ t \notin U \ {u}
      BY <2>1
    <3>2. g[U] = f[U] /\ g[U \ {u}] = f[U \ {u}]
      BY <2>1, <3>1
    <3> QED BY <1>1, <3>1, <3>2
  <2>2. CASE u = t
    <3>1. g[U] = Size[t] + f[U \ {t}] /\ g[U \ {t}] = f[U \ {t}]
      BY <2>2
    <3> QED BY <2>2, <3>1
  <2>3. CASE t \in U /\ u # t
    <3> DEFINE V == U \ {t}
    <3>1. V \in SUBSET S /\ u \in V /\ V \ {u} \in SUBSET S /\ (U \ {u}) \ {t} = V \ {u}
      BY <2>3
    <3>2. g[U] = Size[t] + f[V] /\ g[U \ {u}] = Size[t] + f[V \ {u}]
      BY <2>3, <3>1
    <3> HIDE DEF V
    <3>3. f[V] = Size[u] + f[V \ {u}] /\ f[V \ {u}] \in Nat
      BY <1>1, <3>1
    <3>4. Size[u] \in Nat /\ Size[t] \in Nat
      <4>1. u \in Trans
        OBVIOUS
      <4> QED BY <4>1
    <3> HIDE DEF g
    <3> QED BY <3>2, <3>3, <3>4
  <2> QED BY <2>1, <2>2, <2>3
<1> HIDE DEF g
<1> QED BY <1>2, <1>3, <1>4 DEF IsSum

LEMMA SumExists == \E f : IsSum(f, Trans)
<1> DEFINE Bad == {S \in SUBSET Trans : ~\E f : IsSum(f, S)}
<1>1. SUFFICES ASSUME Bad # {} PROVE FALSE
  OBVIOUS
<1>2. PICK M \in Bad : \A t \in M : M \ {t} \notin Bad
  BY <1>1, SmallestSet
<1>3. M \in SUBSET Trans /\ ~\E f : IsSum(f, M)
  OBVIOUS
<1>4. CASE M = {}
  <2>1. IsSum([U \in SUBSET {} |-> 0], {})
    BY DEF IsSum
  <2> QED BY <1>3, <1>4, <2>1
<1>5. CASE M # {}
  <2>1. PICK t \in M : TRUE
    BY <1>5
  <2>2. M \ {t} \in SUBSET Trans /\ M \ {t} \notin Bad /\ (M \ {t}) \cup {t} = M
    BY <1>2, <1>3
  <2>3. PICK f : IsSum(f, M \ {t})
    BY <2>2
  <2>4. t \in Trans \ (M \ {t})
    BY <1>3
  <2> DEFINE S == M \ {t}
  <2>5. S \in SUBSET Trans /\ t \in Trans \ S /\ IsSum(f, S) /\ S \cup {t} = M
    BY <2>2, <2>3, <2>4
  <2> HIDE DEF S
  <2>6. \E g : IsSum(g, S \cup {t})
    BY <2>5, SumGrows
  <2> QED BY <1>3, <2>5, <2>6
<1> QED BY <1>4, <1>5

LEMMA TotalIsSum ==
  ASSUME NEW f, IsSum(f, Trans), NEW S \in SUBSET Trans
  PROVE  Total(S) = f[S]
<1>1. /\ f \in [SUBSET Trans -> Nat] /\ f[{}] = 0
      /\ \A U \in SUBSET Trans : \A t \in U : f[U] = Size[t] + f[U \ {t}]
  BY DEF IsSum
<1> DEFINE h == CHOOSE g : g = OneByOne(g, S)
<1>2. h = OneByOne(h, S)
  <2> DEFINE g == [U \in SUBSET S |-> f[U]]
  <2>1. ASSUME NEW U \in SUBSET S
        PROVE  g[U] = IF U = {} THEN 0
                      ELSE Size[CHOOSE t \in U : TRUE] + g[U \ {CHOOSE t \in U : TRUE}]
    <3>1. CASE U = {}
      BY <1>1, <3>1
    <3>2. CASE U # {}
      <4>1. PICK x \in U : x = CHOOSE t \in U : TRUE
        BY <3>2
      <4>2. f[U] = Size[x] + f[U \ {x}] /\ U \ {x} \in SUBSET S
        BY <1>1
      <4>3. g[U] = Size[x] + g[U \ {x}]
        BY <4>2
      <4> QED BY <3>2, <4>1, <4>3
    <3> QED BY <3>1, <3>2
  <2>2. g = OneByOne(g, S)
    BY <2>1 DEF OneByOne
  <2>3. \E i : i = OneByOne(i, S)
    BY <2>2
  <2> QED BY <2>3
<1> HIDE DEF h
<1>3. ASSUME NEW U \in SUBSET S, U # {}
      PROVE  \E t \in U : h[U] = Size[t] + h[U \ {t}]
  <2>1. PICK x \in U : x = CHOOSE t \in U : TRUE
    BY <1>3
  <2>2. OneByOne(h, S)[U] = Size[x] + h[U \ {x}]
    BY <1>3, <2>1 DEF OneByOne
  <2> QED BY <1>2, <2>2
<1>4. h[{}] = 0
  <2>1. OneByOne(h, S)[{}] = 0
    BY DEF OneByOne
  <2> QED BY <1>2, <2>1
<1>5. \A U \in SUBSET S : h[U] = f[U]
  <2> DEFINE Bad == {U \in SUBSET S : h[U] # f[U]}
  <2>1. SUFFICES ASSUME Bad # {} PROVE FALSE
    OBVIOUS
  <2>2. PICK M \in Bad : \A t \in M : M \ {t} \notin Bad
    <3>1. Bad \in SUBSET SUBSET Trans
      OBVIOUS
    <3> QED BY <2>1, <3>1, SmallestSet
  <2>3. M \in SUBSET S /\ M # {} /\ h[M] # f[M]
    BY <1>1, <1>4
  <2>4. PICK t \in M : h[M] = Size[t] + h[M \ {t}]
    BY <1>3, <2>3
  <2>5. h[M \ {t}] = f[M \ {t}]
    BY <2>2, <2>3
  <2>6. f[M] = Size[t] + f[M \ {t}]
    BY <1>1, <2>3
  <2> QED BY <2>3, <2>4, <2>5, <2>6
<1>6. Total(S) = h[S]
  BY DEF Total, MapThenSumSet, MapThenFoldSet, OneByOne, h
<1> QED BY <1>5, <1>6

LEMMA TotalNat ==
  ASSUME NEW S \in SUBSET Trans
  PROVE  Total(S) \in Nat
<1>1. PICK f : IsSum(f, Trans)
  BY SumExists
<1>2. Total(S) = f[S]
  BY <1>1, TotalIsSum
<1> QED BY <1>1, <1>2 DEF IsSum

LEMMA TotalEmpty == Total({}) = 0
<1>1. PICK f : IsSum(f, Trans)
  BY SumExists
<1>2. Total({}) = f[{}]
  BY <1>1, TotalIsSum
<1> QED BY <1>1, <1>2 DEF IsSum

LEMMA TotalWithout ==
  ASSUME NEW S \in SUBSET Trans, NEW t \in S
  PROVE  /\ Total(S) = Total(S \ {t}) + Size[t]
         /\ Total(S \ {t}) \in Nat
<1>1. PICK f : IsSum(f, Trans)
  BY SumExists
<1>2. Total(S) = f[S] /\ Total(S \ {t}) = f[S \ {t}]
  BY <1>1, TotalIsSum
<1>3. f[S] = Size[t] + f[S \ {t}]
  BY <1>1 DEF IsSum
<1>4. Total(S \ {t}) \in Nat /\ Size[t] \in Nat
  BY TotalNat
<1> QED BY <1>2, <1>3, <1>4

-------------------------------------------------------------------------------
(***************************************************************************)
(* The sizes that are kept.                                                *)
(***************************************************************************)
OfKey(k, W) == {t \in W : SendKey[t] = k}

(* A transaction is in the map only after it was sent, so that its size is *)
(* added once; what is kept of a key is the sum.                           *)
CacheInv ==
  /\ mCacheSize \in [Key -> Nat]
  /\ \A k \in Key : mCacheSize[k] = Total(OfKey(k, mWaitMap))
  /\ \A t \in mWaitMap : pc[t] \in {"waiting", "returned"}

LEMMA KeyOf == \A t \in Trans : SendKey[t] \in Key
BY DEF Key

(* A transaction more in the map.                                          *)
LEMMA CacheAdds ==
  ASSUME WaitTypes, CacheInv, NEW t \in Trans \ mWaitMap, AddToWaitQueue(t),
         pc' = [pc EXCEPT ![t] = "waiting"]
  PROVE  CacheInv'
<1>1. /\ mWaitMap' = mWaitMap \cup {t} /\ mWaitMap \subseteq Trans
      /\ mCacheSize' = [mCacheSize EXCEPT ![SendKey[t]] = @ + Size[t]]
  BY DEF AddToWaitQueue, WaitTypes
<1>2. SendKey[t] \in Key /\ Size[t] \in Nat
  BY KeyOf
<1>3. ASSUME NEW k \in Key
      PROVE  mCacheSize'[k] = Total(OfKey(k, mWaitMap')) /\ mCacheSize'[k] \in Nat
  <2>1. mCacheSize[k] = Total(OfKey(k, mWaitMap)) /\ mCacheSize[k] \in Nat
    BY DEF CacheInv
  <2>2. CASE k = SendKey[t]
    <3> DEFINE S == OfKey(k, mWaitMap')
    <3>1. S \in SUBSET Trans /\ t \in S /\ S \ {t} = OfKey(k, mWaitMap)
      BY <1>1, <2>2 DEF OfKey
    <3> HIDE DEF S
    <3>2. Total(S) = Total(S \ {t}) + Size[t]
      BY <3>1, TotalWithout
    <3>3. mCacheSize'[k] = mCacheSize[k] + Size[t]
      BY <1>1, <1>2, <2>2 DEF CacheInv
    <3>4. mCacheSize'[k] = Total(S) /\ mCacheSize'[k] \in Nat
      BY <1>2, <2>1, <3>1, <3>2, <3>3
    <3> QED BY <3>4 DEF S
  <2>3. CASE k # SendKey[t]
    <3>1. OfKey(k, mWaitMap') = OfKey(k, mWaitMap)
      BY <1>1, <2>3 DEF OfKey
    <3>2. mCacheSize'[k] = mCacheSize[k]
      BY <1>1, <1>2, <2>3 DEF CacheInv
    <3> QED BY <2>1, <3>1, <3>2
  <2> QED BY <2>2, <2>3
<1>4. mCacheSize' \in [Key -> Nat]
  <2>1. mCacheSize' = [k \in Key |-> mCacheSize'[k]]
    BY <1>1 DEF CacheInv
  <2> QED BY <1>3, <2>1
<1>5. \A u \in mWaitMap' : pc'[u] \in {"waiting", "returned"}
  BY <1>1 DEF CacheInv, WaitTypes
<1> QED BY <1>3, <1>4, <1>5 DEF CacheInv, OfKey

(* One less: what is taken back was added.                                 *)
LEMMA CacheTakes ==
  ASSUME WaitTypes, CacheInv, NEW t \in mWaitMap, RemoveFromWaitQueue(t), UNCHANGED pc
  PROVE  CacheInv'
<1>1. /\ mWaitMap' = mWaitMap \ {t} /\ mWaitMap \subseteq Trans /\ t \in Trans
      /\ mCacheSize' = [mCacheSize EXCEPT ![SendKey[t]] = @ - Size[t]]
  BY DEF RemoveFromWaitQueue, WaitTypes
<1>2. SendKey[t] \in Key /\ Size[t] \in Nat
  BY <1>1, KeyOf
<1>3. ASSUME NEW k \in Key
      PROVE  mCacheSize'[k] = Total(OfKey(k, mWaitMap')) /\ mCacheSize'[k] \in Nat
  <2>1. mCacheSize[k] = Total(OfKey(k, mWaitMap)) /\ mCacheSize[k] \in Nat
    BY DEF CacheInv
  <2>2. CASE k = SendKey[t]
    <3> DEFINE S == OfKey(k, mWaitMap)
    <3>1. S \in SUBSET Trans /\ t \in S /\ S \ {t} = OfKey(k, mWaitMap')
      BY <1>1, <2>2 DEF OfKey
    <3>2. mCacheSize[k] = Total(S)
      BY <2>1
    <3> HIDE DEF S
    <3>3. Total(S) = Total(S \ {t}) + Size[t] /\ Total(S \ {t}) \in Nat
      BY <3>1, TotalWithout
    <3>4. mCacheSize'[k] = mCacheSize[k] - Size[t]
      BY <1>1, <1>2, <2>2 DEF CacheInv
    <3>5. mCacheSize'[k] = Total(S \ {t})
      BY <1>2, <3>2, <3>3, <3>4
    <3> QED BY <3>1, <3>3, <3>5
  <2>3. CASE k # SendKey[t]
    <3>1. OfKey(k, mWaitMap') = OfKey(k, mWaitMap)
      BY <1>1, <2>3 DEF OfKey
    <3>2. mCacheSize'[k] = mCacheSize[k]
      BY <1>1, <1>2, <2>3 DEF CacheInv
    <3> QED BY <2>1, <3>1, <3>2
  <2> QED BY <2>2, <2>3
<1>4. mCacheSize' \in [Key -> Nat]
  <2>1. mCacheSize' = [k \in Key |-> mCacheSize'[k]]
    BY <1>1 DEF CacheInv
  <2> QED BY <1>3, <2>1
<1>5. \A u \in mWaitMap' : pc'[u] \in {"waiting", "returned"}
  BY <1>1 DEF CacheInv
<1> QED BY <1>3, <1>4, <1>5 DEF CacheInv, OfKey

LEMMA CacheSame ==
  ASSUME CacheInv, UNCHANGED <<mWaitMap, mCacheSize>>,
         \A t \in mWaitMap : pc'[t] \in {"waiting", "returned"}
  PROVE  CacheInv'
BY DEF CacheInv, OfKey

(* What a handler does of the two.                                         *)
LEMMA KeptOrRemoved ==
  ASSUME NEW m \in net, m.t \in mWaitMap, RecvResp(m) \/ RecvAck(m) \/ RecvSvrDeath(m)
  PROVE  RemoveFromWaitQueue(m.t) \/ UNCHANGED <<mWaitMap, mCacheSize>>
<1>1. CASE RecvResp(m)
  <2>1. KeepOrRemove(m.t, AckFinished(m.t))
    BY <1>1 DEF RecvResp
  <2> QED BY <2>1 DEF KeepOrRemove
<1>2. CASE RecvAck(m)
  <2>1. KeepOrRemove(m.t, AckFinished(m.t) /\ (m.t \in NeedResp => m.t \in respRecved))
    BY <1>2 DEF RecvAck
  <2> QED BY <2>1 DEF KeepOrRemove
<1>3. CASE RecvSvrDeath(m)
  <2>1. KeepOrRemove(m.t, DropsOnDeath(m.t))
    BY <1>3 DEF RecvSvrDeath
  <2> QED BY <2>1 DEF KeepOrRemove
<1> QED BY <1>1, <1>2, <1>3

LEMMA CacheInit == Init => CacheInv
<1> SUFFICES ASSUME Init PROVE CacheInv
  OBVIOUS
<1>1. mWaitMap = {} /\ mCacheSize = [k \in Key |-> 0]
  BY DEF Init
<1>2. \A k \in Key : OfKey(k, mWaitMap) = {}
  BY <1>1 DEF OfKey
<1> QED BY <1>1, <1>2, TotalEmpty DEF CacheInv

LEMMA CacheStep == IInv /\ CacheInv /\ [Next]_vars => CacheInv'
<1> SUFFICES ASSUME IInv, CacheInv, [Next]_vars PROVE CacheInv'
  OBVIOUS
<1>0. WaitTypes
  BY DEF IInv
<1>1. ASSUME UNCHANGED <<mWaitMap, mCacheSize, pc>> PROVE CacheInv'
  BY <1>1, CacheSame DEF CacheInv
<1>2. ASSUME NEW t \in Trans, Sender(t) PROVE CacheInv'
  <2>1. CASE SendTrans(t)
    <3>1. /\ pc[t] \in {"new", "blocked"} /\ AddToWaitQueue(t)
          /\ pc' = [pc EXCEPT ![t] = "waiting"]
      BY <2>1 DEF SendTrans
    <3>2. t \in Trans \ mWaitMap
      BY <3>1 DEF CacheInv
    <3> QED BY <1>0, <3>1, <3>2, CacheAdds
  <2>2. CASE WaitForRoom(t)
    <3>1. /\ pc[t] = "new" /\ pc' = [pc EXCEPT ![t] = "blocked"]
          /\ UNCHANGED <<mWaitMap, mCacheSize>>
      BY <2>2 DEF WaitForRoom, waitVars
    <3>2. \A u \in mWaitMap : pc'[u] \in {"waiting", "returned"}
      BY <1>0, <3>1 DEF CacheInv, WaitTypes
    <3> QED BY <3>1, <3>2, CacheSame
  <2>3. CASE WaitReturns(t)
    <3>1. /\ pc' = [pc EXCEPT ![t] = "returned"] /\ UNCHANGED <<mWaitMap, mCacheSize>>
      BY <2>3 DEF WaitReturns, waitVars
    <3>2. \A u \in mWaitMap : pc'[u] \in {"waiting", "returned"}
      BY <1>0, <3>1 DEF CacheInv, WaitTypes
    <3> QED BY <3>1, <3>2, CacheSame
  <2> QED BY <1>2, <2>1, <2>2, <2>3 DEF Sender
<1>3. ASSUME NEW t \in Trans, Finish(t) PROVE CacheInv'
  BY <1>1, <1>3 DEF Finish, RespRecved, SetSvrDeath, waitVars, sendVars
<1>4. ASSUME NEW m \in net, RecvResp(m) \/ RecvAck(m) \/ RecvSvrDeath(m) PROVE CacheInv'
  <2>1. pc' = pc
    BY <1>4 DEF RecvResp, RecvAck, RecvSvrDeath, sendVars
  <2>2. CASE m.t \notin mWaitMap
    <3>1. UNCHANGED <<mWaitMap, mCacheSize>>
      BY <1>4, <2>2 DEF RecvResp, RecvAck, RecvSvrDeath, Ignored, waitVars
    <3> QED BY <1>1, <2>1, <3>1
  <2>3. CASE m.t \in mWaitMap
    <3>1. RemoveFromWaitQueue(m.t) \/ UNCHANGED <<mWaitMap, mCacheSize>>
      BY <1>4, <2>3, KeptOrRemoved
    <3> QED BY <1>0, <1>1, <2>1, <2>3, <3>1, CacheTakes
  <2> QED BY <2>2, <2>3
<1>5. ASSUME NEW m \in net, Serve(m) \/ Report(m) PROVE CacheInv'
  BY <1>1, <1>5 DEF Serve, Report, waitVars, sendVars
<1>6. CASE ResendAllTrans \/ Resend \/ \E s \in Cube : SvrDies(s)
  BY <1>1, <1>6 DEF ResendAllTrans, Resend, SvrDies, waitVars, sendVars
<1>7. CASE UNCHANGED vars
  BY <1>1, <1>7 DEF vars, waitVars, sendVars
<1> QED BY <1>2, <1>3, <1>4, <1>5, <1>6, <1>7 DEF Next, Receive

LEMMA CacheInvariance == SafeSpec => []CacheInv
BY CacheInit, CacheStep, Invariance, PTL DEF SafeSpec

(* The counter of a send key is the sum of the sizes that wait, whichever  *)
(* handler removes, so that no room is lost and none is given back twice   *)
(* (addToWaitQueue, removeFromWaitQueue).                                  *)
THEOREM CacheCounts == SafeSpec => []CacheIsWhatWaits
<1>1. CacheInv => CacheIsWhatWaits
  BY DEF CacheInv, CacheIsWhatWaits, Total, OfKey
<1> QED BY <1>1, CacheInvariance, PTL

-------------------------------------------------------------------------------
(***************************************************************************)
(* What else there is.                                                     *)
(***************************************************************************)
RestTypes ==
  /\ heard \in [Trans -> SUBSET Cube]
  /\ svrDeath \subseteq Trans /\ dead \subseteq Cube
  /\ resends \in 0..MaxResends /\ mResendReq \in 0..resends

LEMMA RestStep == IInv /\ RestTypes /\ [Next]_vars => RestTypes'
<1> SUFFICES ASSUME IInv, RestTypes, [Next]_vars PROVE RestTypes'
  OBVIOUS
<1>0. WaitTypes
  BY DEF IInv
<1>1. ASSUME NEW t \in Trans, Sender(t) PROVE RestTypes'
  BY <1>1 DEF RestTypes, Sender, SendTrans, WaitForRoom, WaitReturns, transVars, groupVars
<1>2. ASSUME NEW t \in Trans, Finish(t) PROVE RestTypes'
  BY <1>2 DEF RestTypes, Finish, RespRecved, SetSvrDeath, sendVars, groupVars
<1>3. ASSUME NEW m \in net, RecvResp(m) \/ RecvAck(m) \/ RecvSvrDeath(m) PROVE RestTypes'
  <2>1. UNCHANGED <<mResendReq, resends, dead, svrDeath>>
    BY <1>3 DEF RecvResp, RecvAck, RecvSvrDeath, Ignored, sendVars, transVars, groupVars
  <2>2. heard' \in [Trans -> SUBSET Cube]
    <3>1. CASE m.t \notin mWaitMap
      BY <1>3, <3>1 DEF RecvResp, RecvAck, RecvSvrDeath, Ignored, RestTypes
    <3>2. CASE m.t \in mWaitMap
      <4>1. \E s \in Cube : heard' = [heard EXCEPT ![m.t] = @ \cup {s}]
        BY <1>0, <1>3, <3>2, OnTheWay DEF RecvResp, RecvAck, RecvSvrDeath, Hear
      <4>2. PICK s \in Cube : heard' = [heard EXCEPT ![m.t] = @ \cup {s}]
        BY <4>1
      <4>3. heard \in [Trans -> SUBSET Cube] /\ m.t \in Trans
        BY <1>0, OnTheWay DEF RestTypes
      <4>4. heard[m.t] \cup {s} \in SUBSET Cube
        BY <4>3
      <4> QED BY <4>2, <4>3, <4>4
    <3> QED BY <3>1, <3>2
  <2> QED BY <2>1, <2>2 DEF RestTypes
<1>4. ASSUME NEW m \in net, Serve(m) \/ Report(m) PROVE RestTypes'
  BY <1>4 DEF RestTypes, Serve, Report, sendVars, transVars, groupVars
<1>5. CASE ResendAllTrans
  BY <1>5 DEF RestTypes, ResendAllTrans, transVars, groupVars
<1>6. CASE Resend
  BY <1>6 DEF RestTypes, Resend, TriggerResend, transVars
<1>7. ASSUME NEW s \in Cube, SvrDies(s) PROVE RestTypes'
  BY <1>7 DEF RestTypes, SvrDies, sendVars, transVars
<1>8. CASE UNCHANGED vars
  BY <1>8 DEF RestTypes, vars, sendVars, transVars, groupVars
<1> QED BY <1>1, <1>2, <1>3, <1>4, <1>5, <1>6, <1>7, <1>8 DEF Next, Receive

LEMMA RestInvariance == SafeSpec => []RestTypes
<1>1. Init => RestTypes
  BY DEF Init, RestTypes
<1> QED BY <1>1, RestStep, Invariance, PTL DEF SafeSpec

(* Everything has its type; the room of a send key, an unsigned counter in *)
(* the code, is never below zero.                                          *)
THEOREM TypeCorrect == SafeSpec => []TypeOK
<1>1. IInv /\ CacheInv /\ RestTypes => TypeOK
  <2> SUFFICES ASSUME IInv, CacheInv, RestTypes PROVE TypeOK
    OBVIOUS
  <2>1. WaitTypes /\ mCacheSize \in [Key -> Nat]
    BY DEF IInv, CacheInv
  <2>2. net \subseteq Req \cup Answer \cup Death
    BY <2>1 DEF WaitTypes, Death
  <2>3. mResendReq \in 0..MaxResends
    BY DEF RestTypes
  <2> QED BY <2>1, <2>2, <2>3 DEF TypeOK, WaitTypes, RestTypes
<1> QED BY <1>1, Invariance, CacheInvariance, RestInvariance, PTL

(* While no server has died, nothing reports a death, and whoever has      *)
(* acknowledged has been heard.                                            *)
HeardInv ==
  dead = {} => /\ \A m \in net : m.type # "death"
               /\ \A t \in Trans : /\ mDeathSids[t] = {} /\ mAckSids[t] \subseteq heard[t]
                                   /\ ~Forgotten(t)

(* As many acknowledgements as there are servers are those of all of them. *)
LEMMA AllAcks ==
  ASSUME NEW t \in Trans, Kind[t] = "saved", NEW acks \in SUBSET Cube, AckFinish(acks, {}, t)
  PROVE  acks = Cube
<1>1. IsFiniteSet(acks) /\ Cardinality(acks) \in Nat /\ Cardinality(acks) <= Cardinality(Cube)
      /\ Cardinality(Cube) \in Nat
  BY FS_Subset, FS_CardinalityType
<1>2. Cardinality(acks) >= Cardinality(Cube)
  BY <1>1, FS_EmptySet DEF AckFinish, NeedAckNum
<1> QED BY <1>1, <1>2, FS_Subset

LEMMA HeardSame ==
  ASSUME WaitTypes, HeardInv, UNCHANGED <<pc, mWaitMap, mAckSids, mDeathSids, heard>>,
         dead \subseteq dead', dead' = {} => \A m \in net' : m \in net \/ m.type # "death"
  PROVE  HeardInv'
BY DEF HeardInv, Forgotten

LEMMA HeardAnswer ==
  ASSUME WaitTypes, RestTypes, HeardInv, NEW m \in net, RecvResp(m) \/ RecvAck(m)
  PROVE  HeardInv'
<1>1. UNCHANGED <<pc, dead>> /\ net' = net \ {m}
  BY DEF RecvResp, RecvAck, Taken, sendVars, groupVars
<1>2. CASE m.t \notin mWaitMap
  <2>1. UNCHANGED <<mWaitMap, mAckSids, mDeathSids, heard>>
    BY <1>2 DEF RecvResp, RecvAck, Ignored, waitVars
  <2> QED BY <1>1, <2>1, HeardSame
<1>3. CASE m.t \in mWaitMap
  <2>1. m.t \in Trans /\ m.sid \in Cube
    BY OnTheWay DEF RecvResp, RecvAck
  <2>2. /\ mAckSids' = [mAckSids EXCEPT ![m.t] = @ \cup {m.sid}]
        /\ mDeathSids' = [mDeathSids EXCEPT ![m.t] = @ \ {m.sid}]
        /\ heard' = [heard EXCEPT ![m.t] = @ \cup {m.sid}]
    BY <1>3 DEF RecvResp, RecvAck, AddAck, Hear
  <2>2a. mWaitMap' = mWaitMap \/ (mWaitMap' = mWaitMap \ {m.t} /\ AckFinished(m.t))
    <3>1. CASE RecvResp(m)
      <4>1. KeepOrRemove(m.t, AckFinished(m.t))
        BY <1>3, <3>1 DEF RecvResp
      <4> QED BY <4>1 DEF KeepOrRemove, RemoveFromWaitQueue
    <3>2. CASE RecvAck(m)
      <4>1. KeepOrRemove(m.t, AckFinished(m.t) /\ (m.t \in NeedResp => m.t \in respRecved))
        BY <1>3, <3>2 DEF RecvAck
      <4> QED BY <4>1 DEF KeepOrRemove, RemoveFromWaitQueue
    <3> QED BY <3>1, <3>2
  <2>3. SUFFICES ASSUME dead = {}
                 PROVE  /\ \A n \in net' : n.type # "death"
                        /\ \A t \in Trans : /\ mDeathSids'[t] = {}
                                            /\ mAckSids'[t] \subseteq heard'[t]
                                            /\ ~Forgotten(t)'
    BY <1>1 DEF HeardInv, Forgotten
  <2>4. /\ \A n \in net' : n.type # "death"
        /\ \A t \in Trans : mDeathSids[t] = {} /\ mAckSids[t] \subseteq heard[t] /\ ~Forgotten(t)
    BY <1>1, <2>3 DEF HeardInv
  <2>5. \A t \in Trans : mDeathSids'[t] = {} /\ mAckSids'[t] \subseteq heard'[t]
    BY <2>1, <2>2, <2>4 DEF WaitTypes, RestTypes
  <2>6. ASSUME NEW t \in Trans PROVE ~Forgotten(t)'
    <3>1. CASE t # m.t
      <4>1. heard'[t] = heard[t] /\ (t \in mWaitMap' <=> t \in mWaitMap)
        BY <2>1, <2>2, <2>2a, <3>1 DEF RestTypes
      <4> QED BY <1>1, <2>4, <4>1 DEF Forgotten
    <3>2. CASE t = m.t /\ mWaitMap' = mWaitMap
      BY <1>3, <3>2 DEF Forgotten
    <3>3. CASE t = m.t /\ AckFinished(m.t) /\ Kind[t] = "saved"
      <4>1. mDeathSids'[t] = {} /\ mAckSids'[t] \subseteq heard'[t]
        BY <2>5
      <4>2. AckFinish(mAckSids'[t], {}, t)
        BY <3>3, <4>1 DEF AckFinished
      <4>3. mAckSids[t] \subseteq Cube /\ heard[t] \subseteq Cube
        BY DEF WaitTypes, RestTypes
      <4>4. mAckSids'[t] = mAckSids[t] \cup {m.sid} /\ heard'[t] = heard[t] \cup {m.sid}
        BY <2>1, <2>2, <3>3 DEF WaitTypes, RestTypes
      <4>5. PICK acks \in SUBSET Cube : acks = mAckSids'[t]
        BY <2>1, <4>3, <4>4
      <4>6. acks = Cube
        BY <3>3, <4>2, <4>5, AllAcks
      <4>7. heard'[t] = Cube
        BY <2>1, <4>1, <4>3, <4>4, <4>5, <4>6
      <4> QED BY <4>7 DEF Forgotten
    <3> QED BY <2>2a, <3>1, <3>2, <3>3 DEF Forgotten
  <2> QED BY <2>4, <2>5, <2>6
<1> QED BY <1>2, <1>3

LEMMA HeardStep == IInv /\ RestTypes /\ HeardInv /\ [Next]_vars => HeardInv'
<1> SUFFICES ASSUME IInv, RestTypes, HeardInv, [Next]_vars PROVE HeardInv'
  OBVIOUS
<1>0. WaitTypes
  BY DEF IInv
<1>1. ASSUME NEW t \in Trans, Sender(t) PROVE HeardInv'
  <2>1. CASE SendTrans(t)
    <3>1. /\ mWaitMap' = mWaitMap \cup {t} /\ pc' = [pc EXCEPT ![t] = "waiting"]
          /\ net' = net \cup Copies(t, FALSE)
          /\ UNCHANGED <<mAckSids, mDeathSids, heard, dead>>
      BY <2>1 DEF SendTrans, AddToWaitQueue, groupVars
    <3>2. \A m \in Copies(t, FALSE) : m.type # "death"
      BY DEF Copies
    <3>3. \A u \in Trans : Forgotten(u)' => Forgotten(u)
      BY <1>0, <3>1 DEF Forgotten, WaitTypes
    <3> QED BY <3>1, <3>2, <3>3 DEF HeardInv
  <2>2. CASE WaitForRoom(t) \/ WaitReturns(t)
    <3>1. /\ \/ pc' = [pc EXCEPT ![t] = "blocked"]
             \/ pc[t] = "waiting" /\ pc' = [pc EXCEPT ![t] = "returned"]
          /\ UNCHANGED <<mWaitMap, mAckSids, mDeathSids, heard, dead, net>>
      BY <2>2 DEF WaitForRoom, WaitReturns, waitVars, groupVars
    <3>2. \A u \in Trans : Forgotten(u)' => Forgotten(u)
      BY <1>0, <3>1 DEF Forgotten, WaitTypes
    <3> QED BY <3>1, <3>2 DEF HeardInv
  <2> QED BY <1>1, <2>1, <2>2 DEF Sender
<1>2. ASSUME NEW t \in Trans, Finish(t) PROVE HeardInv'
  BY <1>0, <1>2, HeardSame DEF Finish, RespRecved, SetSvrDeath, sendVars, waitVars, groupVars
<1>3. ASSUME NEW m \in net, RecvResp(m) \/ RecvAck(m) PROVE HeardInv'
  BY <1>0, <1>3, HeardAnswer
<1>4. ASSUME NEW m \in net, RecvSvrDeath(m) PROVE HeardInv'
  <2>1. m.type = "death" /\ dead' = dead
    BY <1>4 DEF RecvSvrDeath, groupVars
  <2> QED BY <2>1 DEF HeardInv
<1>5. ASSUME NEW m \in net, Serve(m) PROVE HeardInv'
  <2>1. UNCHANGED <<pc, mWaitMap, mAckSids, mDeathSids, heard, dead>>
    BY <1>5 DEF Serve, sendVars, waitVars, groupVars
  <2>2. \A n \in net' : n \in net \/ n.type # "death"
    BY <1>5 DEF Serve
  <2> QED BY <1>0, <2>1, <2>2, HeardSame
<1>6. ASSUME NEW m \in net, Report(m) PROVE HeardInv'
  BY <1>6 DEF Report, HeardInv, groupVars
<1>7. CASE ResendAllTrans
  <2>1. UNCHANGED <<pc, mWaitMap, mAckSids, mDeathSids, heard, dead>>
    BY <1>7 DEF ResendAllTrans, waitVars, groupVars
  <2>2. \A n \in net' : n \in net \/ n.type # "death"
    BY <1>7 DEF ResendAllTrans, Copies
  <2> QED BY <1>0, <2>1, <2>2, HeardSame
<1>8. CASE Resend \/ \E s \in Cube : SvrDies(s)
  BY <1>0, <1>8, HeardSame DEF Resend, SvrDies, sendVars, waitVars
<1>9. CASE UNCHANGED vars
  BY <1>0, <1>9, HeardSame DEF vars, sendVars, waitVars, groupVars
<1> QED BY <1>1, <1>2, <1>3, <1>4, <1>5, <1>6, <1>7, <1>8, <1>9 DEF Next, Receive

(* As long as no server dies, a saved transaction leaves the map only when *)
(* every server of the cube has acknowledged it: with any number of        *)
(* servers, copies and resends, and whatever is lost or answered twice.    *)
THEOREM AllAreHeard == SafeSpec => []LeavesWhenAllHeard
<1>1. Init => HeardInv
  BY DEF Init, HeardInv, Forgotten
<1>2. HeardInv => LeavesWhenAllHeard
  BY DEF HeardInv, LeavesWhenAllHeard
<1> QED BY <1>1, <1>2, HeardStep, Invariance, RestInvariance, PTL DEF SafeSpec
================================================================================
