------------------------------ MODULE TransClient ------------------------------
(***************************************************************************)
(* AosTransClient: a transaction is kept in mWaitMap until every server it *)
(* goes to has acknowledged it or is reported dead and, when it asks for   *)
(* one, its response has come.  The sizes of the kept transactions are     *)
(* added up per send key; a sender waits while its key is at the limit.    *)
(* A resend request sends everything in mWaitMap again.                    *)
(*                                                                         *)
(* mLock makes sendTransPriv, recvResp, recvAck and recvSvrDeath one step  *)
(* each, up to their unlock: respRecved and setSvrDeath are called after   *)
(* it.  The proxies and servers are external: they answer a copy of a      *)
(* transaction, and report a dead server.  A message that is lost is one   *)
(* that is never received.                                                 *)
(***************************************************************************)
EXTENDS Integers, FiniteSets, FiniteSetsExt

CONSTANTS
  Trans,         \* transactions, each sent by a thread of its own
  Cube,          \* the servers of the cube group
  Self,          \* the server the client runs on; its proxy reports deaths
  Kind,          \* of each transaction: "saved" goes to all servers of the
                 \* cube, "cube" to its master, "task" to one given server
  ToSvr,         \* that server
  NeedResp,      \* those that wait for a response, the others for an ack
  SendKey, Size,
  eMaxCacheSize,
  MaxDeaths,     \* bound: servers that die
  MaxResends     \* bound: resend requests

Key == {SendKey[t] : t \in Trans}

ASSUME TransAssumption ==
  /\ IsFiniteSet(Trans) /\ IsFiniteSet(Cube) /\ Cube # {}
  /\ Kind \in [Trans -> {"saved", "cube", "task"}]
  /\ ToSvr \in [Trans -> Cube]
  /\ NeedResp \subseteq Trans
  /\ Size \in [Trans -> Nat]
  /\ eMaxCacheSize \in Nat \ {0}
  /\ MaxDeaths \in Nat /\ MaxResends \in Nat

VARIABLES
  pc,            \* of the sender of each transaction
  mWaitMap,
  mAckSids, mDeathSids,
  mCacheSize,    \* of each send key
  mResendReq,    \* resend requests not served
  respRecved,    \* transactions with eIsRespRecvedFlag
  svrDeath,      \* transactions with mSvrDeath
  posts,         \* posts of a transaction's semaphore
  respLate,      \* threads between the unlock of recvResp and respRecved
  deathLate,     \* threads between the unlock of recvSvrDeath and setSvrDeath
  net,           \* messages on their way
  master, dead, resends,  \* of the cube group, as the proxies see it
  heard          \* history: servers whose ack or death has been handled

sendVars == <<pc, mResendReq>>
waitVars == <<mWaitMap, mAckSids, mDeathSids, mCacheSize>>
transVars == <<respRecved, svrDeath, posts>>
lateVars == <<respLate, deathLate>>
groupVars == <<master, dead, resends>>
vars == <<sendVars, waitVars, transVars, lateVars, net, groupVars, heard>>

\* A copy says whether the response had come when it was sent; a death report
\* carries the id of the server that reports it.
Req == [type : {"req"}, t : Trans, sid : Cube, known : BOOLEAN]
Answer == [type : {"ack", "resp"}, t : Trans, sid : Cube]
Death == [type : {"death"}, t : Trans, sid : Cube \cup {Self}, of : Cube]

Init == /\ pc = [t \in Trans |-> "new"]
        /\ mWaitMap = {}
        /\ mAckSids = [t \in Trans |-> {}] /\ mDeathSids = [t \in Trans |-> {}]
        /\ mCacheSize = [k \in Key |-> 0]
        /\ mResendReq = 0
        /\ respRecved = {} /\ svrDeath = {}
        /\ posts = [t \in Trans |-> 0]
        /\ respLate = [t \in Trans |-> 0] /\ deathLate = [t \in Trans |-> 0]
        /\ net = {}
        /\ master \in Cube /\ dead = {} /\ resends = 0
        /\ heard = [t \in Trans |-> {}]

-------------------------------------------------------------------------------
(***************************************************************************)
(* AosWaitInfo.                                                            *)
(***************************************************************************)
NeedAckNum(t) == IF Kind[t] = "saved" THEN Cardinality(Cube) ELSE 1
BkpSvrNum(t) == IF Kind[t] = "task" THEN 1 ELSE Cardinality(Cube)

AddAck(t, sid) == /\ mAckSids' = [mAckSids EXCEPT ![t] = @ \cup {sid}]
                  /\ mDeathSids' = [mDeathSids EXCEPT ![t] = @ \ {sid}]

AddDeathSvr(t, sid) == /\ mDeathSids' = [mDeathSids EXCEPT ![t] = @ \cup {sid}]
                       /\ mAckSids' = [mAckSids EXCEPT ![t] = @ \ {sid}]

\* Mutant: one ack is enough.
AckFinishOne(acks, deaths, t) == acks # {} \/ deaths # {}

AckFinish(acks, deaths, t) ==
  Cardinality(acks) + Cardinality(deaths) >= NeedAckNum(t)

AllSvrDeath(deaths, t) == Cardinality(deaths) = BkpSvrNum(t)

AckFinished(t) == AckFinish(mAckSids'[t], mDeathSids'[t], t)

-------------------------------------------------------------------------------
(***************************************************************************)
(* Sending.                                                                *)
(***************************************************************************)
Targets(t) == CASE Kind[t] = "saved" -> Cube
                [] Kind[t] = "cube" -> {master}
                [] Kind[t] = "task" -> {ToSvr[t]}

Copies(t, known) ==
  {[type |-> "req", t |-> t, sid |-> s, known |-> known] : s \in Targets(t)}

ReadyToSend(t) == mCacheSize[SendKey[t]] < eMaxCacheSize

\* Mutant: the size is counted for the first transaction of a key only.
AddToWaitQueueFirst(t) ==
  /\ mWaitMap' = mWaitMap \cup {t}
  /\ mCacheSize' = [mCacheSize EXCEPT ![SendKey[t]] = IF @ = 0 THEN Size[t] ELSE @]
  /\ UNCHANGED <<mAckSids, mDeathSids>>

AddToWaitQueue(t) ==
  /\ mWaitMap' = mWaitMap \cup {t}
  /\ mCacheSize' = [mCacheSize EXCEPT ![SendKey[t]] = @ + Size[t]]
  /\ UNCHANGED <<mAckSids, mDeathSids>>

\* Mutant: the room is not given back.
RemoveOnly(t) == mWaitMap' = mWaitMap \ {t} /\ UNCHANGED mCacheSize

RemoveFromWaitQueue(t) ==
  /\ mWaitMap' = mWaitMap \ {t}
  /\ mCacheSize' = [mCacheSize EXCEPT ![SendKey[t]] = @ - Size[t]]

\* sendTransPriv; at the limit the thread sleeps until it is signalled or for
\* five seconds, and tests again.
SendTrans(t) ==
  /\ pc[t] \in {"new", "blocked"}
  /\ ReadyToSend(t)
  /\ AddToWaitQueue(t)
  /\ net' = net \cup Copies(t, FALSE)
  /\ pc' = [pc EXCEPT ![t] = "waiting"]
  /\ UNCHANGED <<mResendReq, transVars, lateVars, groupVars, heard>>

WaitForRoom(t) ==
  /\ pc[t] = "new" /\ ~ReadyToSend(t)
  /\ pc' = [pc EXCEPT ![t] = "blocked"]
  /\ UNCHANGED <<mResendReq, waitVars, transVars, lateVars, net, groupVars, heard>>

\* waitAck or waitResp.
WaitReturns(t) ==
  /\ pc[t] = "waiting" /\ posts[t] > 0
  /\ pc' = [pc EXCEPT ![t] = "returned"]
  /\ UNCHANGED <<mResendReq, waitVars, transVars, lateVars, net, groupVars, heard>>

-------------------------------------------------------------------------------
(***************************************************************************)
(* Answers.                                                                *)
(***************************************************************************)
Taken(m) == net' = net \ {m}
Ignored == UNCHANGED <<waitVars, transVars, lateVars, heard>>
KeepOrRemove(t, remove) ==
  IF remove THEN RemoveFromWaitQueue(t) ELSE UNCHANGED <<mWaitMap, mCacheSize>>
Hear(m, sid) == heard' = [heard EXCEPT ![m.t] = @ \cup {sid}]

\* A response is an acknowledgement too.
RecvResp(m) ==
  /\ m.type = "resp" /\ Taken(m)
  /\ IF m.t \notin mWaitMap THEN Ignored
     ELSE /\ AddAck(m.t, m.sid)
          /\ KeepOrRemove(m.t, AckFinished(m.t))
          /\ respLate' = [respLate EXCEPT ![m.t] = @ + 1]
          /\ Hear(m, m.sid)
          /\ UNCHANGED <<transVars, deathLate>>
  /\ UNCHANGED <<sendVars, groupVars>>

\* Mutant: the flag is set, the semaphore forgotten.
Wake(t) == UNCHANGED posts

PostSem(t) == posts' = [posts EXCEPT ![t] = @ + 1]

\* AosTrans::respRecved, after recvResp has unlocked.
RespRecved(t) ==
  /\ respLate[t] > 0
  /\ respLate' = [respLate EXCEPT ![t] = @ - 1]
  /\ respRecved' = respRecved \cup {t}
  /\ IF t \in NeedResp THEN PostSem(t) ELSE UNCHANGED posts
  /\ UNCHANGED <<sendVars, waitVars, svrDeath, deathLate, net, groupVars, heard>>

\* Mutant: ackRecved does not look whether a response is waited for.
AckPostsAlways(t) == PostSem(t)

AckPosts(t) == IF t \in NeedResp THEN UNCHANGED posts ELSE PostSem(t)

RecvAck(m) ==
  /\ m.type = "ack" /\ Taken(m)
  /\ IF m.t \notin mWaitMap THEN Ignored
     ELSE /\ AddAck(m.t, m.sid)
          /\ KeepOrRemove(m.t, AckFinished(m.t) /\ (m.t \in NeedResp => m.t \in respRecved))
          /\ AckPosts(m.t)
          /\ Hear(m, m.sid)
          /\ UNCHANGED <<respRecved, svrDeath, lateVars>>
  /\ UNCHANGED <<sendVars, groupVars>>

\* Does a death report remove t?  With a response outstanding, only when all
\* its servers are dead.
DropsOnDeath(t) ==
  /\ AckFinished(t)
  /\ t \in NeedResp /\ t \notin respRecved => AllSvrDeath(mDeathSids'[t], t)

\* Mutant: who waits for a response is not told.
GivesUpOnAck(t) == t \notin NeedResp /\ AllSvrDeath(mDeathSids'[t], t)

GivesUp(t) == /\ AllSvrDeath(mDeathSids'[t], t)
              /\ t \in NeedResp => AckFinished(t) /\ t \notin respRecved

RecvSvrDeath(m) ==
  /\ m.type = "death" /\ Taken(m)
  /\ IF m.t \notin mWaitMap THEN Ignored
     ELSE /\ AddDeathSvr(m.t, m.sid)
          /\ KeepOrRemove(m.t, DropsOnDeath(m.t))
          /\ deathLate' = [deathLate EXCEPT ![m.t] = @ + IF GivesUp(m.t) THEN 1 ELSE 0]
          /\ Hear(m, m.of)
          /\ UNCHANGED <<transVars, respLate>>
  /\ UNCHANGED <<sendVars, groupVars>>

\* AosTrans::setSvrDeath, after recvSvrDeath has unlocked.
SetSvrDeath(t) ==
  /\ deathLate[t] > 0
  /\ deathLate' = [deathLate EXCEPT ![t] = @ - 1]
  /\ svrDeath' = svrDeath \cup {t}
  /\ PostSem(t)
  /\ UNCHANGED <<sendVars, waitVars, respRecved, respLate, net, groupVars, heard>>

\* The resend thread: a copy of everything that waits, under mLock.
ResendAllTrans ==
  /\ mResendReq > 0
  /\ mResendReq' = mResendReq - 1
  /\ net' = net \cup UNION {Copies(t, t \in respRecved) : t \in mWaitMap}
  /\ UNCHANGED <<pc, waitVars, transVars, lateVars, groupVars, heard>>

-------------------------------------------------------------------------------
(***************************************************************************)
(* The servers and proxies (external).                                     *)
(***************************************************************************)
Responds(m) == /\ m.t \in NeedResp /\ ~m.known
               /\ Kind[m.t] = "saved" => m.sid = master

\* A live server acknowledges each copy; it responds unless the copy says that
\* the response has come.
Serve(m) ==
  /\ m.type = "req" /\ m.sid \notin dead
  /\ net' = (net \ {m}) \cup {[type |-> k, t |-> m.t, sid |-> m.sid] :
                                k \in {"ack"} \cup IF Responds(m) THEN {"resp"} ELSE {}}
  /\ UNCHANGED <<sendVars, waitVars, transVars, lateVars, groupVars, heard>>

\* AosSvrInfo::sendTrans to a dead server: the client's own proxy answers, with
\* its own server id.
Report(m) ==
  /\ m.type = "req" /\ m.sid \in dead
  /\ net' = (net \ {m}) \cup {[type |-> "death", t |-> m.t, sid |-> Self, of |-> m.sid]}
  /\ UNCHANGED <<sendVars, waitVars, transVars, lateVars, groupVars, heard>>

SvrDies(s) ==
  /\ s \notin dead /\ Cardinality(dead) < MaxDeaths
  /\ dead' = dead \cup {s}
  /\ UNCHANGED <<sendVars, waitVars, transVars, lateVars, net, master, resends, heard>>

TriggerResend ==
  /\ resends < MaxResends /\ resends' = resends + 1
  /\ mResendReq' = mResendReq + 1

\* A connection is back, or the group has a new master.
Resend ==
  /\ TriggerResend
  /\ \/ UNCHANGED master
     \/ master \in dead /\ master' \in Cube \ dead
  /\ UNCHANGED <<pc, waitVars, transVars, lateVars, net, dead, heard>>

-------------------------------------------------------------------------------
Sender(t) == SendTrans(t) \/ WaitForRoom(t) \/ WaitReturns(t)
Receive(m) == RecvResp(m) \/ RecvAck(m) \/ RecvSvrDeath(m) \/ Serve(m) \/ Report(m)
Finish(t) == RespRecved(t) \/ SetSvrDeath(t)

Next == \/ \E t \in Trans : Sender(t) \/ Finish(t)
        \/ \E m \in net : Receive(m)
        \/ ResendAllTrans
        \/ \E s \in Cube : SvrDies(s)
        \/ Resend

SafeSpec == Init /\ [][Next]_vars

\* Threads go on, and what is sent is delivered and answered.
Spec == /\ SafeSpec
        /\ \A t \in Trans : WF_vars(Sender(t)) /\ WF_vars(Finish(t))
        /\ \A m \in Req \cup Answer \cup Death : WF_vars(m \in net /\ Receive(m))
        /\ WF_vars(ResendAllTrans)

-------------------------------------------------------------------------------
TypeOK ==
  /\ pc \in [Trans -> {"new", "blocked", "waiting", "returned"}]
  /\ mWaitMap \subseteq Trans
  /\ mAckSids \in [Trans -> SUBSET Cube]
  /\ mDeathSids \in [Trans -> SUBSET (Cube \cup {Self})]
  /\ mCacheSize \in [Key -> Nat]
  /\ mResendReq \in 0..MaxResends /\ resends \in 0..MaxResends
  /\ respRecved \subseteq Trans /\ svrDeath \subseteq Trans
  /\ posts \in [Trans -> Nat]
  /\ respLate \in [Trans -> Nat] /\ deathLate \in [Trans -> Nat]
  /\ net \subseteq Req \cup Answer \cup Death
  /\ master \in Cube /\ dead \subseteq Cube
  /\ heard \in [Trans -> SUBSET Cube]

\* The size of a send key is that of the transactions that wait, so that it
\* never wraps below zero and no room is lost (addToWaitQueue,
\* removeFromWaitQueue, whichever of three handlers removes).
CacheIsWhatWaits ==
  \A k \in Key : mCacheSize[k] = MapThenSumSet(LAMBDA t : Size[t],
                                               {t \in mWaitMap : SendKey[t] = k})

\* A sender that waits can still be woken: its transaction is in the map, or a
\* post is made or about to be (recvAck, recvResp, recvSvrDeath).
WaiterIsKnown ==
  \A t \in Trans : pc[t] = "waiting" =>
    t \in mWaitMap \/ posts[t] > 0 \/ respLate[t] > 0 \/ deathLate[t] > 0

\* sendTrans: "if(!svr_death) aos_assert_r(resp, false)": who returns from
\* waitResp has the response, or its server is dead.
ReturnsWithResp ==
  \A t \in NeedResp : pc[t] = "returned" => t \in respRecved \cup svrDeath

\* Has t left the map, its servers all heard of?  Each has acknowledged it or
\* was reported dead (AosWaitInfo).
Forgotten(t) == /\ Kind[t] = "saved" /\ pc[t] \in {"waiting", "returned"}
                /\ t \notin mWaitMap /\ heard[t] # Cube

\* While no server has died, a saved transaction leaves the map only when every
\* server of the cube has acknowledged it, whatever is lost, sent again or
\* answered twice (AosWaitInfo::addAck, isAckFinish).
LeavesWhenAllHeard == dead = {} => \A t \in Trans : ~Forgotten(t)

\* The same when servers die: "if(ack_finish)" (TransClient.cpp, recvSvrDeath)
\* counts a dead server once.
NoneForgotten == \A t \in Trans : ~Forgotten(t)

\* Whoever sends gets room, and an answer.
SendersReturn == \A t \in Trans : pc[t] \in {"blocked", "waiting"} ~> pc[t] = "returned"

\* "resp has come and ack_finish" (TransClient.cpp, recvAck): then the
\* transaction leaves the map.
CompletedLeaves ==
  \A t \in NeedResp :
    t \in respRecved /\ AckFinish(mAckSids[t], mDeathSids[t], t) /\ respLate[t] = 0
      => t \notin mWaitMap

\* "death svr is another ack" (WaitInfo.cpp, isAckFinish): when each server has
\* acknowledged or is reported dead, the acknowledgements are complete.
DeathIsAnAck ==
  \A t \in mWaitMap : Kind[t] = "saved" /\ heard[t] = Cube
                        => AckFinish(mAckSids[t], mDeathSids[t], t)
==============================================================================
