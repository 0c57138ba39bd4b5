-------------------------- MODULE RaftCandidate --------------------------
(***************************************************************************)
(* The candidate: candidateMain of the main thread and the handlers the    *)
(* message thread runs for it (JimoRaft/RaftCandidate.cpp).                *)
(***************************************************************************)
EXTENDS RaftServer

(* candidateInit, the loop test and, if it succeeds, what incCurTermId     *)
(* reads. A group of one server has no election: its candidate becomes the *)
(* leader. The role may have been taken since the switch.                  *)
CandidateInit(s) ==
  /\ mainPc[s] = "candidateInit"
  /\ InitVote(s)
  /\ mNumVotedForMe' = [mNumVotedForMe EXCEPT ![s] = 0]
  /\ mLeaderId' = [mLeaderId EXCEPT ![s] = Nil]
  /\ \/ /\ Peers(s) = {}
        /\ mRole' = [mRole EXCEPT ![s] = "eLeader"]
        /\ mainPc' = [mainPc EXCEPT ![s] = "switch"]
        /\ UNCHANGED termRead
     \/ /\ Peers(s) # {} /\ mRole[s] = "eCandidate"
        /\ mainPc' = [mainPc EXCEPT ![s] = "candidateRound"]
        /\ termRead' = [termRead EXCEPT ![s] = mCurTermId[s]]
        /\ UNCHANGED mRole
     \/ /\ Peers(s) # {} /\ mRole[s] # "eCandidate"
        /\ mainPc' = [mainPc EXCEPT ![s] = "switch"]
        /\ UNCHANGED <<mRole, termRead>>
  /\ UNCHANGED <<granting, mHeartBeatRecved, mCurTermId, logVars, peerVars, dataVars, net>>

(* incCurTermId. Nothing orders its read and its write with a stepDown of  *)
(* the message thread: it adds 1 to the term of now or to the one it read  *)
(* before. The message thread may have changed the role too: the round is  *)
(* started all the same.                                                   *)
CandidateRound(s) ==
  /\ mainPc[s] = "candidateRound"
  /\ \E term \in {mCurTermId[s], termRead[s]} :
       /\ term < MaxTerm
       /\ mCurTermId' = [mCurTermId EXCEPT ![s] = term + 1]
  /\ termRead' = [termRead EXCEPT ![s] = 0]
  /\ mainPc' = [mainPc EXCEPT ![s] = "candidateVote"]
  /\ UNCHANGED <<mRole, mLeaderId, mHeartBeatRecved, voteVars, logVars, peerVars,
                 dataVars, net>>

VoteReqTo(s, p) ==
  [type |-> "VoteReq", from |-> s, to |-> p, term |-> mCurTermId[s],
   lastLogId |-> LastLogId(s), lastLogTerm |-> LastLogTerm(s)]

(* The rest of the round: the vote for itself and the requests, in the     *)
(* term of now, whomever the message thread has voted for meanwhile.       *)
CandidateVote(s) ==
  /\ mainPc[s] = "candidateVote"
  /\ mVotedFor' = [mVotedFor EXCEPT ![s] = s]
  /\ mVotedForTermId' = [mVotedForTermId EXCEPT ![s] = mCurTermId[s]]
  /\ mNumVotedForMe' = [mNumVotedForMe EXCEPT ![s] = 1]
  /\ Send({}, {VoteReqTo(s, p) : p \in Peers(s)})
  /\ mainPc' = [mainPc EXCEPT ![s] = "candidateWait"]
  /\ UNCHANGED <<mRole, granting, mLeaderId, mHeartBeatRecved, mCurTermId, termRead, logVars,
                 peerVars, dataVars>>

(* The timedWait ends: another round, or back to the switch.               *)
CandidateWake(s) ==
  /\ mainPc[s] = "candidateWait"
  /\ \/ /\ mRole[s] = "eCandidate"
        /\ mainPc' = [mainPc EXCEPT ![s] = "candidateRound"]
        /\ termRead' = [termRead EXCEPT ![s] = mCurTermId[s]]
     \/ /\ mRole[s] # "eCandidate"
        /\ mainPc' = [mainPc EXCEPT ![s] = "switch"]
        /\ UNCHANGED termRead
  /\ UNCHANGED <<mRole, mLeaderId, mHeartBeatRecved, mCurTermId, voteVars, logVars,
                 peerVars, dataVars, net>>

---------------------------------------------------------------------------
(* candidateHandleAppendEntryReq: the request itself is not looked at.     *)
CandidateHandleAppendEntryReq(s, m) ==
  /\ m.type = "AppendEntryReq"
  /\ RoleFor(s, m) = "eCandidate"
  /\ UNCHANGED <<mCurTermId, mLeaderId, mHeartBeatRecved, mainVars, voteVars, logVars,
                 peerVars, dataVars>>
  /\ \/ /\ mCurTermId[s] > m.term
        /\ Send({m}, {AppendRspTo(s, m, FALSE)})
        /\ UNCHANGED mRole
     \/ /\ mCurTermId[s] <= m.term
        /\ Send({m}, {})
        /\ mRole' = [mRole EXCEPT ![s] = "eFollower"]

(* candidateHandleVoteRsp: mResult is not looked at, nor is the sender.    *)
CandidateHandleVoteRsp(s, m) ==
  /\ m.type = "VoteRsp"
  /\ RoleFor(s, m) = "eCandidate"
  /\ Send({m}, {})
  /\ \/ /\ m.votedFor = s /\ m.votedForTermId = mCurTermId[s]
        /\ mNumVotedForMe' = [mNumVotedForMe EXCEPT ![s] = Inc(@)]
        /\ mRole' = [mRole EXCEPT ![s] =
                       IF mNumVotedForMe'[s] > Half THEN "eLeader" ELSE @]
     \/ /\ m.votedFor # s \/ m.votedForTermId # mCurTermId[s]
        /\ UNCHANGED <<mNumVotedForMe, mRole>>
  /\ UNCHANGED <<mCurTermId, mLeaderId, mHeartBeatRecved, mainVars, mVotedFor,
                 mVotedForTermId, granting, logVars, peerVars, dataVars>>
===========================================================================
