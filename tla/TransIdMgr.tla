------------------------------ MODULE TransIdMgr ------------------------------
(***************************************************************************)
(* AosTransIdMgr: transaction ids are taken from a block that has been     *)
(* reserved in a file.  The file is written before the first id of a block *)
(* is used, and when the last one is taken, before it is handed out; a     *)
(* restart skips what is left of the block.                                *)
(***************************************************************************)
EXTENDS Naturals, Sequences

CONSTANTS eNumTransId,  \* ids reserved at once
          MaxIssued,    \* bound: ids handed out
          MaxCrashes    \* bound

ASSUME IdAssumption == /\ eNumTransId \in Nat \ {0}
                       /\ MaxIssued \in Nat /\ MaxCrashes \in Nat

VARIABLES mNextTransSubId, mNumTransId,
          mFile,      \* the number in the file
          mgr,        \* "down", "reserving" (init), "up", "loading" (nextTransId)
          taken,      \* the id that nextTransId is about to return
          issued,     \* history: the ids handed out
          crashes

vars == <<mNextTransSubId, mNumTransId, mFile, mgr, taken, issued, crashes>>

Init == /\ mNextTransSubId = 0 /\ mNumTransId = 0
        /\ mFile = 0 /\ mgr = "down" /\ taken = 0
        /\ issued = <<>> /\ crashes = 0

\* init reads the file, then writes it; it is done when the write is.
ReadFile ==
  /\ mgr = "down"
  /\ mgr' = "reserving"
  /\ mNextTransSubId' = mFile + 1
  /\ mNumTransId' = eNumTransId
  /\ UNCHANGED <<mFile, taken, issued, crashes>>

\* Mutant: init reserves nothing.
Reserved == mFile

NewSeq == mFile + eNumTransId

WriteFile ==
  /\ mgr = "reserving"
  /\ mgr' = "up"
  /\ mFile' = NewSeq
  /\ UNCHANGED <<mNextTransSubId, mNumTransId, taken, issued, crashes>>

\* nextTransId, under mLock.
TakeId ==
  /\ mgr = "up" /\ Len(issued) < MaxIssued
  /\ taken' = mNextTransSubId
  /\ mNextTransSubId' = mNextTransSubId + 1
  /\ mNumTransId' = mNumTransId - 1
  /\ IF mNumTransId' = 0 THEN mgr' = "loading" /\ UNCHANGED issued
     ELSE mgr' = mgr /\ issued' = Append(issued, taken')
  /\ UNCHANGED <<mFile, crashes>>

\* Mutant: the new block is not counted.
NumLeft == mNumTransId

NumTransId == eNumTransId

\* loadNewTransId writes the file before the id is returned.
LoadNewTransId ==
  /\ mgr = "loading"
  /\ mgr' = "up"
  /\ mFile' = NewSeq
  /\ mNumTransId' = NumTransId
  /\ issued' = Append(issued, taken)
  /\ UNCHANGED <<mNextTransSubId, taken, crashes>>

Crash ==
  /\ mgr # "down" /\ crashes < MaxCrashes
  /\ crashes' = crashes + 1
  /\ mgr' = "down"
  /\ mNextTransSubId' = 0 /\ mNumTransId' = 0 /\ taken' = 0
  /\ UNCHANGED <<mFile, issued>>

Next == ReadFile \/ WriteFile \/ TakeId \/ LoadNewTransId \/ Crash
Spec == Init /\ [][Next]_vars

TypeOK == /\ mNextTransSubId \in Nat /\ mNumTransId \in 0..eNumTransId
          /\ mFile \in Nat
          /\ mgr \in {"down", "reserving", "up", "loading"}
          /\ taken \in Nat
          /\ issued \in Seq(Nat)
          /\ crashes \in 0..MaxCrashes

\* Ids only ever grow, across restarts and lost blocks: none is given twice, and
\* the servers may compare them (CubeMasterTransSvr::procResendTrans).
IdsIncrease == \A i, j \in DOMAIN issued : i < j => issued[i] < issued[j]

\* loadNewTransId: "trans seq id mismatch" is an alarm: when a block ends, its
\* last id is the number in the file.
BlockEndsAtFile == mgr = "loading" => taken = mFile
==============================================================================
