--------------------------- MODULE TransIdMgrProofs ---------------------------
(***************************************************************************)
(* Proofs about TransIdMgr for blocks of any size and any number of ids    *)
(* and crashes.                                                            *)
(***************************************************************************)
EXTENDS TransIdMgr, TLAPS

Below(n) == \A i \in DOMAIN issued : issued[i] < n

(* What is left of the block ends at the number in the file, and what has  *)
(* been handed out is below both what is next and the number after it.     *)
BlockInv ==
  /\ Below(mFile + 1)
  /\ mgr = "reserving" => mNumTransId = eNumTransId /\ mNextTransSubId = mFile + 1
  /\ mgr = "up" => /\ mNumTransId > 0 /\ mNextTransSubId + mNumTransId = mFile + 1
                   /\ Below(mNextTransSubId)
  /\ mgr = "loading" => /\ mNumTransId = 0 /\ mNextTransSubId = mFile + 1
                        /\ taken = mFile /\ Below(taken)

IInv == TypeOK /\ BlockInv /\ IdsIncrease

(* A sequence of increasing ids with one above them all at its end.        *)
LEMMA HandOutOne ==
  ASSUME TypeOK, IdsIncrease, NEW n \in Nat, Below(n), issued' = Append(issued, n)
  PROVE  /\ issued' \in Seq(Nat) /\ IdsIncrease'
         /\ \A m \in Nat : n < m => Below(m)'
<1>1. /\ issued \in Seq(Nat) /\ Len(issued) \in Nat
      /\ DOMAIN issued = 1..Len(issued)
  BY DEF TypeOK
<1>2. /\ issued' \in Seq(Nat) /\ DOMAIN issued' = 1..(Len(issued) + 1)
      /\ \A i \in 1..Len(issued) : issued'[i] = issued[i]
      /\ issued'[Len(issued) + 1] = n
  BY <1>1
<1>3. \A i \in 1..(Len(issued) + 1) : i \in 1..Len(issued) \/ i = Len(issued) + 1
  BY <1>1
<1>4. ASSUME NEW i \in DOMAIN issued', NEW j \in DOMAIN issued', i < j
      PROVE  issued'[i] < issued'[j]
  <2>1. i \in 1..Len(issued)
    BY <1>1, <1>2, <1>4
  <2>2. CASE j \in 1..Len(issued)
    BY <1>1, <1>2, <1>4, <2>1, <2>2 DEF IdsIncrease
  <2>3. CASE j = Len(issued) + 1
    BY <1>1, <1>2, <2>1, <2>3 DEF Below
  <2> QED BY <1>2, <1>3, <2>2, <2>3
<1>5. ASSUME NEW m \in Nat, n < m PROVE Below(m)'
  <2> SUFFICES ASSUME NEW i \in DOMAIN issued' PROVE issued'[i] < m
    BY DEF Below
  <2>1. CASE i \in 1..Len(issued)
    <3>1. issued[i] \in Nat /\ issued[i] < n
      BY <1>1, <2>1 DEF Below
    <3> QED BY <1>2, <1>5, <2>1, <3>1
  <2>2. CASE i = Len(issued) + 1
    BY <1>2, <1>5, <2>2
  <2> QED BY <1>2, <1>3, <2>1, <2>2
<1> QED BY <1>2, <1>4, <1>5 DEF IdsIncrease

LEMMA InitInv == Init => IInv
<1> SUFFICES ASSUME Init PROVE IInv
  OBVIOUS
<1>1. DOMAIN issued = {}
  BY DEF Init
<1> QED BY <1>1, IdAssumption DEF Init, IInv, TypeOK, BlockInv, IdsIncrease, Below

(* Every step keeps the invariant.                                         *)
LEMMA StepInv == IInv /\ [Next]_vars => IInv'
<1> SUFFICES ASSUME IInv, [Next]_vars PROVE IInv'
  OBVIOUS
<1> USE IdAssumption
<1>0. TypeOK /\ BlockInv /\ IdsIncrease
  BY DEF IInv
<1>1. CASE ReadFile
  BY <1>0, <1>1 DEF IInv, TypeOK, BlockInv, IdsIncrease, Below, ReadFile
<1>2. CASE WriteFile
  <2>1. Below(mFile + 1) /\ mFile \in Nat /\ mFile' \in Nat /\ mFile + 1 <= mFile' + 1
    BY <1>0, <1>2 DEF TypeOK, BlockInv, WriteFile, NewSeq
  <2>2. ASSUME NEW i \in DOMAIN issued PROVE issued[i] < mFile' + 1
    <3>1. issued[i] \in Nat /\ issued[i] < mFile + 1
      BY <1>0, <2>1 DEF TypeOK, Below
    <3>2. PICK n \in Nat : mFile' = n /\ mFile + 1 <= n + 1
      BY <2>1
    <3> QED BY <2>1, <3>1, <3>2
  <2> QED BY <1>0, <1>2, <2>1, <2>2 DEF IInv, TypeOK, BlockInv, IdsIncrease, Below, WriteFile, NewSeq
<1>3. CASE TakeId
  <2>1. /\ mgr = "up" /\ mNumTransId \in 1..eNumTransId /\ mNextTransSubId \in Nat
        /\ mFile \in Nat /\ mNextTransSubId + mNumTransId = mFile + 1
        /\ Below(mNextTransSubId) /\ mNumTransId' = mNumTransId - 1
        /\ mNextTransSubId' = mNextTransSubId + 1 /\ taken' = mNextTransSubId /\ mFile' = mFile
    BY <1>0, <1>3 DEF TypeOK, BlockInv, TakeId
  <2>2. CASE mNumTransId' = 0
    BY <1>0, <1>3, <2>1, <2>2 DEF IInv, TypeOK, BlockInv, IdsIncrease, Below, TakeId
  <2>3. CASE mNumTransId' # 0
    <3>1. issued' = Append(issued, mNextTransSubId) /\ mgr' = "up" /\ crashes' = crashes
      BY <2>1, <2>3, <1>3 DEF TakeId
    <3>2. /\ issued' \in Seq(Nat) /\ IdsIncrease'
          /\ \A m \in Nat : mNextTransSubId < m => Below(m)'
      BY <1>0, <2>1, <3>1, HandOutOne
    <3>3. /\ mNextTransSubId' \in Nat /\ mNextTransSubId < mNextTransSubId'
          /\ mFile' + 1 \in Nat /\ mNextTransSubId < mFile' + 1
      BY <2>1
    <3>4. /\ \A i \in DOMAIN issued' : issued'[i] < mNextTransSubId'
          /\ \A i \in DOMAIN issued' : issued'[i] < mFile' + 1
      BY <3>2, <3>3 DEF Below
    <3>5. TypeOK'
      BY <1>0, <2>1, <2>3, <3>1, <3>2 DEF TypeOK
    <3>6. BlockInv'
      BY <2>1, <2>3, <3>1, <3>4 DEF BlockInv, Below
    <3> QED BY <3>2, <3>5, <3>6 DEF IInv
  <2> QED BY <2>2, <2>3
<1>4. CASE LoadNewTransId
  <2>1. /\ mgr = "loading" /\ mNumTransId = 0 /\ mNextTransSubId = mFile + 1
        /\ taken = mFile /\ Below(taken) /\ mFile \in Nat /\ taken \in Nat
        /\ mFile' = mFile + eNumTransId /\ issued' = Append(issued, taken)
        /\ mgr' = "up" /\ mNumTransId' = eNumTransId
        /\ mNextTransSubId' = mNextTransSubId /\ taken' = taken /\ crashes' = crashes
    BY <1>0, <1>4 DEF TypeOK, BlockInv, LoadNewTransId, NewSeq, NumTransId
  <2>2. /\ issued' \in Seq(Nat) /\ IdsIncrease'
        /\ \A m \in Nat : taken < m => Below(m)'
    BY <1>0, <2>1, HandOutOne
  <2>3. /\ \A i \in DOMAIN issued' : issued'[i] < mFile' + 1
        /\ \A i \in DOMAIN issued' : issued'[i] < mNextTransSubId'
    <3>1. mFile' + 1 \in Nat /\ taken < mFile' + 1 /\ mNextTransSubId' \in Nat
          /\ taken < mNextTransSubId'
      BY <2>1
    <3> QED BY <2>2, <3>1 DEF Below
  <2>4. TypeOK'
    BY <1>0, <2>1, <2>2 DEF TypeOK
  <2>5. BlockInv'
    BY <2>1, <2>3 DEF BlockInv, Below
  <2> QED BY <2>2, <2>4, <2>5 DEF IInv
<1>5. CASE Crash
  BY <1>0, <1>5 DEF IInv, TypeOK, BlockInv, IdsIncrease, Below, Crash
<1>6. CASE UNCHANGED vars
  BY <1>0, <1>6 DEF IInv, TypeOK, BlockInv, IdsIncrease, Below, vars
<1> QED BY <1>1, <1>2, <1>3, <1>4, <1>5, <1>6 DEF Next

LEMMA Invariance == Spec => []IInv
BY InitInv, StepInv, PTL DEF Spec

(* AosTransIdMgr's counters and its file keep their types, for a block of  *)
(* any size (init, nextTransId, loadNewTransId).                           *)
THEOREM TypeCorrect == Spec => []TypeOK
<1>1. IInv => TypeOK
  BY DEF IInv
<1> QED BY <1>1, Invariance, PTL

(* Ids only ever grow, whenever the process crashes and whatever is left   *)
(* of a block is lost (nextTransId, loadNewTransId, init).                 *)
THEOREM IdsAlwaysIncrease == Spec => []IdsIncrease
<1>1. IInv => IdsIncrease
  BY DEF IInv
<1> QED BY <1>1, Invariance, PTL

(* The check for a mismatch in loadNewTransId never fires.                 *)
THEOREM BlocksEndAtFile == Spec => []BlockEndsAtFile
<1>1. IInv => BlockEndsAtFile
  BY DEF IInv, BlockInv, BlockEndsAtFile
<1> QED BY <1>1, Invariance, PTL
===============================================================================
