----------------------------- MODULE MCTransClient -----------------------------
(* The transactions of the instances.                                         *)
EXTENDS TransClient

CONSTANTS t1, t2, t3, k1, k2, s1, s2, s3

KindMixed == [t \in Trans |-> IF t = t2 THEN "task" ELSE "saved"]
KindSaved == [t \in Trans |-> "saved"]
KindCube == [t \in Trans |-> "cube"]

ToFirst == [t \in Trans |-> s1]
OneKey == [t \in Trans |-> k1]
TwoKeys == [t \in Trans |-> IF t = t3 THEN k2 ELSE k1]
Sizes == [t \in Trans |-> IF t = t1 THEN 2 ELSE 1]
==============================================================================
