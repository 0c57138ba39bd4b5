---------------------------- MODULE MCTaskDispatch ----------------------------
(* Where the tasks of the instances are bound.                                *)
EXTENDS TaskDispatch

CONSTANTS t1, t2, t3, s1, s2

FirstBound == [t \in Task |-> IF t = t1 THEN s1 ELSE Nil]
===============================================================================
