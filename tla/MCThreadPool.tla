----------------------------- MODULE MCThreadPool -----------------------------
(* Who hands over what, for TLC.                                              *)
EXTENDS ThreadPool, TLC

CONSTANTS c1, c2, t1, t2, t3, t4, t5

\* c1 hands over two tasks, c2 one; one of each hands over another task from
\* its run().
MixedOwners == t1 :> c1 @@ t2 :> t1 @@ t3 :> c2 @@ t4 :> t3 @@ t5 :> c1
==============================================================================
