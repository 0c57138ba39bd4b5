--------------------------- MODULE MCRaftClientPath ---------------------------
(* The calls are interchangeable where no liveness is checked.                *)
EXTENDS RaftClientPath, TLC

CallSymmetry == Permutations(Call)
==============================================================================
