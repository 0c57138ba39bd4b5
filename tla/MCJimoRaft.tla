---- MODULE MCJimoRaft ----
(* JimoRaft for TLC. Servers that may start an election are               *)
(* interchangeable, so are the others, and so are the values.              *)
EXTENDS JimoRaft, TLC

Symmetry ==
  Permutations(Starters) \cup Permutations(Server \ Starters) \cup Permutations(Value)
====
