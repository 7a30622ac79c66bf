------------------------------- MODULE MCArc -------------------------------
(* The cache on small instances. *)
EXTENDS Arc, TLC

Symmetry == Permutations(Threads) \cup Permutations(Keys) \cup Permutations(Objs)
=============================================================================
