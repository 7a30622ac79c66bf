------------------------------ MODULE MCItems ------------------------------
(* The operations on one key on small instances. *)
EXTENDS Items, TLC

(* Nothing tells the threads apart. *)
Symmetry == Permutations(Threads)
=============================================================================
