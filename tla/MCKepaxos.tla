----------------------------- MODULE MCKepaxos -----------------------------
(* Kepaxos on small instances. *)
EXTENDS Kepaxos, TLC

Symmetry == Permutations(Values)
=============================================================================
