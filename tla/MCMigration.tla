---------------------------- MODULE MCMigration ----------------------------
(* Node n1 leaves and n3 joins: {n1, n2} becomes {n2, n3}. *)
EXTENDS Migration

CONSTANTS n1, n2, n3, k1, k2, w1

(* n1 gives k1 to the node that joins and k2 to one that begins on its own. *)
MCOld == [k \in Keys |-> n1]
MCNew == [k \in Keys |-> IF k = k1 THEN n3 ELSE n2]
=============================================================================
