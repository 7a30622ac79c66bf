----------------------------- MODULE MCServing -----------------------------
(* One connection on small instances. *)
EXTENDS Serving
=============================================================================
