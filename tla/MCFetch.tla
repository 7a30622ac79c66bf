------------------------------ MODULE MCFetch ------------------------------
(* Gets of one key on small instances. *)
EXTENDS Fetch
=============================================================================
