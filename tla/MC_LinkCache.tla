---------------------------- MODULE MC_LinkCache ----------------------------
(* LinkCache on a small instance.  Liveness is checked: no symmetry.       *)
EXTENDS LinkCache
=============================================================================
