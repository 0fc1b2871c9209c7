--------------------------- MODULE MC_RedisOutage ---------------------------
(***************************************************************************)
(* RedisOutage on small instances.  Three requests of any kinds let two    *)
(* callbacks compete for the state of one sign-in; two requests suffice    *)
(* to wait for a Redis that never returns.  Liveness is checked, so no     *)
(* symmetry.                                                               *)
(***************************************************************************)
EXTENDS RedisOutage

CONSTANT q1

(* With Redis down for good, a request still ends, or gets as far as the   *)
(* queue's client.  One request is watched: they are interchangeable.      *)
OutageTolerated == Tolerates(q1)
=============================================================================
