-------------------------- MODULE MC_LinkCacheClaim --------------------------
(* LinkCache with a count of the lookups the cache answered wrongly after  *)
(* the DELs were done, to confront the comment at linkService.ts:442-451.  *)
EXTENDS LinkCache

VARIABLE staleReads  \* history: capped at 2

ClaimInit == Init /\ staleReads = 0

(* The runs in which every write sends its DEL and Redis carries it out.   *)
DelsSucceed ==
  \/ \E r \in Readers : Lookup(r)
  \/ \E w \in Writers : \/ PreCheck(w) \/ InsertAlias(w) \/ LoseInsertRace(w)
                        \/ Update(w) \/ Delete(w) \/ Del(w)
  \/ Expire

(* A hit that returns something else than the row with no DEL to come.     *)
StaleHit ==
  /\ \E r \in Readers : rpc[r] = "idle" /\ rpc'[r] = "answered"
  /\ Stale
  /\ ~DelPending

ClaimNext ==
  /\ DelsSucceed
  /\ staleReads' = IF version' # version THEN 0
                   ELSE IF StaleHit /\ staleReads < 2 THEN staleReads + 1
                   ELSE staleReads

ClaimSpec == ClaimInit /\ [][ClaimNext]_<<vars, staleReads>>

(* "Invalidating after the write bounds the same race to a single stale    *)
(* read that self-heals on the very next request once this DEL completes": *)
(* after the DELs, at most one lookup is answered with an outdated link.   *)
SingleStaleRead == staleReads <= 1
=============================================================================
