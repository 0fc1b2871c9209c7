------------------------------ MODULE LinkCache ------------------------------
(***************************************************************************)
(* The cache-aside lookup of the redirect path and the writes that must    *)
(* invalidate it (linkService.ts), for one short code: every Redis key and *)
(* every statement involved names exactly one short code, so the codes do  *)
(* not interact.                                                           *)
(*                                                                         *)
(* Each await is a step of its own: a lookup is GET, SELECT, SET; a write  *)
(* is the committed SQL statement, then DEL.  A statement of Postgres and  *)
(* a command of Redis are atomic.  The contents of the row are abstracted  *)
(* to a version number, fresh at each committed write; a PATCH or DELETE   *)
(* whose WHERE clause matches nothing, and every 409, change no state.     *)
(*                                                                         *)
(* `causes' and `overlapped' are history variables: they record why the    *)
(* cached entry may disagree with the row and never enable anything.       *)
(***************************************************************************)
EXTENDS Integers

CONSTANTS
  Readers,     \* concurrent requests that look the code up (GET and unlock)
  Writers,     \* concurrent requests that create, edit or delete the link
  MaxVersion,  \* bound: committed writes to the row
  NoRow,       \* the SELECT returns no row; cached as '__MISS__'
  Absent       \* the Redis key does not exist

Versions == 1..MaxVersion
Rows     == Versions \union {NoRow}

ASSUME LinkCacheAssumption ==
  /\ MaxVersion \in Nat
  /\ NoRow \notin Versions
  /\ Absent \notin Rows

(* Why an entry may be stale: filled from a SELECT older than a write;     *)
(* its DEL failed or was never sent; the write sends no DEL at all.        *)
Causes == {"overlap", "lostDel", "noDel"}

VARIABLES
  row,         \* the committed row of the short code
  version,     \* versions used so far
  entry,       \* the value under link:<shortCode> in Redis
  causes,      \* history: why entry may be stale
  rpc,         \* where each lookup is
  snap,        \* the link each lookup holds: its SELECT's row or its answer
  overlapped,  \* history: a write committed since this lookup's SELECT
  wpc          \* where each write request is

dbVars     == <<row, version>>
cacheVars  == <<entry, causes>>
readerVars == <<rpc, snap, overlapped>>
vars       == <<dbVars, cacheVars, readerVars, wpc>>

TypeOK ==
  /\ row \in Rows
  /\ version \in 0..MaxVersion
  /\ entry \in Rows \union {Absent}
  /\ causes \in SUBSET Causes
  /\ rpc \in [Readers -> {"idle", "select", "set", "answered"}]
  /\ snap \in [Readers -> Rows]
  /\ overlapped \in [Readers -> BOOLEAN]
  /\ wpc \in [Writers -> {"idle", "insert", "del"}]

Init ==
  /\ row = NoRow
  /\ version = 0
  /\ entry = Absent
  /\ causes = {}
  /\ rpc = [r \in Readers |-> "idle"]
  /\ snap = [r \in Readers |-> NoRow]
  /\ overlapped = [r \in Readers |-> FALSE]
  /\ wpc = [w \in Writers |-> "idle"]

-----------------------------------------------------------------------------
(* Lookups: getLinkByShortCode. *)

(* getCachedLink finds a link or the miss sentinel and returns it. *)
GetHit(r) ==
  /\ rpc[r] = "idle"
  /\ entry # Absent
  /\ rpc' = [rpc EXCEPT ![r] = "answered"]
  /\ snap' = [snap EXCEPT ![r] = entry]
  /\ UNCHANGED <<dbVars, cacheVars, overlapped, wpc>>

(* Mutant: a link found before is kept in memory and spares the SELECT. *)
GetMissKeeps(r) ==
  /\ rpc[r] = "idle"
  /\ rpc' = [rpc EXCEPT ![r] = IF snap[r] = NoRow THEN "select" ELSE "set"]
  /\ UNCHANGED <<dbVars, cacheVars, snap, overlapped, wpc>>

(* The key is absent, or GET or the parse fails: fall through to Postgres. *)
GetMiss(r) ==
  /\ rpc[r] = "idle"
  /\ rpc' = [rpc EXCEPT ![r] = "select"]
  /\ UNCHANGED <<dbVars, cacheVars, snap, overlapped, wpc>>

Select(r) ==
  /\ rpc[r] = "select"
  /\ rpc' = [rpc EXCEPT ![r] = "set"]
  /\ snap' = [snap EXCEPT ![r] = row]
  /\ overlapped' = [overlapped EXCEPT ![r] = FALSE]
  /\ UNCHANGED <<dbVars, cacheVars, wpc>>

(* setCachedLink or setCachedMiss: an unconditional SET ... EX.            *)
Set(r) ==
  /\ rpc[r] = "set"
  /\ entry' = snap[r]
  /\ causes' = IF overlapped[r] THEN {"overlap"} ELSE {}
  /\ rpc' = [rpc EXCEPT ![r] = "answered"]
  /\ UNCHANGED <<dbVars, snap, overlapped, wpc>>

(* SET fails; the error is logged and the link returned all the same.      *)
SetFails(r) ==
  /\ rpc[r] = "set"
  /\ rpc' = [rpc EXCEPT ![r] = "answered"]
  /\ UNCHANGED <<dbVars, cacheVars, snap, overlapped, wpc>>

(* The request ends: answered, or its SELECT threw, or its process died.   *)
EndLookup(r) ==
  /\ rpc[r] # "idle"
  /\ rpc' = [rpc EXCEPT ![r] = "idle"]
  /\ UNCHANGED <<dbVars, cacheVars, snap, overlapped, wpc>>

-----------------------------------------------------------------------------
(* Writes. *)

(* A statement that leaves the row as `new' commits: every lookup that has *)
(* run its SELECT and not yet its SET now holds a row from before a write. *)
Commit(new) ==
  /\ version < MaxVersion
  /\ version' = version + 1
  /\ row' = new
  /\ overlapped' = [r \in Readers |-> overlapped[r] \/ rpc[r] = "set"]

(* createLink's pre-check for a custom alias passes.                       *)
PreCheck(w) ==
  /\ wpc[w] = "idle"
  /\ row = NoRow
  /\ wpc' = [wpc EXCEPT ![w] = "insert"]
  /\ UNCHANGED <<dbVars, cacheVars, readerVars>>

(* insertLink under the alias succeeds; the DEL of the negative entry is   *)
(* still to come.                                                          *)
InsertAlias(w) ==
  /\ wpc[w] = "insert"
  /\ row = NoRow
  /\ Commit(version + 1)
  /\ wpc' = [wpc EXCEPT ![w] = "del"]
  /\ UNCHANGED <<cacheVars, rpc, snap>>

(* 23505: another request took the alias since the pre-check; 409.         *)
LoseInsertRace(w) ==
  /\ wpc[w] = "insert"
  /\ row # NoRow
  /\ wpc' = [wpc EXCEPT ![w] = "idle"]
  /\ UNCHANGED <<dbVars, cacheVars, readerVars>>

(* Mutant: updateLink without the invalidation. *)
UpdateOnly(w) ==
  /\ wpc[w] = "idle"
  /\ row # NoRow
  /\ Commit(version + 1)
  /\ UNCHANGED <<cacheVars, rpc, snap, wpc>>

(* updateLink's UPDATE matches and commits.                                *)
Update(w) ==
  /\ wpc[w] = "idle"
  /\ row # NoRow
  /\ Commit(version + 1)
  /\ wpc' = [wpc EXCEPT ![w] = "del"]
  /\ UNCHANGED <<cacheVars, rpc, snap>>

(* Mutant: deleteLink invalidates before its DELETE instead of after it. *)
DelThenDelete(w) ==
  /\ \/ /\ wpc[w] = "idle"
        /\ row # NoRow
        /\ entry' = Absent
        /\ causes' = {}
        /\ wpc' = [wpc EXCEPT ![w] = "insert"]
        /\ UNCHANGED dbVars
        /\ UNCHANGED overlapped
     \/ /\ wpc[w] = "insert"
        /\ row # NoRow
        /\ Commit(NoRow)
        /\ wpc' = [wpc EXCEPT ![w] = "idle"]
        /\ UNCHANGED cacheVars
  /\ UNCHANGED <<rpc, snap>>

(* deleteLink's DELETE matches and commits.                                *)
Delete(w) ==
  /\ wpc[w] = "idle"
  /\ row # NoRow
  /\ Commit(NoRow)
  /\ wpc' = [wpc EXCEPT ![w] = "del"]
  /\ UNCHANGED <<cacheVars, rpc, snap>>

(* invalidateLinkCache.                                                    *)
Del(w) ==
  /\ wpc[w] = "del"
  /\ entry' = Absent
  /\ causes' = {}
  /\ wpc' = [wpc EXCEPT ![w] = "idle"]
  /\ UNCHANGED <<dbVars, readerVars>>

(* The write stands but its DEL does not happen: Redis fails and the error *)
(* is swallowed, the process dies first, or the statement's reply is lost  *)
(* and the service throws before it gets to the DEL.                       *)
LoseDel(w) ==
  /\ wpc[w] = "del"
  /\ causes' = IF entry = Absent THEN {} ELSE causes \union {"lostDel"}
  /\ wpc' = [wpc EXCEPT ![w] = "idle"]
  /\ UNCHANGED <<dbVars, entry, readerVars>>

(* The writes that send no DEL: createLink's generated code (it happens to *)
(* be this code), the worker's click_count increment and its sweep.        *)
CommitWithoutDel ==
  /\ Commit(version + 1)
  /\ causes' = IF entry = Absent THEN {} ELSE causes \union {"noDel"}
  /\ UNCHANGED <<entry, rpc, snap, wpc>>

InsertGenerated == row = NoRow /\ CommitWithoutDel
WorkerWrite     == row # NoRow /\ CommitWithoutDel

-----------------------------------------------------------------------------
(* Mutant: the SET of a link without EX, so that only misses expire. *)
ExpireMiss ==
  /\ entry = NoRow
  /\ entry' = Absent
  /\ causes' = {}
  /\ UNCHANGED <<dbVars, readerVars, wpc>>

(* The entry's TTL (300, 5 or 30 s) runs out, or Redis loses the key.      *)
Expire ==
  /\ entry # Absent
  /\ entry' = Absent
  /\ causes' = {}
  /\ UNCHANGED <<dbVars, readerVars, wpc>>

Lookup(r) == \/ GetHit(r) \/ GetMiss(r) \/ Select(r)
             \/ Set(r) \/ SetFails(r) \/ EndLookup(r)

Write(w) == \/ PreCheck(w) \/ InsertAlias(w) \/ LoseInsertRace(w)
            \/ Update(w) \/ Delete(w) \/ Del(w) \/ LoseDel(w)

Next ==
  \/ \E r \in Readers : Lookup(r)
  \/ \E w \in Writers : Write(w)
  \/ InsertGenerated
  \/ WorkerWrite
  \/ Expire

Spec == Init /\ [][Next]_vars

(* Redis expires keys; a request that got past its SQL statement runs on   *)
(* to its end (the event loop does not drop a continuation).  Nothing      *)
(* obliges anyone to start a lookup or a write.                            *)
Fairness ==
  /\ WF_vars(Expire)
  /\ \A r \in Readers : WF_vars(rpc[r] = "set" /\ (Set(r) \/ SetFails(r)))
  /\ \A w \in Writers : WF_vars(Del(w) \/ LoseDel(w))

FairSpec == Spec /\ Fairness

-----------------------------------------------------------------------------
Stale == entry # Absent /\ entry # row

DelPending == \E w \in Writers : wpc[w] = "del"

(* A cached entry that differs from the row is accounted for: a write's    *)
(* DEL is still on its way, or that entry outlived a DEL that was lost or  *)
(* never sent, or it was SET from a SELECT that a write overtook.  In      *)
(* particular a write whose DEL went through leaves nothing stale behind   *)
(* except what an overtaken fill puts back (linkService.ts:443-451).       *)
StaleEntryExplained == Stale => DelPending \/ causes # {}

(* What makes it inductive: a fill nothing overtook still holds the row.   *)
FillIsCurrent ==
  \A r \in Readers : rpc[r] = "set" /\ ~overlapped[r] => snap[r] = row

Inv == TypeOK /\ FillIsCurrent /\ StaleEntryExplained

(* Lookup r has its answer with this step.                                 *)
Answers(r) == rpc[r] # "answered" /\ rpc'[r] = "answered"

(* A lookup that answers with something else than the row (an old version, *)
(* a link that is gone, a 404 for one that exists) does so only while a    *)
(* write's DEL is on its way, from an entry with one of the three causes,  *)
(* or because a write overtook this very lookup (linkService.ts:511-532).  *)
AnswersExplained ==
  [][\A r \in Readers :
       Answers(r) /\ snap'[r] # row =>
         \/ DelPending
         \/ rpc[r] = "idle" /\ causes # {}
         \/ rpc[r] = "set" /\ overlapped[r]]_vars

(* Nothing is left of any write: no DEL is to come, no fill still holds a  *)
(* row from before one, and the entry has no cause to be stale.            *)
Settled ==
  /\ ~DelPending
  /\ causes = {}
  /\ \A r \in Readers : rpc[r] = "set" => ~overlapped[r]

(* The cache then agrees with the row, and only another write can undo     *)
(* that: no lookup, expiry or write that loses its race puts an old value  *)
(* back (linkService.ts:330-335, 443-451).                                 *)
AgreementLasts == [][Settled /\ UNCHANGED version => Settled' /\ ~Stale']_vars

(* Whatever went wrong with the invalidation, once the writes stop the TTL *)
(* makes the cache agree with the row for good (linkService.ts:330-335).   *)
StalenessEnds == <>[]~Stale
=============================================================================
