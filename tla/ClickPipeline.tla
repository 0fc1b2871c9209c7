---------------------------- MODULE ClickPipeline ----------------------------
(***************************************************************************)
(* A click from the redirect handler to its row in Postgres: the enqueue   *)
(* of redirect.ts and clickQueue.ts, the BullMQ queue (external, modelled  *)
(* by the guarantees the worker's code is written against), and the        *)
(* worker's transaction (clickProcessor.ts, worker/db/pool.ts).            *)
(*                                                                         *)
(* A slot is one of the concurrent processors of the worker processes.  A  *)
(* statement of a transaction is one step; what a transaction has done and *)
(* not committed is seen in its slot's pc, and other transactions wait on  *)
(* it where Postgres makes them: for an uncommitted row with the same      *)
(* job_id, for a link row with an uncommitted increment, and a DELETE of a *)
(* link for the key-share locks of uncommitted clicks.                     *)
(***************************************************************************)
EXTENDS Naturals, FiniteSets

CONSTANTS
  Clicks,       \* click ids: one randomUUID() per redirect
  Links,        \* link ids
  LinkOf,       \* the link each click is on
  Slots,        \* concurrent job processors, over all worker processes
  NoSlot,       \* nobody holds the job's lock
  NoClick,      \* the slot has no job
  MaxAttempts,  \* `attempts' of the queue's job options
  MaxStalls,    \* how often a job may be recovered from a lost lock
  MaxAdds       \* bound: deliveries of each click's add to Redis

ASSUME ClickPipelineAssumption ==
  /\ LinkOf \in [Clicks -> Links]
  /\ NoSlot \notin Slots
  /\ NoClick \notin Clicks
  /\ MaxAttempts \in Nat \ {0}
  /\ MaxStalls \in Nat
  /\ MaxAdds \in [Clicks -> Nat]

VARIABLES
  visit,     \* where the redirect that made each click is
  adds,      \* deliveries of the click's add so far
  job,       \* the state of each click's job in Redis
  attempts,  \* attemptsMade of each job
  stalls,    \* times each job was recovered
  owner,     \* the slot that holds each job's lock
  pc,        \* where each slot's processor is
  on,        \* the click each slot works on
  links,     \* committed: the links that exist
  recorded,  \* committed: the clicks that have a row
  count      \* committed: click_count of each link, 0 when it is gone

apiVars   == <<visit, adds>>
queueVars == <<job, attempts, stalls, owner>>
slotVars  == <<pc, on>>
dbVars    == <<links, recorded, count>>
vars      == <<apiVars, queueVars, slotVars, dbVars>>

JobStates  == {"none", "waiting", "active", "delayed", "completed", "failed"}
SlotStates == {"idle", "insert", "update", "commitNew", "commitDup", "ok", "fail"}

(* The slots whose transaction has inserted a row and not committed it.    *)
Inserted == {s \in Slots : pc[s] \in {"update", "commitNew"}}

TypeOK ==
  /\ visit \in [Clicks -> {"new", "adding", "redirected"}]
  /\ adds \in [Clicks -> Nat]
  /\ job \in [Clicks -> JobStates]
  /\ attempts \in [Clicks -> 0..MaxAttempts]
  /\ stalls \in [Clicks -> 0..MaxStalls + 1]
  /\ owner \in [Clicks -> Slots \union {NoSlot}]
  /\ pc \in [Slots -> SlotStates]
  /\ on \in [Slots -> Clicks \union {NoClick}]
  /\ \A s \in Slots : pc[s] # "idle" => on[s] \in Clicks
  /\ links \in SUBSET Links
  /\ recorded \in SUBSET Clicks
  /\ IsFiniteSet(recorded)
  /\ count \in [Links -> Nat]

Init ==
  /\ visit = [c \in Clicks |-> "new"]
  /\ adds = [c \in Clicks |-> 0]
  /\ job = [c \in Clicks |-> "none"]
  /\ attempts = [c \in Clicks |-> 0]
  /\ stalls = [c \in Clicks |-> 0]
  /\ owner = [c \in Clicks |-> NoSlot]
  /\ pc = [s \in Slots |-> "idle"]
  /\ on = [s \in Slots |-> NoClick]
  /\ links = Links
  /\ recorded = {}
  /\ count = [l \in Links |-> 0]

-----------------------------------------------------------------------------
(* The API process. *)

(* GET /:shortCode gets past its checks, draws a click id and calls        *)
(* enqueueClick.  The link may be gone: it can come from the cache.        *)
Visit(c) ==
  /\ visit[c] = "new"
  /\ visit' = [visit EXCEPT ![c] = "adding"]
  /\ UNCHANGED <<adds, queueVars, slotVars, dbVars>>

(* The add reaches Redis: with jobId = clickId it creates the job unless   *)
(* it still exists.  A command whose reply was lost is sent again.         *)
Add(c) ==
  /\ visit[c] = "adding"
  /\ adds[c] < MaxAdds[c]
  /\ adds' = [adds EXCEPT ![c] = @ + 1]
  /\ job' = [job EXCEPT ![c] = IF @ = "none" THEN "waiting" ELSE @]
  /\ UNCHANGED <<visit, attempts, stalls, owner, slotVars, dbVars>>

(* enqueueClick returns, or throws and the handler swallows the error; the *)
(* visitor is redirected either way.                                       *)
Redirect(c) ==
  /\ visit[c] = "adding"
  /\ visit' = [visit EXCEPT ![c] = "redirected"]
  /\ UNCHANGED <<adds, queueVars, slotVars, dbVars>>

-----------------------------------------------------------------------------
(* The worker's processors. *)

GoTo(s, label) == pc' = [pc EXCEPT ![s] = label] /\ UNCHANGED on

Release(s) == pc' = [pc EXCEPT ![s] = "idle"] /\ on' = [on EXCEPT ![s] = NoClick]

(* BullMQ hands a waiting job and its lock to a free slot.                 *)
Take(s, c) ==
  /\ pc[s] = "idle"
  /\ job[c] = "waiting"
  /\ job' = [job EXCEPT ![c] = "active"]
  /\ owner' = [owner EXCEPT ![c] = s]
  /\ on' = [on EXCEPT ![s] = c]
  /\ pc' = [pc EXCEPT ![s] = "insert"]
  /\ UNCHANGED <<apiVars, attempts, stalls, dbVars>>

(* Mutant: no unique index on job_id. *)
InsertAnyway(s) ==
  /\ pc[s] = "insert"
  /\ LinkOf[on[s]] \in links
  /\ GoTo(s, "update")
  /\ UNCHANGED <<apiVars, queueVars, dbVars>>

(* Mutant: the INSERT runs on the pool, outside the transaction. *)
InsertOnPool(s) ==
  /\ pc[s] = "insert"
  /\ on[s] \notin recorded
  /\ LinkOf[on[s]] \in links
  /\ recorded' = recorded \union {on[s]}
  /\ GoTo(s, "update")
  /\ UNCHANGED <<apiVars, queueVars, links, count>>

(* BEGIN; INSERT ... ON CONFLICT (job_id) DO NOTHING inserts the row, once *)
(* no other open transaction has one with this job_id.                     *)
InsertNew(s) ==
  /\ pc[s] = "insert"
  /\ on[s] \notin recorded
  /\ LinkOf[on[s]] \in links
  /\ \A t \in Inserted : on[t] # on[s]
  /\ GoTo(s, "update")
  /\ UNCHANGED <<apiVars, queueVars, dbVars>>

(* Mutant: rowCount is not looked at. *)
DuplicateCounts(s) ==
  /\ pc[s] = "insert"
  /\ on[s] \in recorded
  /\ GoTo(s, "update")
  /\ UNCHANGED <<apiVars, queueVars, dbVars>>

(* rowCount is 0: skip the increment and return.                           *)
InsertDuplicate(s) ==
  /\ pc[s] = "insert"
  /\ on[s] \in recorded
  /\ GoTo(s, "commitDup")
  /\ UNCHANGED <<apiVars, queueVars, dbVars>>

(* The link is gone: the foreign key rejects the row, the transaction is   *)
(* rolled back.                                                            *)
InsertRejected(s) ==
  /\ pc[s] = "insert"
  /\ LinkOf[on[s]] \notin links
  /\ GoTo(s, "fail")
  /\ UNCHANGED <<apiVars, queueVars, dbVars>>

(* UPDATE links SET click_count = click_count + 1, once no other open      *)
(* transaction holds the link's row.                                       *)
UpdateCount(s) ==
  /\ pc[s] = "update"
  /\ \A t \in Slots : pc[t] = "commitNew" => LinkOf[on[t]] # LinkOf[on[s]]
  /\ GoTo(s, "commitNew")
  /\ UNCHANGED <<apiVars, queueVars, dbVars>>

(* What the transaction of slot s did becomes visible.                     *)
Persist(s) ==
  /\ recorded' = recorded \union {on[s]}
  /\ count' = [count EXCEPT ![LinkOf[on[s]]] = @ + 1]

CommitNew(s) ==
  /\ pc[s] = "commitNew"
  /\ Persist(s)
  /\ GoTo(s, "ok")
  /\ UNCHANGED <<apiVars, queueVars, links>>

(* Postgres commits but the connection fails before its reply: the client  *)
(* sees an error, rolls back nothing and rethrows.                         *)
CommitUnheard(s) ==
  /\ pc[s] = "commitNew"
  /\ Persist(s)
  /\ GoTo(s, "fail")
  /\ UNCHANGED <<apiVars, queueVars, links>>

CommitDuplicate(s) ==
  /\ pc[s] = "commitDup"
  /\ GoTo(s, "ok")
  /\ UNCHANGED <<apiVars, queueVars, dbVars>>

(* Mutant: the error is logged and not rethrown. *)
ThrowSwallowed(s) ==
  /\ pc[s] \in {"insert", "update", "commitNew", "commitDup"}
  /\ GoTo(s, "ok")
  /\ UNCHANGED <<apiVars, queueVars, dbVars>>

(* No connection, or a statement throws: ROLLBACK and rethrow.             *)
Throw(s) ==
  /\ pc[s] \in {"insert", "update", "commitNew", "commitDup"}
  /\ GoTo(s, "fail")
  /\ UNCHANGED <<apiVars, queueVars, dbVars>>

(* Mutant: a slot that lost its lock may report all the same. *)
CompleteLate(s) ==
  /\ pc[s] = "ok"
  /\ job' = [job EXCEPT ![on[s]] = "completed"]
  /\ owner' = [owner EXCEPT ![on[s]] = NoSlot]
  /\ Release(s)
  /\ UNCHANGED <<apiVars, attempts, stalls, dbVars>>

(* The worker reports success; Redis accepts it from the lock's holder.    *)
Complete(s) ==
  /\ pc[s] = "ok"
  /\ IF owner[on[s]] = s
     THEN /\ job' = [job EXCEPT ![on[s]] = "completed"]
          /\ owner' = [owner EXCEPT ![on[s]] = NoSlot]
     ELSE UNCHANGED <<job, owner>>
  /\ Release(s)
  /\ UNCHANGED <<apiVars, attempts, stalls, dbVars>>

(* The worker reports failure: retry after a backoff while attempts are    *)
(* left, else the failed set.                                              *)
Fail(s) ==
  /\ pc[s] = "fail"
  /\ IF owner[on[s]] = s
     THEN /\ attempts' = [attempts EXCEPT ![on[s]] = @ + 1]
          /\ job' = [job EXCEPT ![on[s]] = IF attempts'[on[s]] < MaxAttempts
                                           THEN "delayed" ELSE "failed"]
          /\ owner' = [owner EXCEPT ![on[s]] = NoSlot]
     ELSE UNCHANGED <<attempts, job, owner>>
  /\ Release(s)
  /\ UNCHANGED <<apiVars, stalls, dbVars>>

(* The process dies, or cannot reach Redis to report: an open transaction  *)
(* is aborted, the job stays active until its lock runs out.               *)
Crash(s) ==
  /\ pc[s] # "idle"
  /\ Release(s)
  /\ UNCHANGED <<apiVars, queueVars, dbVars>>

-----------------------------------------------------------------------------
(* Redis and Postgres on their own. *)

(* The backoff is over.                                                    *)
Promote(c) ==
  /\ job[c] = "delayed"
  /\ job' = [job EXCEPT ![c] = "waiting"]
  /\ UNCHANGED <<apiVars, attempts, stalls, owner, slotVars, dbVars>>

(* Mutant: the lock runs out and nobody looks for stalled jobs. *)
StallUnnoticed(c) ==
  /\ job[c] = "active"
  /\ owner' = [owner EXCEPT ![c] = NoSlot]
  /\ UNCHANGED <<apiVars, job, attempts, stalls, slotVars, dbVars>>

(* The lock was not renewed in time, whether its holder is dead or only    *)
(* slow: another slot may now get the job.                                 *)
Stall(c) ==
  /\ job[c] = "active"
  /\ stalls' = [stalls EXCEPT ![c] = @ + 1]
  /\ job' = [job EXCEPT ![c] = IF stalls[c] < MaxStalls THEN "waiting" ELSE "failed"]
  /\ owner' = [owner EXCEPT ![c] = NoSlot]
  /\ UNCHANGED <<apiVars, attempts, slotVars, dbVars>>

(* removeOnComplete and removeOnFail: the job falls out of its set.        *)
Evict(c) ==
  /\ job[c] \in {"completed", "failed"}
  /\ job' = [job EXCEPT ![c] = "none"]
  /\ attempts' = [attempts EXCEPT ![c] = 0]
  /\ stalls' = [stalls EXCEPT ![c] = 0]
  /\ UNCHANGED <<apiVars, owner, slotVars, dbVars>>

(* The owner deletes the link; its clicks go with it (ON DELETE CASCADE).  *)
DeleteLink(l) ==
  /\ l \in links
  /\ \A s \in Inserted : LinkOf[on[s]] # l
  /\ links' = links \ {l}
  /\ recorded' = {c \in recorded : LinkOf[c] # l}
  /\ count' = [count EXCEPT ![l] = 0]
  /\ UNCHANGED <<apiVars, queueVars, slotVars>>

-----------------------------------------------------------------------------
Process(s) ==
  \/ InsertNew(s) \/ InsertDuplicate(s) \/ InsertRejected(s) \/ UpdateCount(s)
  \/ CommitNew(s) \/ CommitUnheard(s) \/ CommitDuplicate(s) \/ Throw(s)
  \/ Complete(s) \/ Fail(s)

Api(c)   == Visit(c) \/ Add(c) \/ Redirect(c)
Queue(c) == Promote(c) \/ Stall(c) \/ Evict(c)

Next ==
  \/ \E c \in Clicks : Api(c) \/ Queue(c)
  \/ \E s \in Slots, c \in Clicks : Take(s, c)
  \/ \E s \in Slots : Process(s) \/ Crash(s)
  \/ \E l \in Links : DeleteLink(l)

Spec == Init /\ [][Next]_vars

(* A worker keeps running (one that dies is restarted), BullMQ promotes    *)
(* delayed jobs and looks for stalled ones; clicks, crashes, evictions and *)
(* deletions need never happen.                                            *)
Fairness ==
  /\ \A s \in Slots : WF_vars(Process(s))
  /\ \A c \in Clicks : /\ WF_vars(\E s \in Slots : Take(s, c))
                       /\ WF_vars(Promote(c))
                       /\ WF_vars(Stall(c))

FairSpec == Spec /\ Fairness

-----------------------------------------------------------------------------
RowsOf(l) == {c \in recorded : LinkOf[c] = l}

(* click_count always equals the number of click rows of the link, through *)
(* retries, duplicate deliveries, slots working on the same job, crashes   *)
(* and lost COMMIT replies (clickProcessor.ts:9-22).                       *)
CountMatchesRows == \A l \in Links : count[l] = Cardinality(RowsOf(l))

(* No click is dropped by a success: a completed job has its row, unless   *)
(* its link is gone (clickProcessor.ts:36-57, pool.ts:74-87).              *)
CompletedIsRecorded ==
  \A c \in Clicks : job[c] = "completed" => c \in recorded \/ LinkOf[c] \notin links

(* Two transactions never both have the same click inserted, and what one  *)
(* has inserted is not committed yet and its link cannot disappear: the    *)
(* unique index and the foreign key's lock, across statements.             *)
OpenInsertsExclusive ==
  \A s \in Inserted : /\ on[s] \notin recorded
                      /\ LinkOf[on[s]] \in links
                      /\ \A t \in Inserted : on[t] = on[s] => t = s

(* A slot that is about to report success has its click on record, unless  *)
(* the link is gone: what CompletedIsRecorded rests on.                    *)
SuccessIsRecorded ==
  \A s \in Slots : pc[s] \in {"commitDup", "ok"} =>
    on[s] \in recorded \/ LinkOf[on[s]] \notin links

(* A job is handed out only while attempts and recoveries are left, and its *)
(* lock is held only while it is active (clickQueue.ts:8-12).              *)
RetriesBounded ==
  \A c \in Clicks :
    /\ owner[c] # NoSlot => job[c] = "active"
    /\ job[c] # "failed" => attempts[c] < MaxAttempts /\ stalls[c] <= MaxStalls

(* Rows belong to links that exist.                                        *)
RowsHaveLinks == \A c \in recorded : LinkOf[c] \in links

(* The inductive invariant.                                                *)
Inv ==
  /\ TypeOK
  /\ RetriesBounded
  /\ OpenInsertsExclusive
  /\ SuccessIsRecorded
  /\ RowsHaveLinks
  /\ CountMatchesRows
  /\ CompletedIsRecorded

(* What is left of a job: its attempts and recoveries, each of which may    *)
(* take it through a backoff and the queue to a slot once more.            *)
Rank == [delayed |-> 3, waiting |-> 2, active |-> 1, completed |-> 0, failed |-> 0]
Left(c) == 4 * ((MaxAttempts - attempts[c]) + (MaxStalls + 1 - stalls[c])) + Rank[job[c]]

(* A job wears out: until it ends, whatever happens to it leaves less of   *)
(* it, whichever slots work on it and whichever of them report late.  It   *)
(* never leaves the queue before it has ended, and its end is final: only  *)
(* then may it fall out of its set (clickQueue.ts:8-34).  So no job is     *)
(* handed out for ever, and none is lost.                                  *)
JobsWearOut ==
  [][\A c \in Clicks :
       /\ job[c] \in {"waiting", "active", "delayed"} =>
            \/ UNCHANGED <<job[c], attempts[c], stalls[c]>>
            \/ job'[c] # "none" /\ Left(c)' < Left(c)
       /\ job[c] \in {"completed", "failed"} =>
            \/ UNCHANGED <<job[c], attempts[c], stalls[c]>>
            \/ job'[c] = "none"]_vars

(* A click whose job reached the queue is eventually recorded, or its link *)
(* is deleted, or its job ends in the failed set where an operator sees it *)
(* (clickQueue.ts:8-22).                                                   *)
Settles(c) ==
  job[c] = "waiting" ~> c \in recorded \/ LinkOf[c] \notin links \/ job[c] = "failed"

(* The pipeline implements the ledger: each click recorded at most once,   *)
(* row and increment in one step.                                          *)
Ledger == INSTANCE ClickLedger WITH links <- links, recorded <- recorded, count <- count
ImplementsLedger == Ledger!LedgerSpec
=============================================================================
