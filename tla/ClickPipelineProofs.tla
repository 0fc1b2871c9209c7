------------------------- MODULE ClickPipelineProofs -------------------------
(***************************************************************************)
(* ClickPipeline for any number of clicks, links and slots: Inv is         *)
(* inductive, and every step is a step of ClickLedger or leaves the ledger *)
(* alone.                                                                  *)
(*                                                                         *)
(* CountMatchesRows needs to know that a commit adds a row that was not    *)
(* there, of a link that exists: OpenInsertsExclusive.  CompletedIsRecorded *)
(* needs SuccessIsRecorded, and a duplicate's success RowsHaveLinks.       *)
(***************************************************************************)
EXTENDS ClickPipeline, FiniteSetTheorems, TLAPS

USE ClickPipelineAssumption DEF JobStates, SlotStates

(* The initial state satisfies the invariant.                              *)
LEMMA InitInv == Init => Inv
<1> SUFFICES ASSUME Init PROVE Inv
  OBVIOUS
<1>1. TypeOK
  BY FS_EmptySet DEF Init, TypeOK
<1>2. RetriesBounded /\ RowsHaveLinks /\ CompletedIsRecorded
  BY DEF Init, RetriesBounded, RowsHaveLinks, CompletedIsRecorded
<1>3. OpenInsertsExclusive /\ SuccessIsRecorded
  BY DEF Init, OpenInsertsExclusive, SuccessIsRecorded, Inserted
<1>4. CountMatchesRows
  <2>1. \A l \in Links : RowsOf(l) = {}
    BY DEF Init, RowsOf
  <2>2. QED
    BY <2>1, FS_EmptySet DEF Init, CountMatchesRows
<1>5. QED
  BY <1>1, <1>2, <1>3, <1>4 DEF Inv

-----------------------------------------------------------------------------
(* Types. *)

(* Every step of the API process preserves the types.                      *)
LEMMA ApiType ==
  ASSUME TypeOK, NEW c \in Clicks, Api(c)
  PROVE  TypeOK'
<1>1. CASE Visit(c) \/ Redirect(c)
  BY <1>1 DEF TypeOK, Visit, Redirect, queueVars, slotVars, dbVars
<1>2. CASE Add(c)
  BY <1>2 DEF TypeOK, Add, slotVars, dbVars
<1>3. QED
  BY <1>1, <1>2 DEF Api

(* Every step of the queue preserves the types.                            *)
LEMMA QueueType ==
  ASSUME TypeOK, RetriesBounded, NEW c \in Clicks, Queue(c)
  PROVE  TypeOK'
<1>1. CASE Promote(c)
  BY <1>1 DEF TypeOK, Promote, apiVars, slotVars, dbVars
<1>2. CASE Stall(c)
  <2>1. stalls[c] + 1 \in 0..MaxStalls + 1
    BY <1>2 DEF Stall, TypeOK, RetriesBounded
  <2>2. QED
    BY <1>2, <2>1 DEF TypeOK, Stall, apiVars, slotVars, dbVars
<1>3. CASE Evict(c)
  BY <1>3 DEF TypeOK, Evict, apiVars, slotVars, dbVars
<1>4. QED
  BY <1>1, <1>2, <1>3 DEF Queue

(* A commit keeps the committed state well typed.                          *)
LEMMA PersistType ==
  ASSUME TypeOK, NEW s \in Slots, pc[s] # "idle", Persist(s)
  PROVE  /\ recorded' \in SUBSET Clicks
         /\ IsFiniteSet(recorded')
         /\ count' \in [Links -> Nat]
<1>1. on[s] \in Clicks
  BY DEF TypeOK
<1>2. IsFiniteSet(recorded')
  BY FS_AddElement DEF TypeOK, Persist
<1>3. QED
  BY <1>1, <1>2 DEF TypeOK, Persist

(* Every step of a processor preserves the types.                          *)
LEMMA ProcessType ==
  ASSUME TypeOK, RetriesBounded, NEW s \in Slots, Process(s) \/ Crash(s)
  PROVE  TypeOK'
<1>1. CASE InsertNew(s) \/ InsertDuplicate(s) \/ InsertRejected(s) \/ UpdateCount(s)
           \/ CommitDuplicate(s) \/ Throw(s)
  BY <1>1 DEF TypeOK, InsertNew, InsertDuplicate, InsertRejected, UpdateCount,
     CommitDuplicate, Throw, GoTo, apiVars, queueVars, dbVars
<1>2. CASE CommitNew(s) \/ CommitUnheard(s)
  <2>1. /\ recorded' \in SUBSET Clicks
        /\ IsFiniteSet(recorded')
        /\ count' \in [Links -> Nat]
    BY <1>2, PersistType DEF CommitNew, CommitUnheard
  <2>2. QED
    BY <1>2, <2>1 DEF TypeOK, CommitNew, CommitUnheard, GoTo, apiVars, queueVars
<1>3. CASE Complete(s)
  BY <1>3 DEF TypeOK, Complete, Release, apiVars, dbVars
<1>4. CASE Fail(s)
  <2>1. on[s] \in Clicks
    BY <1>4 DEF Fail, TypeOK
  <2>2. owner[on[s]] = s => attempts[on[s]] + 1 \in 0..MaxAttempts
    BY <2>1 DEF TypeOK, RetriesBounded
  <2>3. QED
    BY <1>4, <2>1, <2>2 DEF TypeOK, Fail, Release, apiVars, dbVars
<1>5. CASE Crash(s)
  BY <1>5 DEF TypeOK, Crash, Release, apiVars, queueVars, dbVars
<1>6. QED
  BY <1>1, <1>2, <1>3, <1>4, <1>5 DEF Process

(* Every step preserves the types.                                         *)
LEMMA NextType == TypeOK /\ RetriesBounded /\ [Next]_vars => TypeOK'
<1> SUFFICES ASSUME TypeOK, RetriesBounded, [Next]_vars
             PROVE  TypeOK'
  OBVIOUS
<1>1. ASSUME NEW s \in Slots, NEW c \in Clicks, Take(s, c)
      PROVE  TypeOK'
  BY <1>1 DEF TypeOK, Take, apiVars, dbVars
<1>2. ASSUME NEW l \in Links, DeleteLink(l)
      PROVE  TypeOK'
  <2>1. IsFiniteSet(recorded')
    BY <1>2, FS_Subset DEF DeleteLink, TypeOK
  <2>2. QED
    BY <1>2, <2>1 DEF TypeOK, DeleteLink, apiVars, queueVars, slotVars
<1>3. CASE UNCHANGED vars
  BY <1>3 DEF TypeOK, vars, apiVars, queueVars, slotVars, dbVars
<1>4. QED
  BY <1>1, <1>2, <1>3, ApiType, QueueType, ProcessType DEF Next

-----------------------------------------------------------------------------
(* The queue. *)

(* The steps of a processor that concern only its transaction.             *)
TransactionStep(s) ==
  \/ InsertNew(s) \/ InsertDuplicate(s) \/ InsertRejected(s) \/ UpdateCount(s)
  \/ CommitNew(s) \/ CommitUnheard(s) \/ CommitDuplicate(s) \/ Throw(s)

(* Every step preserves: jobs are handed out within their limits.          *)
LEMMA NextRetriesBounded ==
  TypeOK /\ RetriesBounded /\ [Next]_vars => RetriesBounded'
<1> SUFFICES ASSUME TypeOK, RetriesBounded, [Next]_vars
             PROVE  RetriesBounded'
  OBVIOUS
<1> USE DEF RetriesBounded
<1>1. ASSUME NEW s \in Slots, TransactionStep(s) \/ Crash(s)
      PROVE  RetriesBounded'
  BY <1>1 DEF TransactionStep, InsertNew, InsertDuplicate, InsertRejected,
     UpdateCount, CommitNew, CommitUnheard, CommitDuplicate, Throw, Crash, queueVars
<1>2. ASSUME NEW s \in Slots, Complete(s) \/ Fail(s)
      PROVE  RetriesBounded'
  <2>1. on[s] \in Clicks
    BY <1>2 DEF TypeOK, Complete, Fail
  <2>2. QED
    BY <1>2, <2>1 DEF TypeOK, Complete, Fail
<1>3. ASSUME NEW s \in Slots, NEW c \in Clicks, Take(s, c)
      PROVE  RetriesBounded'
  BY <1>3 DEF TypeOK, Take
<1>4. ASSUME NEW c \in Clicks, Api(c)
      PROVE  RetriesBounded'
  BY <1>4 DEF TypeOK, Api, Visit, Add, Redirect, queueVars
<1>5. ASSUME NEW c \in Clicks, Queue(c)
      PROVE  RetriesBounded'
  BY <1>5 DEF TypeOK, Queue, Promote, Stall, Evict
<1>6. ASSUME NEW l \in Links, DeleteLink(l)
      PROVE  RetriesBounded'
  BY <1>6 DEF DeleteLink, queueVars
<1>7. CASE UNCHANGED vars
  BY <1>7 DEF vars, queueVars
<1>8. QED
  BY <1>1, <1>2, <1>3, <1>4, <1>5, <1>6, <1>7 DEF Next, Process, TransactionStep

-----------------------------------------------------------------------------
(* The transactions. *)

(* Steps that leave the transactions and the database alone.               *)
LEMMA QuietSteps ==
  ASSUME NEW c \in Clicks, Api(c) \/ Queue(c)
  PROVE  UNCHANGED <<slotVars, dbVars>>
  BY DEF Api, Queue, Visit, Add, Redirect, Promote, Stall, Evict

(* Every step preserves: a row belongs to a link that exists.              *)
LEMMA NextRowsHaveLinks == Inv /\ [Next]_vars => RowsHaveLinks'
<1> SUFFICES ASSUME Inv, [Next]_vars
             PROVE  RowsHaveLinks'
  OBVIOUS
<1> USE DEF Inv, RowsHaveLinks
<1>1. ASSUME NEW s \in Slots, CommitNew(s) \/ CommitUnheard(s)
      PROVE  RowsHaveLinks'
  BY <1>1 DEF OpenInsertsExclusive, Inserted, CommitNew, CommitUnheard, Persist
<1>2. ASSUME NEW s \in Slots, Process(s) \/ Crash(s), ~CommitNew(s), ~CommitUnheard(s)
      PROVE  RowsHaveLinks'
  BY <1>2 DEF Process, InsertNew, InsertDuplicate, InsertRejected, UpdateCount,
     CommitDuplicate, Throw, Complete, Fail, Crash, dbVars
<1>3. ASSUME NEW s \in Slots, NEW c \in Clicks, Take(s, c)
      PROVE  RowsHaveLinks'
  BY <1>3 DEF Take, dbVars
<1>4. ASSUME NEW c \in Clicks, Api(c) \/ Queue(c)
      PROVE  RowsHaveLinks'
  BY <1>4, QuietSteps DEF dbVars
<1>5. ASSUME NEW l \in Links, DeleteLink(l)
      PROVE  RowsHaveLinks'
  BY <1>5 DEF DeleteLink
<1>6. CASE UNCHANGED vars
  BY <1>6 DEF vars, dbVars
<1>7. QED
  BY <1>1, <1>2, <1>3, <1>4, <1>5, <1>6 DEF Next

(* Every step preserves: open inserts are exclusive.                       *)
LEMMA NextOpenInsertsExclusive == Inv /\ [Next]_vars => OpenInsertsExclusive'
<1> SUFFICES ASSUME Inv, [Next]_vars
             PROVE  OpenInsertsExclusive'
  OBVIOUS
<1> USE DEF Inv, OpenInsertsExclusive, Inserted
<1>1. ASSUME NEW s \in Slots, InsertNew(s) \/ UpdateCount(s)
      PROVE  OpenInsertsExclusive'
  BY <1>1 DEF TypeOK, InsertNew, UpdateCount, GoTo, dbVars
<1>2. ASSUME NEW s \in Slots, CommitNew(s) \/ CommitUnheard(s)
      PROVE  OpenInsertsExclusive'
  BY <1>2 DEF TypeOK, CommitNew, CommitUnheard, GoTo, Persist
<1>3. ASSUME NEW s \in Slots, InsertDuplicate(s) \/ InsertRejected(s)
                              \/ CommitDuplicate(s) \/ Throw(s)
      PROVE  OpenInsertsExclusive'
  BY <1>3 DEF TypeOK, InsertDuplicate, InsertRejected, CommitDuplicate, Throw,
     GoTo, dbVars
<1>4. ASSUME NEW s \in Slots, Complete(s) \/ Fail(s) \/ Crash(s)
      PROVE  OpenInsertsExclusive'
  BY <1>4 DEF TypeOK, Complete, Fail, Crash, Release, dbVars
<1>5. ASSUME NEW s \in Slots, NEW c \in Clicks, Take(s, c)
      PROVE  OpenInsertsExclusive'
  BY <1>5 DEF TypeOK, Take, dbVars
<1>6. ASSUME NEW c \in Clicks, Api(c) \/ Queue(c)
      PROVE  OpenInsertsExclusive'
  BY <1>6, QuietSteps DEF slotVars, dbVars
<1>7. ASSUME NEW l \in Links, DeleteLink(l)
      PROVE  OpenInsertsExclusive'
  BY <1>7 DEF DeleteLink, slotVars
<1>8. CASE UNCHANGED vars
  BY <1>8 DEF vars, slotVars, dbVars
<1>9. QED
  BY <1>1, <1>2, <1>3, <1>4, <1>5, <1>6, <1>7, <1>8 DEF Next, Process

(* Every step preserves: a success has its click on record.                *)
LEMMA NextSuccessIsRecorded == Inv /\ [Next]_vars => SuccessIsRecorded'
<1> SUFFICES ASSUME Inv, [Next]_vars
             PROVE  SuccessIsRecorded'
  OBVIOUS
<1> USE DEF Inv, SuccessIsRecorded
<1>1. ASSUME NEW s \in Slots, CommitNew(s) \/ CommitUnheard(s)
      PROVE  SuccessIsRecorded'
  BY <1>1 DEF TypeOK, CommitNew, CommitUnheard, GoTo, Persist
<1>2. ASSUME NEW s \in Slots, InsertNew(s) \/ UpdateCount(s) \/ InsertDuplicate(s)
                              \/ InsertRejected(s) \/ CommitDuplicate(s) \/ Throw(s)
      PROVE  SuccessIsRecorded'
  BY <1>2 DEF TypeOK, InsertNew, UpdateCount, InsertDuplicate, InsertRejected,
     CommitDuplicate, Throw, GoTo, dbVars
<1>3. ASSUME NEW s \in Slots, Complete(s) \/ Fail(s) \/ Crash(s)
      PROVE  SuccessIsRecorded'
  BY <1>3 DEF TypeOK, Complete, Fail, Crash, Release, dbVars
<1>4. ASSUME NEW s \in Slots, NEW c \in Clicks, Take(s, c)
      PROVE  SuccessIsRecorded'
  BY <1>4 DEF TypeOK, Take, dbVars
<1>5. ASSUME NEW c \in Clicks, Api(c) \/ Queue(c)
      PROVE  SuccessIsRecorded'
  BY <1>5, QuietSteps DEF slotVars, dbVars
<1>6. ASSUME NEW l \in Links, DeleteLink(l)
      PROVE  SuccessIsRecorded'
  BY <1>6 DEF DeleteLink, slotVars
<1>7. CASE UNCHANGED vars
  BY <1>7 DEF vars, slotVars, dbVars
<1>8. QED
  BY <1>1, <1>2, <1>3, <1>4, <1>5, <1>6, <1>7 DEF Next, Process

-----------------------------------------------------------------------------
(* The counter. *)

(* A commit adds one row and one click to the same link.                   *)
LEMMA PersistCounts ==
  ASSUME Inv, NEW s \in Slots, pc[s] = "commitNew", Persist(s)
  PROVE  CountMatchesRows'
<1> DEFINE c == on[s]
<1>1. /\ c \in Clicks
      /\ c \notin recorded
      /\ LinkOf[c] \in Links
  BY DEF Inv, TypeOK, OpenInsertsExclusive, Inserted
<1>2. SUFFICES ASSUME NEW l \in Links
               PROVE  count'[l] = Cardinality(RowsOf(l)')
  BY DEF CountMatchesRows
<1>3. IsFiniteSet(RowsOf(l))
  BY FS_Subset DEF Inv, TypeOK, RowsOf
<1>4. CASE l = LinkOf[c]
  <2>1. RowsOf(l)' = RowsOf(l) \union {c}
    BY <1>1, <1>4 DEF RowsOf, Persist
  <2>2. c \notin RowsOf(l)
    BY <1>1 DEF RowsOf
  <2>3. Cardinality(RowsOf(l)') = Cardinality(RowsOf(l)) + 1
    BY <1>3, <2>1, <2>2, FS_AddElement
  <2>4. QED
    BY <1>1, <1>4, <2>3 DEF Inv, TypeOK, CountMatchesRows, Persist
<1>5. CASE l # LinkOf[c]
  <2>1. RowsOf(l)' = RowsOf(l)
    BY <1>1, <1>5 DEF RowsOf, Persist
  <2>2. QED
    BY <1>1, <1>5, <2>1 DEF Inv, TypeOK, CountMatchesRows, Persist
<1>6. QED
  BY <1>4, <1>5

(* Every step preserves: click_count is the number of rows.                *)
LEMMA NextCountMatchesRows == Inv /\ [Next]_vars => CountMatchesRows'
<1> SUFFICES ASSUME Inv, [Next]_vars
             PROVE  CountMatchesRows'
  OBVIOUS
<1>1. ASSUME NEW s \in Slots, CommitNew(s) \/ CommitUnheard(s)
      PROVE  CountMatchesRows'
  BY <1>1, PersistCounts DEF CommitNew, CommitUnheard
<1>2. ASSUME NEW l \in Links, DeleteLink(l)
      PROVE  CountMatchesRows'
  <2>1. RowsOf(l)' = {}
    BY <1>2 DEF DeleteLink, RowsOf
  <2>2. \A k \in Links \ {l} : RowsOf(k)' = RowsOf(k)
    BY <1>2 DEF DeleteLink, RowsOf
  <2>3. QED
    BY <1>2, <2>1, <2>2, FS_EmptySet
       DEF Inv, TypeOK, DeleteLink, CountMatchesRows
<1>3. CASE UNCHANGED dbVars
  BY <1>3 DEF Inv, dbVars, CountMatchesRows, RowsOf
<1>4. ASSUME NEW s \in Slots, Process(s) \/ Crash(s), ~CommitNew(s), ~CommitUnheard(s)
      PROVE  UNCHANGED dbVars
  BY <1>4 DEF Process, InsertNew, InsertDuplicate, InsertRejected, UpdateCount,
     CommitDuplicate, Throw, Complete, Fail, Crash
<1>5. ASSUME NEW s \in Slots, NEW c \in Clicks, Take(s, c)
      PROVE  UNCHANGED dbVars
  BY <1>5 DEF Take
<1>6. ASSUME UNCHANGED vars
      PROVE  UNCHANGED dbVars
  BY <1>6 DEF vars
<1>7. QED
  BY <1>1, <1>2, <1>3, <1>4, <1>5, <1>6, QuietSteps DEF Next

-----------------------------------------------------------------------------
(* Completed jobs. *)

(* Every step preserves: a completed job's click is on record.             *)
LEMMA NextCompletedIsRecorded == Inv /\ [Next]_vars => CompletedIsRecorded'
<1> SUFFICES ASSUME Inv, [Next]_vars
             PROVE  CompletedIsRecorded'
  OBVIOUS
<1> USE DEF Inv, CompletedIsRecorded
<1>1. ASSUME NEW s \in Slots, TransactionStep(s) \/ Crash(s)
      PROVE  CompletedIsRecorded'
  BY <1>1 DEF TransactionStep, InsertNew, InsertDuplicate, InsertRejected,
     UpdateCount, CommitNew, CommitUnheard, CommitDuplicate, Throw, Crash,
     Persist, queueVars, dbVars
<1>2. ASSUME NEW s \in Slots, Complete(s)
      PROVE  CompletedIsRecorded'
  BY <1>2 DEF TypeOK, SuccessIsRecorded, Complete, dbVars
<1>3. ASSUME NEW s \in Slots, Fail(s)
      PROVE  CompletedIsRecorded'
  BY <1>3 DEF TypeOK, Fail, dbVars
<1>4. ASSUME NEW s \in Slots, NEW c \in Clicks, Take(s, c)
      PROVE  CompletedIsRecorded'
  BY <1>4 DEF TypeOK, Take, dbVars
<1>5. ASSUME NEW c \in Clicks, Api(c) \/ Queue(c)
      PROVE  CompletedIsRecorded'
  BY <1>5 DEF TypeOK, Api, Queue, Visit, Add, Redirect, Promote, Stall, Evict,
     queueVars, dbVars
<1>6. ASSUME NEW l \in Links, DeleteLink(l)
      PROVE  CompletedIsRecorded'
  BY <1>6 DEF DeleteLink, queueVars
<1>7. CASE UNCHANGED vars
  BY <1>7 DEF vars, queueVars, dbVars
<1>8. QED
  BY <1>1, <1>2, <1>3, <1>4, <1>5, <1>6, <1>7 DEF Next, Process, TransactionStep

-----------------------------------------------------------------------------
(* Inv holds in every reachable state.                                     *)
THEOREM InvHolds == Spec => []Inv
<1>1. Inv /\ [Next]_vars => Inv'
  BY NextType, NextRetriesBounded, NextOpenInsertsExclusive,
     NextSuccessIsRecorded, NextRowsHaveLinks, NextCountMatchesRows,
     NextCompletedIsRecorded DEF Inv
<1>2. QED
  BY InitInv, <1>1, PTL DEF Spec

(* The variables keep their types.                                         *)
THEOREM TypeCorrect == Spec => []TypeOK
  BY InvHolds, PTL DEF Inv

(* click_count is the number of the link's rows, however jobs are retried, *)
(* duplicated or interleaved.                                              *)
THEOREM CountCorrect == Spec => []CountMatchesRows
  BY InvHolds, PTL DEF Inv

(* A job is never handed out after its last attempt or recovery, nor held  *)
(* by a slot when it is not active, whatever crashes and stalls.           *)
THEOREM RetriesCorrect == Spec => []RetriesBounded
  BY InvHolds, PTL DEF Inv

(* A completed job never dropped its click.                                *)
THEOREM CompletedCorrect == Spec => []CompletedIsRecorded
  BY InvHolds, PTL DEF Inv

-----------------------------------------------------------------------------
(* Jobs wear out. *)

(* What one step may do to one job.                                        *)
WearsOut(c) ==
  /\ job[c] \in {"waiting", "active", "delayed"} =>
       \/ UNCHANGED <<job[c], attempts[c], stalls[c]>>
       \/ job'[c] # "none" /\ Left(c)' < Left(c)
  /\ job[c] \in {"completed", "failed"} =>
       \/ UNCHANGED <<job[c], attempts[c], stalls[c]>>
       \/ job'[c] = "none"

(* What is left of a job is a natural number: it can only wear out so far. *)
LEMMA LeftIsNatural ==
  ASSUME TypeOK, NEW c \in Clicks, job[c] # "none"
  PROVE  Left(c) \in Nat
<1>1. /\ MaxAttempts - attempts[c] \in Nat
      /\ MaxStalls + 1 - stalls[c] \in Nat
  BY DEF TypeOK
<1>2. Rank[job[c]] \in Nat
  BY DEF TypeOK, Rank
<1>3. QED
  BY <1>1, <1>2 DEF Left

(* A report moves a job only if its slot still holds the lock, and then    *)
(* the job is active.                                                      *)
LEMMA ReportWearsOut ==
  ASSUME Inv, NEW s \in Slots, Complete(s) \/ Fail(s), NEW c \in Clicks
  PROVE  WearsOut(c)
<1>1. on[s] \in Clicks
  BY DEF Inv, TypeOK, Complete, Fail
<1>2. CASE c # on[s] \/ owner[on[s]] # s
  BY <1>1, <1>2 DEF Inv, TypeOK, WearsOut, Complete, Fail
<1>3. CASE c = on[s] /\ owner[on[s]] = s
  <2>1. job[c] = "active"
    BY <1>3 DEF Inv, RetriesBounded
  <2>2. /\ attempts[c] \in Nat /\ stalls[c] \in Nat
        /\ c \in DOMAIN job /\ c \in DOMAIN attempts
    BY DEF Inv, TypeOK
  <2>3. CASE Complete(s)
    <3>1. job'[c] = "completed" /\ UNCHANGED <<attempts[c], stalls[c]>>
      BY <1>3, <2>2, <2>3 DEF Complete
    <3>2. QED
      BY <2>1, <2>2, <3>1 DEF WearsOut, Left, Rank
  <2>4. CASE Fail(s)
    <3>1. /\ job'[c] \in {"delayed", "failed"}
          /\ attempts'[c] = attempts[c] + 1
          /\ stalls'[c] = stalls[c]
      BY <1>3, <2>2, <2>4 DEF Fail
    <3>2. QED
      BY <2>1, <2>2, <3>1 DEF WearsOut, Left, Rank
  <2>5. QED
    BY <2>3, <2>4
<1>4. QED
  BY <1>2, <1>3

(* What the queue does to a job on its own wears it out, or removes it     *)
(* when it has ended.                                                      *)
LEMMA QueueWearsOut ==
  ASSUME Inv, NEW b \in Clicks, Queue(b), NEW c \in Clicks
  PROVE  WearsOut(c)
<1>1. /\ attempts[c] \in Nat /\ stalls[c] \in Nat
      /\ c \in DOMAIN job /\ c \in DOMAIN attempts /\ c \in DOMAIN stalls
  BY DEF Inv, TypeOK
<1>2. CASE c # b
  BY <1>1, <1>2 DEF WearsOut, Queue, Promote, Stall, Evict
<1>3. CASE c = b /\ Promote(b)
  <2>1. job[c] = "delayed" /\ job'[c] = "waiting" /\ UNCHANGED <<attempts, stalls>>
    BY <1>1, <1>3 DEF Promote
  <2>2. QED
    BY <1>1, <2>1 DEF WearsOut, Left, Rank
<1>4. CASE c = b /\ Stall(b)
  <2>1. /\ job[c] = "active"
        /\ job'[c] \in {"waiting", "failed"}
        /\ stalls'[c] = stalls[c] + 1
        /\ UNCHANGED attempts
    BY <1>1, <1>4 DEF Stall
  <2>2. QED
    BY <1>1, <2>1 DEF WearsOut, Left, Rank
<1>5. CASE c = b /\ Evict(b)
  BY <1>1, <1>5 DEF WearsOut, Evict
<1>6. QED
  BY <1>2, <1>3, <1>4, <1>5 DEF Queue

(* Every step wears out a job or leaves it alone.                          *)
LEMMA NextWearsOut ==
  ASSUME Inv, [Next]_vars, NEW c \in Clicks
  PROVE  WearsOut(c)
<1>1. ASSUME UNCHANGED queueVars
      PROVE  WearsOut(c)
  BY <1>1 DEF WearsOut, queueVars
<1>2. ASSUME NEW s \in Slots, TransactionStep(s) \/ Crash(s)
      PROVE  UNCHANGED queueVars
  BY <1>2 DEF TransactionStep, InsertNew, InsertDuplicate, InsertRejected,
     UpdateCount, CommitNew, CommitUnheard, CommitDuplicate, Throw, Crash
<1>3. ASSUME NEW s \in Slots, NEW b \in Clicks, Take(s, b)
      PROVE  WearsOut(c)
  <2>1. attempts[c] \in Nat /\ stalls[c] \in Nat /\ c \in DOMAIN job
    BY DEF Inv, TypeOK
  <2>2. UNCHANGED <<attempts, stalls>>
    BY <1>3 DEF Take
  <2>3. \/ UNCHANGED job[c]
        \/ job[c] = "waiting" /\ job'[c] = "active"
    BY <1>3, <2>1 DEF Take
  <2>4. QED
    BY <2>1, <2>2, <2>3 DEF WearsOut, Left, Rank
<1>4. ASSUME NEW b \in Clicks, Api(b)
      PROVE  WearsOut(c)
  <2>1. UNCHANGED <<attempts, stalls>> /\ (job[c] # "none" => UNCHANGED job[c])
    BY <1>4 DEF Inv, TypeOK, Api, Visit, Add, Redirect, queueVars
  <2>2. QED
    BY <2>1 DEF WearsOut
<1>5. ASSUME NEW l \in Links, DeleteLink(l)
      PROVE  UNCHANGED queueVars
  BY <1>5 DEF DeleteLink
<1>6. ASSUME UNCHANGED vars
      PROVE  UNCHANGED queueVars
  BY <1>6 DEF vars
<1>7. QED
  BY <1>1, <1>2, <1>3, <1>4, <1>5, <1>6, QueueWearsOut, ReportWearsOut
     DEF Next, Process, TransactionStep

(* No job is handed out for ever and none leaves the queue unfinished:     *)
(* with LeftIsNatural, the safety half of EveryJobSettles.                 *)
THEOREM JobsAreFinite == Spec => JobsWearOut
<1>1. ASSUME Inv, [Next]_vars
      PROVE  \A c \in Clicks : WearsOut(c)
  BY <1>1, NextWearsOut
<1>2. Inv /\ [Next]_vars => [\A c \in Clicks : WearsOut(c)]_vars
  BY <1>1
<1>3. QED
  BY InvHolds, <1>2, PTL DEF Spec, JobsWearOut, WearsOut

-----------------------------------------------------------------------------
(* The refinement. *)

(* A commit records one click of an existing link in the ledger, a deleted *)
(* link leaves it, and no other step touches it.                           *)
LEMMA StepImplementsLedger ==
  Inv /\ [Next]_vars => [Ledger!LedgerNext]_(Ledger!ledgerVars)
<1> SUFFICES ASSUME Inv, [Next]_vars
             PROVE  [Ledger!LedgerNext]_(Ledger!ledgerVars)
  OBVIOUS
<1> USE DEF Ledger!LedgerNext, Ledger!ledgerVars
<1>1. ASSUME NEW s \in Slots, CommitNew(s) \/ CommitUnheard(s)
      PROVE  Ledger!LedgerNext
  <2>1. on[s] \in Clicks
    BY <1>1 DEF Inv, TypeOK, CommitNew, CommitUnheard
  <2>2. Ledger!Record(on[s])
    BY <1>1 DEF Inv, OpenInsertsExclusive, Inserted, CommitNew, CommitUnheard,
       Persist, Ledger!Record
  <2>3. QED
    BY <2>1, <2>2
<1>2. ASSUME NEW l \in Links, DeleteLink(l)
      PROVE  Ledger!LedgerNext
  BY <1>2 DEF DeleteLink, Ledger!Remove
<1>3. ASSUME NEW s \in Slots, Process(s) \/ Crash(s), ~CommitNew(s), ~CommitUnheard(s)
      PROVE  UNCHANGED dbVars
  BY <1>3 DEF Process, InsertNew, InsertDuplicate, InsertRejected, UpdateCount,
     CommitDuplicate, Throw, Complete, Fail, Crash
<1>4. ASSUME NEW s \in Slots, NEW c \in Clicks, Take(s, c)
      PROVE  UNCHANGED dbVars
  BY <1>4 DEF Take
<1>5. ASSUME UNCHANGED vars
      PROVE  UNCHANGED dbVars
  BY <1>5 DEF vars
<1>6. UNCHANGED dbVars => UNCHANGED Ledger!ledgerVars
  BY DEF dbVars
<1>7. QED
  BY <1>1, <1>2, <1>3, <1>4, <1>5, <1>6, QuietSteps DEF Next

(* The pipeline implements the ledger.                                     *)
THEOREM PipelineImplementsLedger == Spec => ImplementsLedger
<1>1. Init => Ledger!LedgerInit
  BY DEF Init, Ledger!LedgerInit
<1>2. QED
  BY InvHolds, <1>1, StepImplementsLedger, PTL
     DEF Spec, ImplementsLedger, Ledger!LedgerSpec

(* What is known of the ledger's variables alone.                          *)
LedgerInv ==
  /\ links \in SUBSET Links
  /\ recorded \in SUBSET Clicks /\ IsFiniteSet(recorded)
  /\ count \in [Links -> Nat]
  /\ CountMatchesRows

(* The ledger alone keeps the counters right: whatever implements it, as   *)
(* the pipeline does, counts each click on record once.                    *)
THEOREM LedgerCounts == Ledger!LedgerSpec => []CountMatchesRows
<1>1. Ledger!LedgerInit => LedgerInv
  <2> SUFFICES ASSUME Ledger!LedgerInit PROVE LedgerInv
    OBVIOUS
  <2>1. \A l \in Links : RowsOf(l) = {}
    BY DEF Ledger!LedgerInit, RowsOf
  <2>2. QED
    BY <2>1, FS_EmptySet DEF Ledger!LedgerInit, LedgerInv, CountMatchesRows
<1>2. LedgerInv /\ [Ledger!LedgerNext]_(Ledger!ledgerVars) => LedgerInv'
  <2> SUFFICES ASSUME LedgerInv, [Ledger!LedgerNext]_(Ledger!ledgerVars)
               PROVE  LedgerInv'
    OBVIOUS
  <2>1. ASSUME NEW c \in Clicks, Ledger!Record(c)
        PROVE  LedgerInv'
    <3>1. /\ links' = links /\ recorded' = recorded \union {c} /\ c \notin recorded
          /\ LinkOf[c] \in Links
          /\ count' = [count EXCEPT ![LinkOf[c]] = count[LinkOf[c]] + 1]
      BY <2>1 DEF Ledger!Record
    <3>2. IsFiniteSet(recorded')
      BY <3>1, FS_AddElement DEF LedgerInv
    <3>3. ASSUME NEW l \in Links
          PROVE  count'[l] = Cardinality(RowsOf(l)')
      <4>1. IsFiniteSet(RowsOf(l))
        BY FS_Subset DEF LedgerInv, RowsOf
      <4>2. CASE l = LinkOf[c]
        <5>1. RowsOf(l)' = RowsOf(l) \union {c} /\ c \notin RowsOf(l)
          BY <3>1, <4>2 DEF RowsOf
        <5>2. Cardinality(RowsOf(l)') = Cardinality(RowsOf(l)) + 1
          BY <4>1, <5>1, FS_AddElement
        <5>3. QED
          BY <3>1, <4>2, <5>2 DEF LedgerInv, CountMatchesRows
      <4>3. CASE l # LinkOf[c]
        <5>1. RowsOf(l)' = RowsOf(l)
          BY <3>1, <4>3 DEF RowsOf
        <5>2. QED
          BY <3>1, <4>3, <5>1 DEF LedgerInv, CountMatchesRows
      <4>4. QED
        BY <4>2, <4>3
    <3>4. QED
      BY <3>1, <3>2, <3>3 DEF LedgerInv, CountMatchesRows
  <2>2. ASSUME NEW l \in Links, Ledger!Remove(l)
        PROVE  LedgerInv'
    <3>1. /\ links' = links \ {l}
          /\ recorded' = {c \in recorded : LinkOf[c] # l}
          /\ count' = [count EXCEPT ![l] = 0]
      BY <2>2 DEF Ledger!Remove
    <3>2. IsFiniteSet(recorded')
      BY <3>1, FS_Subset DEF LedgerInv
    <3>3. RowsOf(l)' = {} /\ \A k \in Links \ {l} : RowsOf(k)' = RowsOf(k)
      BY <3>1 DEF RowsOf
    <3>4. \A k \in Links : count'[k] = Cardinality(RowsOf(k)')
      BY <3>1, <3>3, FS_EmptySet DEF LedgerInv, CountMatchesRows
    <3>5. QED
      BY <3>1, <3>2, <3>4 DEF LedgerInv, CountMatchesRows
  <2>3. CASE UNCHANGED Ledger!ledgerVars
    BY <2>3 DEF Ledger!ledgerVars, LedgerInv, CountMatchesRows, RowsOf
  <2>4. QED
    BY <2>1, <2>2, <2>3 DEF Ledger!LedgerNext
<1>3. LedgerInv => CountMatchesRows
  BY DEF LedgerInv
<1>4. QED
  BY <1>1, <1>2, <1>3, PTL DEF Ledger!LedgerSpec
=============================================================================
