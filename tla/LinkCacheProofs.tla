--------------------------- MODULE LinkCacheProofs ---------------------------
(***************************************************************************)
(* LinkCache's invariants for any number of lookups, writers and writes.   *)
(*                                                                         *)
(* StaleEntryExplained is not inductive: a SET stores whatever the lookup  *)
(* read.  FillIsCurrent says that unless a write overtook it this is still *)
(* the row, and with it Inv is inductive.                                  *)
(***************************************************************************)
EXTENDS LinkCache, TLAPS

USE LinkCacheAssumption DEF Versions, Rows, Causes, dbVars, cacheVars,
    readerVars, vars

(* The initial state satisfies the invariant.                              *)
LEMMA InitInv == Init => Inv
  BY DEF Init, Inv, TypeOK, FillIsCurrent, StaleEntryExplained, Stale

(* Committing a write keeps the database, cache and history well typed.    *)
LEMMA CommitType ==
  ASSUME TypeOK, NEW new, Commit(new), new \in {version + 1, NoRow}
  PROVE  /\ row' \in Rows
         /\ version' \in 0..MaxVersion
         /\ overlapped' \in [Readers -> BOOLEAN]
<1>1. version + 1 \in Versions
  BY DEF TypeOK, Commit
<1>2. QED
  BY <1>1 DEF TypeOK, Commit

(* Every step preserves the types.                                         *)
LEMMA NextType == TypeOK /\ [Next]_vars => TypeOK'
<1> SUFFICES ASSUME TypeOK, [Next]_vars
             PROVE  TypeOK'
  OBVIOUS
<1>1. ASSUME NEW r \in Readers, Lookup(r)
      PROVE  TypeOK'
  <2>1. CASE GetHit(r)
    BY <2>1 DEF TypeOK, GetHit
  <2>2. CASE GetMiss(r) \/ SetFails(r) \/ EndLookup(r)
    BY <2>2 DEF TypeOK, GetMiss, SetFails, EndLookup
  <2>3. CASE Select(r)
    BY <2>3 DEF TypeOK, Select
  <2>4. CASE Set(r)
    BY <2>4 DEF TypeOK, Set
  <2>5. QED
    BY <1>1, <2>1, <2>2, <2>3, <2>4 DEF Lookup
<1>2. ASSUME NEW w \in Writers, PreCheck(w) \/ LoseInsertRace(w)
      PROVE  TypeOK'
  BY <1>2 DEF TypeOK, PreCheck, LoseInsertRace
<1>3. ASSUME NEW w \in Writers, InsertAlias(w) \/ Update(w) \/ Delete(w)
      PROVE  TypeOK'
  <2>1. /\ row' \in Rows
        /\ version' \in 0..MaxVersion
        /\ overlapped' \in [Readers -> BOOLEAN]
    BY <1>3, CommitType DEF InsertAlias, Update, Delete
  <2>2. QED
    BY <1>3, <2>1 DEF TypeOK, InsertAlias, Update, Delete
<1>4. ASSUME NEW w \in Writers, Del(w) \/ LoseDel(w)
      PROVE  TypeOK'
  BY <1>4 DEF TypeOK, Del, LoseDel
<1>5. ASSUME CommitWithoutDel
      PROVE  TypeOK'
  <2>1. /\ row' \in Rows
        /\ version' \in 0..MaxVersion
        /\ overlapped' \in [Readers -> BOOLEAN]
    BY <1>5, CommitType DEF CommitWithoutDel
  <2>2. QED
    BY <1>5, <2>1 DEF TypeOK, CommitWithoutDel
<1>6. CASE Expire
  BY <1>6 DEF TypeOK, Expire
<1>7. CASE UNCHANGED vars
  BY <1>7 DEF TypeOK
<1>8. QED
  BY <1>1, <1>2, <1>3, <1>4, <1>5, <1>6, <1>7
     DEF Next, Write, InsertGenerated, WorkerWrite

(* Every step preserves: a fill no write overtook holds the current row.   *)
LEMMA NextFillIsCurrent == TypeOK /\ FillIsCurrent /\ [Next]_vars => FillIsCurrent'
<1> SUFFICES ASSUME TypeOK, FillIsCurrent, [Next]_vars,
                    NEW q \in Readers, rpc'[q] = "set", ~overlapped'[q]
             PROVE  snap'[q] = row'
  BY DEF FillIsCurrent
<1>1. ASSUME NEW r \in Readers, Lookup(r)
      PROVE  snap'[q] = row'
  BY <1>1 DEF TypeOK, FillIsCurrent, Lookup, GetHit, GetMiss, Select, Set,
              SetFails, EndLookup
<1>2. ASSUME NEW w \in Writers, PreCheck(w) \/ LoseInsertRace(w) \/ Del(w) \/ LoseDel(w)
      PROVE  snap'[q] = row'
  BY <1>2 DEF FillIsCurrent, PreCheck, LoseInsertRace, Del, LoseDel
<1>3. ASSUME NEW w \in Writers, InsertAlias(w) \/ Update(w) \/ Delete(w)
      PROVE  FALSE
  BY <1>3 DEF TypeOK, InsertAlias, Update, Delete, Commit
<1>4. ASSUME CommitWithoutDel
      PROVE  FALSE
  BY <1>4 DEF TypeOK, CommitWithoutDel, Commit
<1>5. CASE Expire
  BY <1>5 DEF FillIsCurrent, Expire
<1>6. CASE UNCHANGED vars
  BY <1>6 DEF FillIsCurrent
<1>7. QED
  BY <1>1, <1>2, <1>3, <1>4, <1>5, <1>6
     DEF Next, Write, InsertGenerated, WorkerWrite

(* Every step preserves: a stale entry is explained.                       *)
LEMMA NextExplained == Inv /\ [Next]_vars => StaleEntryExplained'
<1> SUFFICES ASSUME TypeOK, FillIsCurrent, StaleEntryExplained, [Next]_vars
             PROVE  StaleEntryExplained'
  BY DEF Inv
<1> USE DEF StaleEntryExplained, Stale, DelPending
<1>1. ASSUME NEW r \in Readers, Lookup(r)
      PROVE  StaleEntryExplained'
  <2>1. CASE Set(r)
    <3>1. CASE overlapped[r]
      BY <2>1, <3>1 DEF Set
    <3>2. CASE ~overlapped[r]
      BY <2>1, <3>2 DEF Set, FillIsCurrent
    <3>3. QED
      BY <3>1, <3>2
  <2>2. CASE ~Set(r)
    BY <1>1, <2>2 DEF Lookup, GetHit, GetMiss, Select, SetFails, EndLookup
  <2>3. QED
    BY <2>1, <2>2
<1>2. ASSUME NEW w \in Writers, PreCheck(w) \/ LoseInsertRace(w)
      PROVE  StaleEntryExplained'
  BY <1>2 DEF TypeOK, PreCheck, LoseInsertRace
<1>3. ASSUME NEW w \in Writers, InsertAlias(w) \/ Update(w) \/ Delete(w)
      PROVE  StaleEntryExplained'
  <2>1. wpc'[w] = "del"
    BY <1>3 DEF TypeOK, InsertAlias, Update, Delete
  <2>2. QED
    BY <2>1
<1>4. ASSUME NEW w \in Writers, Del(w)
      PROVE  StaleEntryExplained'
  BY <1>4 DEF Del
<1>5. ASSUME NEW w \in Writers, LoseDel(w)
      PROVE  StaleEntryExplained'
  BY <1>5 DEF LoseDel
<1>6. ASSUME CommitWithoutDel
      PROVE  StaleEntryExplained'
  BY <1>6 DEF CommitWithoutDel
<1>7. CASE Expire
  BY <1>7 DEF Expire
<1>8. CASE UNCHANGED vars
  BY <1>8
<1>9. QED
  BY <1>1, <1>2, <1>3, <1>4, <1>5, <1>6, <1>7, <1>8
     DEF Next, Write, InsertGenerated, WorkerWrite

(* TypeOK, FillIsCurrent and StaleEntryExplained hold in every reachable   *)
(* state, whatever the number of lookups and writers.                      *)
THEOREM InvHolds == Spec => []Inv
<1>1. Inv /\ [Next]_vars => Inv'
  BY NextType, NextFillIsCurrent, NextExplained DEF Inv
<1>2. QED
  BY InitInv, <1>1, PTL DEF Spec

(* The variables keep their types.                                         *)
THEOREM TypeCorrect == Spec => []TypeOK
  BY InvHolds, PTL DEF Inv

(* A stale entry always has one of the known causes, or a DEL pending.     *)
THEOREM StaleEntriesExplained == Spec => []StaleEntryExplained
  BY InvHolds, PTL DEF Inv

(* A fill answers with the row its SELECT read, a hit with the entry: the  *)
(* one is outdated only if it was overtaken, the other only if explained.  *)
THEOREM OutdatedAnswersExplained == Spec => AnswersExplained
<1>1. ASSUME Inv, [Next]_vars, NEW r \in Readers, Answers(r), snap'[r] # row
      PROVE  \/ DelPending
             \/ rpc[r] = "idle" /\ causes # {}
             \/ rpc[r] = "set" /\ overlapped[r]
  <2>1. GetHit(r) \/ Set(r) \/ SetFails(r)
    <3>1. ASSUME NEW q \in Readers, Lookup(q)
          PROVE  GetHit(r) \/ Set(r) \/ SetFails(r)
      BY <1>1, <3>1 DEF Inv, TypeOK, Answers, Lookup, GetHit, GetMiss, Select,
         Set, SetFails, EndLookup
    <3>2. ASSUME NEW w \in Writers, Write(w)
          PROVE  FALSE
      BY <1>1, <3>2 DEF Answers, Write, PreCheck, InsertAlias, LoseInsertRace,
         Update, Delete, Del, LoseDel
    <3>3. ~(InsertGenerated \/ WorkerWrite \/ Expire \/ UNCHANGED vars)
      BY <1>1 DEF Answers, InsertGenerated, WorkerWrite, CommitWithoutDel, Expire
    <3>4. QED
      BY <1>1, <3>1, <3>2, <3>3 DEF Next
  <2>2. CASE GetHit(r)
    <3>1. Stale /\ rpc[r] = "idle"
      BY <1>1, <2>2 DEF Inv, TypeOK, GetHit, Stale
    <3>2. QED
      BY <1>1, <3>1 DEF Inv, StaleEntryExplained
  <2>3. CASE Set(r) \/ SetFails(r)
    BY <1>1, <2>3 DEF Inv, FillIsCurrent, Set, SetFails
  <2>4. QED
    BY <2>1, <2>2, <2>3
<1>2. Inv /\ [Next]_vars =>
        [\A r \in Readers :
           Answers(r) /\ snap'[r] # row =>
             \/ DelPending
             \/ rpc[r] = "idle" /\ causes # {}
             \/ rpc[r] = "set" /\ overlapped[r]]_vars
  BY <1>1
<1>3. QED
  BY InvHolds, <1>2, PTL DEF Spec, AnswersExplained

(* Only a fill sets the entry, and a fill that no write overtook sets it   *)
(* to the row: this is what StalenessEnds needs besides fairness.          *)
THEOREM SettledCachesStayFresh == Spec => AgreementLasts
<1>1. ASSUME Inv, Inv', [Next]_vars, Settled, UNCHANGED version
      PROVE  Settled' /\ ~Stale'
  <2>1. Settled'
    <3>1. ASSUME NEW r \in Readers, Lookup(r)
          PROVE  Settled'
      BY <1>1, <3>1 DEF Inv, TypeOK, Settled, DelPending, Lookup, GetHit, GetMiss,
         Select, Set, SetFails, EndLookup
    <3>2. ASSUME NEW w \in Writers, PreCheck(w) \/ LoseInsertRace(w)
          PROVE  Settled'
      BY <1>1, <3>2 DEF Inv, TypeOK, Settled, DelPending, PreCheck, LoseInsertRace
    <3>3. ASSUME NEW w \in Writers, Del(w) \/ LoseDel(w)
          PROVE  FALSE
      BY <1>1, <3>3 DEF Settled, DelPending, Del, LoseDel
    <3>4. ASSUME NEW new, Commit(new)
          PROVE  FALSE
      BY <1>1, <3>4 DEF Inv, TypeOK, Commit
    <3>5. CASE Expire \/ UNCHANGED vars
      BY <1>1, <3>5 DEF Settled, DelPending, Expire
    <3>6. QED
      BY <1>1, <3>1, <3>2, <3>3, <3>4, <3>5
         DEF Next, Write, InsertAlias, Update, Delete, InsertGenerated,
             WorkerWrite, CommitWithoutDel
  <2>2. QED
    BY <1>1, <2>1 DEF Inv, StaleEntryExplained, Settled
<1>2. Inv /\ Inv' /\ [Next]_vars =>
        [Settled /\ UNCHANGED version => Settled' /\ ~Stale']_vars
  BY <1>1
<1>3. QED
  BY InvHolds, <1>2, PTL DEF Spec, AgreementLasts
=============================================================================
