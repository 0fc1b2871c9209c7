------------------------- MODULE LinkLifetimeProofs -------------------------
(***************************************************************************)
(* How long a dead or newly protected link can be served, for any number   *)
(* of visitors, any TTLs, any lag and any clock.                           *)
(*                                                                         *)
(* The two action properties speak of the copy that a verdict is made by.  *)
(* Inv follows a copy from the SELECT that reads it, through the entry it  *)
(* is left in, to the request that finds it there; a database write can    *)
(* only make it older than the row's death or than its password.           *)
(***************************************************************************)
EXTENDS LinkLifetime, TLAPS

USE LinkLifetimeAssumption DEF Times, Ids

(* Every TTL is positive and none is longer than a link's without a cap.   *)
LEMMA TTLBounds ==
  ASSUME NEW link \in Links \union {None}
  PROVE  TTL(link) \in Nat /\ 0 < TTL(link) /\ TTL(link) <= LongTTL
BY DEF TTL

(* A link that is alive was alive before, if it has not changed.           *)
LEMMA AliveEarlier ==
  ASSUME NEW link \in Links \union {None}, NEW s \in Nat, NEW t \in Nat,
         s <= t, Alive(link, t)
  PROVE  Alive(link, s)
<1>1. link \in Links
  BY DEF Alive
<1>2. link.expiresAt = None \/ link.expiresAt \in Nat
  BY <1>1 DEF Links
<1>3. ~(link.expiresAt # None /\ link.expiresAt <= s)
  BY <1>2 DEF Alive, Dead
<1>4. QED
  BY <1>3 DEF Alive, Dead

(* The initial state satisfies the invariant.                              *)
LEMMA InitInv == Init => Inv
<1> SUFFICES ASSUME Init PROVE Inv
  OBVIOUS
<1>1. NoCopy \in Copies
  BY DEF NoCopy, Copies
<1>2. TypeOK
  BY <1>1 DEF Init, TypeOK
<1>3. RowOK /\ EntryOK
  BY DEF Init, RowOK, EntryOK, Alive
<1>4. ASSUME NEW v \in Visitors PROVE RequestOK(v) /\ CookieOK(v)
  BY DEF Init, RequestOK, CopyOK, CookieOK, NoCopy, Alive, Busy
<1>5. QED
  BY <1>2, <1>3, <1>4 DEF Inv

-----------------------------------------------------------------------------
(* What each statement on the row commits: a link of the same id as the    *)
(* row's, if both are there.                                               *)
Committed ==
  \E new \in Links \union {None} :
    Commit(new) /\ (new # None /\ row # None => new.id = row.id)

(* Every write to the database commits such a row.                         *)
LEMMA WritesCommit ==
  ASSUME TypeOK
  PROVE  /\ CreateLink \/ UpdateLink \/ DeleteLink \/ Sweep => Committed
         /\ \A i \in Ids : CountClick(i) => Committed \/ UNCHANGED <<row, histVars>>
<1>1. ASSUME CreateLink PROVE Committed
  <2>1. PICK e \in NewExpiries, c \in Caps \union {None}, p \in Passwords \union {None} :
          Commit([id |-> edits + 1, active |-> TRUE, expiresAt |-> e, cap |-> c,
                  count |-> 0, password |-> p])
    BY <1>1 DEF CreateLink
  <2>2. [id |-> edits + 1, active |-> TRUE, expiresAt |-> e, cap |-> c,
         count |-> 0, password |-> p] \in Links
    BY <1>1 DEF CreateLink, OwnerWrites, TypeOK, Links, NewExpiries
  <2>3. QED
    BY <1>1, <2>1, <2>2 DEF Committed, CreateLink
<1>2. ASSUME UpdateLink PROVE Committed
  <2>1. PICK a \in BOOLEAN, e \in NewExpiries \union {row.expiresAt},
             c \in Caps \union {None}, p \in Passwords \union {None} :
          Commit([row EXCEPT !.active = a, !.expiresAt = e, !.cap = c, !.password = p])
    BY <1>2 DEF UpdateLink
  <2>2. row \in Links /\ e \in Expiries \union {None}
    BY <1>2 DEF UpdateLink, TypeOK, Links, NewExpiries
  <2>3. [row EXCEPT !.active = a, !.expiresAt = e, !.cap = c, !.password = p] \in Links
    BY <2>2 DEF Links
  <2>4. [row EXCEPT !.active = a, !.expiresAt = e, !.cap = c, !.password = p].id = row.id
    BY <2>2 DEF Links
  <2>5. QED
    BY <2>1, <2>3, <2>4 DEF Committed
<1>3. ASSUME DeleteLink PROVE Committed
  BY <1>3 DEF DeleteLink, Committed
<1>4. ASSUME Sweep PROVE Committed
  <2>1. row \in Links
    BY <1>4 DEF Sweep, TypeOK
  <2>2. /\ [row EXCEPT !.active = FALSE] \in Links
        /\ [row EXCEPT !.active = FALSE].id = row.id
    BY <2>1 DEF Links
  <2>3. QED
    BY <1>4, <2>2 DEF Sweep, Committed
<1>5. ASSUME NEW i \in Ids, CountClick(i) PROVE Committed \/ UNCHANGED <<row, histVars>>
  <2>1. CASE row # None /\ Commit([row EXCEPT !.count = @ + 1])
    <3>1. row \in Links
      BY <2>1 DEF TypeOK
    <3>2. /\ [row EXCEPT !.count = @ + 1] \in Links
          /\ [row EXCEPT !.count = @ + 1].id = row.id
      BY <3>1 DEF Links
    <3>3. QED
      BY <2>1, <3>2 DEF Committed
  <2>2. QED
    BY <1>5, <2>1 DEF CountClick
<1>6. QED
  BY <1>1, <1>2, <1>3, <1>4, <1>5

(* A commit keeps the row well typed and what is known of it and of every  *)
(* copy.                                                                   *)
LEMMA CommitKeeps ==
  ASSUME TypeOK, RowOK, Committed, now' = now
  PROVE  /\ row' \in Links \union {None}
         /\ deadSince' \in Times \union {None}
         /\ gatedSince' \in Times \union {None}
         /\ hadPassword' \in [Ids -> SUBSET Passwords]
         /\ \A i \in Ids : hadPassword[i] \subseteq hadPassword'[i]
         /\ RowOK'
         /\ \A copy \in Copies : CopyOK(copy) => CopyOK(copy)'
<1>1. PICK new \in Links \union {None} :
        Commit(new) /\ (new # None /\ row # None => new.id = row.id)
  BY DEF Committed
<1>2. /\ row' \in Links \union {None}
      /\ deadSince' \in Times \union {None}
      /\ gatedSince' \in Times \union {None}
  BY <1>1 DEF Commit, TypeOK
<1>3. /\ hadPassword' \in [Ids -> SUBSET Passwords]
      /\ \A i \in Ids : hadPassword[i] \subseteq hadPassword'[i]
      /\ new # None /\ new.password # None => new.password \in hadPassword'[new.id]
  <2>1. CASE new = None \/ new.password = None
    BY <1>1, <2>1 DEF Commit, TypeOK
  <2>2. CASE new # None /\ new.password # None
    <3>1. new.id \in Ids /\ new.password \in Passwords
      BY <2>2 DEF Links
    <3>2. hadPassword' = [hadPassword EXCEPT ![new.id] = @ \union {new.password}]
      BY <1>1, <2>2 DEF Commit
    <3>3. QED
      BY <3>1, <3>2 DEF TypeOK
  <2>3. QED
    BY <2>1, <2>2
<1>4. RowOK'
  BY <1>1, <1>3 DEF Commit, RowOK, Alive
<1>5. ASSUME NEW copy \in Copies, CopyOK(copy) PROVE CopyOK(copy)'
  <2>1. copy.read \in Times /\ copy.link \in Links \union {None}
    BY DEF Copies
  <2>2. deadSince' # None /\ Alive(copy.link, now) => copy.read <= deadSince'
    BY <1>1, <1>5 DEF Commit, CopyOK
  <2>3. copy.link # None /\ copy.link.password # None =>
          copy.link.password \in hadPassword'[copy.link.id]
    BY <1>3, <1>5, <2>1 DEF CopyOK, Links
  <2>4. gatedSince' # None /\ gatedSince' < copy.read =>
          copy.link # None /\ copy.link.id = row'.id /\ copy.link.password # None
    BY <1>1, <1>5, <2>1 DEF Commit, CopyOK, RowOK, TypeOK
  <2>5. QED
    BY <1>5, <2>2, <2>3, <2>4 DEF CopyOK, Alive, Dead
<1>6. QED
  BY <1>2, <1>3, <1>4, <1>5

(* So does the passing of time.                                            *)
LEMMA TickKeeps ==
  ASSUME TypeOK, RowOK, Tick
  PROVE  /\ deadSince' \in Times \union {None}
         /\ RowOK'
         /\ \A copy \in Copies : CopyOK(copy) => CopyOK(copy)'
<1>1. now \in Nat /\ now + 1 \in Times /\ now' = now + 1
  BY DEF Tick, TypeOK
<1>2. deadSince' \in Times \union {None}
  BY <1>1 DEF Tick, TypeOK
<1>3. Alive(row, now + 1) => Alive(row, now)
  BY <1>1, AliveEarlier DEF TypeOK
<1>4. RowOK'
  BY <1>1, <1>3 DEF Tick, RowOK, Alive, Dead
<1>5. ASSUME NEW copy \in Copies, CopyOK(copy) PROVE CopyOK(copy)'
  <2>1. copy.read \in Times /\ copy.link \in Links \union {None}
    BY DEF Copies
  <2>2. Alive(copy.link, now + 1) => Alive(copy.link, now)
    BY <1>1, <2>1, AliveEarlier
  <2>3. deadSince' # None /\ Alive(copy.link, now + 1) => copy.read <= deadSince'
    BY <1>1, <1>5, <2>1, <2>2 DEF Tick, CopyOK, TypeOK
  <2>4. copy.read <= now'
    BY <1>1, <1>5, <2>1 DEF CopyOK
  <2>5. QED
    BY <1>1, <1>5, <2>3, <2>4 DEF CopyOK, Tick, Alive, Dead
<1>6. QED
  BY <1>2, <1>4, <1>5

-----------------------------------------------------------------------------
(* A step of a visitor keeps the types.                                    *)
LEMMA VisitType ==
  ASSUME TypeOK, NEW v \in Visitors, Visit(v)
  PROVE  TypeOK'
<1> USE DEF TypeOK, Others, ownerVars, histVars
<1>1. CASE Begin(v)
  <2>1. /\ pc' \in [Visitors -> {"idle", "passed", "get", "select", "set", "judge"}]
        /\ given' \in [Visitors -> Passwords \union {None}]
        /\ began' \in [Visitors -> Times]
    BY <1>1 DEF Begin
  <2>2. QED
    BY <1>1, <2>1 DEF Begin
<1>8. CASE GetHit(v)
  <2>1. entry.copy \in Copies
    BY <1>8 DEF GetHit, Entries
  <2>2. QED
    BY <1>8, <2>1 DEF GetHit
<1>9. CASE GetMiss(v)
  BY <1>9 DEF GetMiss
<1>2. CASE Select(v)
  BY <1>2 DEF Select, Copies
<1>3. CASE Set(v)
  <2>1. held[v] \in Copies /\ TTL(held[v].link) \in Nat
    BY TTLBounds DEF Copies
  <2>2. [copy |-> held[v], until |-> now + TTL(held[v].link)] \in Entries
    BY <2>1 DEF Entries
  <2>3. entry' \in Entries \union {None}
    BY <1>3, <2>2 DEF Set
  <2>4. QED
    BY <1>3, <2>3 DEF Set
<1>4. CASE Refuse(v)
  BY <1>4 DEF Refuse, Answer, NoCopy, Copies
<1>5. CASE Pass(v)
  <2>1. held[v].link \in Links /\ held[v].link.id \in Ids
    BY <1>5 DEF Pass, Alive, Copies, Links
  <2>2. Clicks(held[v].link.id) < MaxClicks => queued[held[v].link.id] + 1 \in 0..MaxClicks
    <3>1. queued[held[v].link.id] \in 0..MaxClicks
      BY <2>1
    <3>2. PICK n \in Nat : Clicks(held[v].link.id) = queued[held[v].link.id] + n
      <4>1. (IF row # None /\ row.id = held[v].link.id THEN row.count ELSE 0) \in Nat
        BY DEF Links
      <4>2. QED
        BY <4>1 DEF Clicks
    <3>3. QED
      <4>1. ASSUME NEW q \in 0..MaxClicks, q + n < MaxClicks PROVE q + 1 \in 0..MaxClicks
        BY <4>1
      <4>2. QED
        BY <3>1, <3>2, <4>1
  <2>3. queued' \in [Ids -> 0..MaxClicks]
    BY <1>5, <2>1, <2>2 DEF Pass
  <2>4. QED
    BY <1>5, <2>3 DEF Pass, Answer, NoCopy, Copies
<1>6. CASE Unlock(v)
  <2>1. held[v].link \in Links /\ held[v].link.id \in Ids
    BY <1>6 DEF Unlock, Alive, Copies, Links
  <2>2. cookie' \in [Visitors -> Tokens \union {None}]
    BY <1>6, <2>1 DEF Unlock, Tokens
  <2>3. /\ pc' \in [Visitors -> {"idle", "passed", "get", "select", "set", "judge"}]
        /\ given' \in [Visitors -> Passwords \union {None}]
        /\ began' \in [Visitors -> Times]
        /\ held' \in [Visitors -> Copies]
    BY <1>6 DEF Unlock, Answer, NoCopy, Copies
  <2>4. UNCHANGED <<now, row, edits, owner, entry, queued, deadSince, gatedSince, hadPassword>>
    BY <1>6 DEF Unlock, Answer
  <2>5. QED
    BY <2>2, <2>3, <2>4
<1>7. QED
  BY <1>1, <1>2, <1>3, <1>4, <1>5, <1>6, <1>8, <1>9 DEF Visit

(* A step of a visitor keeps what is known of the row and of the entry.    *)
LEMMA VisitEntry ==
  ASSUME Inv, NEW v \in Visitors, Visit(v)
  PROVE  RowOK' /\ EntryOK'
<1> USE DEF Others, ownerVars, histVars
<1>1. UNCHANGED <<now, row, histVars>>
  BY DEF Visit, Begin, GetHit, GetMiss, Select, Set, Refuse, Pass, Unlock, Answer
<1>2. RowOK'
  BY <1>1 DEF Inv, RowOK, Alive, Dead
<1>3. CASE entry' = entry
  <2>1. entry # None => CopyOK(entry.copy)'
    BY <1>1, <1>3 DEF Inv, EntryOK, CopyOK, Alive, Dead
  <2>2. QED
    BY <1>1, <1>2, <1>3, <2>1 DEF Inv, EntryOK, TTL
<1>4. CASE Set(v) /\ entry' = [copy |-> held[v], until |-> now + TTL(held[v].link)]
  <2>2. TTL(held[v].link) \in Nat /\ 0 < TTL(held[v].link) /\ now \in Nat
    BY TTLBounds DEF Inv, TypeOK, Copies
  <2>3. held[v].read \in Nat /\ began[v] \in Nat
    BY DEF Inv, TypeOK, Copies
  <2>1. /\ CopyOK(held[v])
        /\ now <= held[v].read + MaxLag
    <3>1. /\ CopyOK(held[v])
          /\ now <= began[v] + MaxLag
          /\ began[v] <= held[v].read
      BY <1>4 DEF Set, Inv, RequestOK, Busy
    <3>2. QED
      BY <2>2, <2>3, <3>1
  <2>4. /\ entry'.copy = held[v]
        /\ entry'.until = now + TTL(held[v].link)
    BY <1>4
  <2>5. CopyOK(entry.copy)'
    BY <1>1, <2>1, <2>4 DEF CopyOK, Alive, Dead
  <2>6. QED
    BY <1>1, <1>2, <2>1, <2>2, <2>3, <2>4, <2>5 DEF EntryOK, TTL
<1>5. QED
  BY <1>2, <1>3, <1>4 DEF Visit, Begin, GetHit, GetMiss, Select, Set, Refuse, Pass, Unlock, Answer

(* A step of a visitor keeps the age of every copy held and the origin of  *)
(* every token.                                                            *)
LEMMA VisitRequests ==
  ASSUME Inv, NEW v \in Visitors, Visit(v), NEW w \in Visitors
  PROVE  RequestOK(w)' /\ CookieOK(w)'
<1> USE DEF Others, ownerVars, histVars
<1>1. UNCHANGED <<now, row, histVars>>
  BY DEF Visit, Begin, GetHit, GetMiss, Select, Set, Refuse, Pass, Unlock, Answer
<1>2. TypeOK /\ RequestOK(w) /\ CookieOK(w)
  BY DEF Inv
<1>3. CASE w # v
  <2>1. /\ pc'[w] = pc[w] /\ began'[w] = began[w]
        /\ held'[w] = held[w] /\ cookie'[w] = cookie[w]
    BY <1>2, <1>3 DEF TypeOK, Visit, Begin, GetHit, GetMiss, Select, Set, Refuse,
                      Pass, Unlock, Answer
  <2>2. QED
    BY <1>1, <1>2, <2>1 DEF RequestOK, CopyOK, CookieOK, Alive, Dead, TTL, Busy
<1>4. CASE w = v
  <2>1. CookieOK(v)'
    <3>1. CASE Unlock(v)
      <4>1. held[v].link \in Links /\ CopyOK(held[v])
        BY <3>1, <1>4, <1>2 DEF Unlock, Alive, TypeOK, Copies, RequestOK
      <4>2. given[v] \in hadPassword[held[v].link.id]
        BY <3>1, <4>1 DEF Unlock, CopyOK, Alive
      <4>3. cookie'[v] = [id |-> held[v].link.id, at |-> now, password |-> given[v]]
        BY <3>1, <1>2 DEF Unlock, TypeOK
      <4>4. QED
        BY <1>1, <4>2, <4>3 DEF CookieOK
    <3>2. CASE cookie' = cookie
      BY <1>1, <1>2, <1>4, <3>2 DEF CookieOK
    <3>3. QED
      BY <3>1, <3>2 DEF Visit, Begin, GetHit, GetMiss, Select, Set, Refuse, Pass
  <2>2. ASSUME Begin(v) PROVE RequestOK(v)'
    BY <1>1, <1>2, <1>4, <2>2 DEF Begin, RequestOK, CopyOK, Alive, Dead, TTL, Busy, TypeOK
  <2>3. ASSUME GetHit(v) PROVE RequestOK(v)'
    <3>1. /\ CopyOK(entry.copy)
          /\ now < entry.copy.read + MaxLag + TTL(entry.copy.link)
      <4>1. entry \in Entries /\ entry.until \in Nat /\ entry.copy \in Copies
        BY <2>3, <1>2 DEF GetHit, TypeOK, Entries
      <4>2. entry.copy.read \in Nat /\ TTL(entry.copy.link) \in Nat
        BY <4>1, TTLBounds DEF Copies
      <4>3. now \in Nat
        BY <1>2 DEF TypeOK
      <4>4. QED
        BY <2>3, <4>1, <4>2, <4>3 DEF GetHit, Inv, EntryOK
    <3>2. /\ held'[v] = entry.copy /\ pc'[v] = "judge"
          /\ began'[v] = began[v]
      BY <2>3, <1>2 DEF GetHit, TypeOK
    <3>3. Busy(v)
      BY <2>3 DEF GetHit, Busy
    <3>4. began[v] <= now /\ now <= began[v] + MaxLag
      BY <1>2, <1>4, <3>3 DEF RequestOK
    <3>5. began[v] < entry.copy.read + MaxLag + TTL(entry.copy.link)
      <4>1. entry.copy \in Copies
        BY <2>3, <1>2 DEF GetHit, TypeOK, Entries
      <4>2. entry.copy.read \in Nat /\ TTL(entry.copy.link) \in Nat
        BY <4>1, TTLBounds DEF Copies
      <4>3. now \in Nat /\ began[v] \in Nat
        BY <1>2 DEF TypeOK
      <4>4. QED
        BY <3>1, <3>4, <4>2, <4>3
    <3>6. QED
      BY <1>1, <1>4, <3>1, <3>2, <3>4, <3>5 DEF RequestOK, CopyOK, Alive, Dead, TTL
  <2>4. ASSUME GetMiss(v) PROVE RequestOK(v)'
    BY <1>1, <1>2, <1>4, <2>4 DEF GetMiss, RequestOK, CopyOK, Alive, Dead, TTL, Busy, TypeOK
  <2>5. ASSUME Select(v) PROVE RequestOK(v)'
    <3>1. /\ held'[v] = [link |-> row, read |-> now] /\ pc'[v] = "set"
          /\ began'[v] = began[v]
      BY <2>5, <1>2 DEF Select, TypeOK
    <3>2. CopyOK(held[v])'
      BY <1>1, <1>2, <3>1 DEF Inv, RowOK, CopyOK, Alive, Dead, TypeOK
    <3>3. began[v] <= now /\ now <= began[v] + MaxLag
      BY <1>2, <1>4, <2>5 DEF RequestOK, Busy, Select
    <3>4. QED
      BY <1>1, <1>4, <3>1, <3>2, <3>3 DEF RequestOK
  <2>6. ASSUME Set(v) PROVE RequestOK(v)'
    <3>1. /\ held'[v] = held[v] /\ pc'[v] = "judge" /\ began'[v] = began[v]
      BY <2>6, <1>2 DEF Set, TypeOK
    <3>2. held[v].read \in Nat /\ began[v] \in Nat /\ TTL(held[v].link) \in Nat
          /\ 0 < TTL(held[v].link)
      BY <1>2, TTLBounds DEF TypeOK, Copies
    <3>3. began[v] < held[v].read + MaxLag + TTL(held[v].link)
      BY <1>2, <1>4, <2>6, <3>2 DEF Set, RequestOK
    <3>4. QED
      BY <1>1, <1>2, <1>4, <2>6, <3>1, <3>3
      DEF Set, RequestOK, CopyOK, Alive, Dead, TTL, Busy
  <2>7. ASSUME Refuse(v) \/ Pass(v) \/ Unlock(v) PROVE RequestOK(v)'
    <3>1. /\ pc'[v] \in {"idle", "passed"} /\ began'[v] = 0 /\ held'[v] = NoCopy
      BY <2>7, <1>2 DEF Refuse, Pass, Unlock, Answer, TypeOK
    <3>2. now \in Nat
      BY <1>2 DEF TypeOK
    <3>3. CopyOK(NoCopy)'
      BY <1>1, <1>2 DEF CopyOK, NoCopy, Alive, TypeOK
    <3>4. QED
      BY <1>1, <1>4, <3>1, <3>2, <3>3 DEF RequestOK, CopyOK, Busy, Alive, Dead
  <2>8. QED
    BY <1>4, <2>1, <2>2, <2>3, <2>4, <2>5, <2>6, <2>7 DEF Visit
<1>5. QED
  BY <1>3, <1>4

(* A step of a visitor preserves the invariant.                            *)
LEMMA VisitInv == ASSUME Inv, NEW v \in Visitors, Visit(v) PROVE Inv'
<1>1. TypeOK'
  BY VisitType DEF Inv
<1>2. QED
  BY <1>1, VisitEntry, VisitRequests DEF Inv

-----------------------------------------------------------------------------
(* A write to the database preserves the invariant.                        *)
LEMMA WriteInv ==
  ASSUME Inv,
         CreateLink \/ UpdateLink \/ DeleteLink \/ Sweep \/ \E i \in Ids : CountClick(i)
  PROVE  Inv'
<1>1. /\ UNCHANGED <<now, entry, reqVars, cookie>>
      /\ edits' \in 0..MaxEdits /\ owner' \in {"idle", "del"}
  <2>1. CASE OwnerWrites
    <3>1. edits + 1 \in 0..MaxEdits
      BY <2>1 DEF OwnerWrites, Inv, TypeOK
    <3>2. QED
      BY <2>1, <3>1 DEF OwnerWrites
  <2>2. CASE Sweep
    BY <2>2 DEF Sweep, Inv, TypeOK, ownerVars
  <2>3. ASSUME NEW i \in Ids, CountClick(i)
        PROVE  UNCHANGED <<now, entry, reqVars, cookie, ownerVars>>
    BY <2>3 DEF CountClick
  <2>4. QED
    BY <2>1, <2>2, <2>3 DEF CreateLink, UpdateLink, DeleteLink, Inv, TypeOK, ownerVars
<1>2. queued' \in [Ids -> 0..MaxClicks]
  <2>1. ASSUME NEW i \in Ids, CountClick(i) PROVE queued' \in [Ids -> 0..MaxClicks]
    BY <2>1 DEF Inv, TypeOK, CountClick
  <2>2. QED
    BY <2>1 DEF Inv, TypeOK, CreateLink, UpdateLink, DeleteLink, OwnerWrites, Sweep
<1>3. Committed \/ UNCHANGED <<row, histVars>>
  BY WritesCommit DEF Inv
<1>4. /\ row' \in Links \union {None}
      /\ deadSince' \in Times \union {None}
      /\ gatedSince' \in Times \union {None}
      /\ hadPassword' \in [Ids -> SUBSET Passwords]
      /\ \A i \in Ids : hadPassword[i] \subseteq hadPassword'[i]
      /\ RowOK'
      /\ \A copy \in Copies : CopyOK(copy) => CopyOK(copy)'
  <2>1. CASE Committed
    BY <1>1, <2>1, CommitKeeps DEF Inv
  <2>2. CASE UNCHANGED <<row, histVars>>
    BY <1>1, <2>2 DEF Inv, TypeOK, RowOK, CopyOK, Alive, Dead, histVars
  <2>3. QED
    BY <1>3, <2>1, <2>2
<1>5. TypeOK'
  BY <1>1, <1>2, <1>4 DEF Inv, TypeOK, reqVars
<1>6. EntryOK'
  <2>1. entry # None => entry.copy \in Copies
    BY DEF Inv, TypeOK, Entries
  <2>2. entry # None => CopyOK(entry.copy)'
    BY <1>1, <1>4, <2>1 DEF Inv, EntryOK, CopyOK, Alive, Dead
  <2>3. QED
    BY <1>1, <2>2 DEF Inv, EntryOK, TTL
<1>7. ASSUME NEW v \in Visitors PROVE RequestOK(v)'
  <2>1. held[v] \in Copies /\ CopyOK(held[v])
    BY DEF Inv, TypeOK, RequestOK
  <2>2. CopyOK(held[v])'
    BY <1>1, <1>4, <2>1 DEF CopyOK, Alive, Dead, reqVars
  <2>3. QED
    BY <1>1, <2>2 DEF Inv, RequestOK, Busy, TTL, reqVars
<1>8. ASSUME NEW v \in Visitors PROVE CookieOK(v)'
  <2>1. cookie[v] # None => cookie[v].id \in Ids
    BY DEF Inv, TypeOK, Tokens
  <2>2. QED
    BY <1>1, <1>4, <2>1 DEF Inv, CookieOK
<1>9. QED
  BY <1>4, <1>5, <1>6, <1>7, <1>8 DEF Inv

(* The passing of time preserves the invariant.                            *)
LEMMA TickInv == ASSUME Inv, Tick PROVE Inv'
<1> USE DEF ownerVars, reqVars
<1>1. TypeOK /\ RowOK /\ now \in Nat /\ now' = now + 1 /\ now' \in Times
  <2>1. TypeOK /\ RowOK
    BY DEF Inv
  <2>2. now \in Times /\ now < MaxTime /\ now' = now + 1
    BY <2>1 DEF TypeOK, Tick
  <2>3. QED
    BY <2>1, <2>2
<1>2. /\ deadSince' \in Times \union {None}
      /\ RowOK'
      /\ \A copy \in Copies : CopyOK(copy) => CopyOK(copy)'
  BY <1>1, TickKeeps
<1>3. TypeOK'
  BY <1>1, <1>2 DEF Tick, TypeOK
<1>4. EntryOK'
  <2> SUFFICES ASSUME entry' # None PROVE EntryOK'
    BY DEF EntryOK
  <2>1. entry' = entry /\ entry # None /\ ~(entry.until <= now + 1)
    BY DEF Tick
  <2>2. entry.copy \in Copies /\ entry.until \in Nat
    BY <1>1, <2>1 DEF TypeOK, Entries
  <2>3. CopyOK(entry.copy)'
    BY <1>1, <1>2, <2>1, <2>2 DEF Inv, EntryOK, CopyOK, Alive, Dead
  <2>4. now' < entry.until
    BY <1>1, <2>1, <2>2
  <2>5. QED
    BY <2>1, <2>3, <2>4 DEF Inv, EntryOK, TTL
<1>5. ASSUME NEW v \in Visitors PROVE RequestOK(v)'
  <2>1. held[v] \in Copies /\ CopyOK(held[v]) /\ RequestOK(v) /\ began[v] \in Nat
    BY <1>1 DEF Inv, TypeOK, RequestOK
  <2>2. CopyOK(held[v])'
    BY <1>1, <1>2, <2>1 DEF CopyOK, Alive, Dead, Tick
  <2>3. Busy(v) => now' <= began[v] + MaxLag
    BY <1>1, <2>1 DEF Tick
  <2>4. began[v] <= now'
    BY <1>1, <2>1 DEF RequestOK
  <2>5. QED
    BY <2>1, <2>2, <2>3, <2>4 DEF RequestOK, Busy, TTL, Tick
<1>6. ASSUME NEW v \in Visitors PROVE CookieOK(v)'
  BY DEF Inv, CookieOK, Tick
<1>7. QED
  BY <1>2, <1>3, <1>4, <1>5, <1>6 DEF Inv

(* The steps that only touch the entry preserve the invariant.             *)
LEMMA DropInv == ASSUME Inv, Invalidate \/ Evict PROVE Inv'
<1> USE DEF ownerVars, reqVars, histVars
<1>1. TypeOK'
  BY DEF Inv, TypeOK, Invalidate, Evict
<1>2. /\ UNCHANGED <<now, row, reqVars, cookie, histVars>>
      /\ entry' = entry \/ entry' = None
  BY DEF Invalidate, Evict
<1>3. RowOK'
  BY <1>2 DEF Inv, RowOK, Alive, Dead
<1>4. EntryOK'
  <2>1. entry # None => CopyOK(entry.copy) /\ (entry' = entry => CopyOK(entry.copy)')
    BY <1>2 DEF Inv, EntryOK, CopyOK, Alive, Dead
  <2>2. QED
    BY <1>2, <2>1 DEF Inv, EntryOK, TTL
<1>5. ASSUME NEW v \in Visitors PROVE RequestOK(v)' /\ CookieOK(v)'
  <2>1. CopyOK(held[v])'
    BY <1>2 DEF Inv, RequestOK, CopyOK, Alive, Dead
  <2>2. QED
    BY <1>2, <2>1 DEF Inv, RequestOK, CookieOK, Busy, TTL
<1>6. QED
  BY <1>1, <1>3, <1>4, <1>5 DEF Inv

(* So does a step that changes nothing.                                    *)
LEMMA StutterInv == ASSUME Inv, UNCHANGED vars PROVE Inv'
<1> USE DEF vars, ownerVars, reqVars, histVars
<1>1. TypeOK' /\ RowOK'
  BY DEF Inv, TypeOK, RowOK, Alive, Dead
<1>2. EntryOK'
  BY DEF Inv, EntryOK, CopyOK, Alive, Dead, TTL
<1>3. ASSUME NEW v \in Visitors PROVE RequestOK(v)' /\ CookieOK(v)'
  BY DEF Inv, RequestOK, CookieOK, CopyOK, Alive, Dead, TTL, Busy
<1>4. QED
  BY <1>1, <1>2, <1>3 DEF Inv

(* Every step preserves the invariant.                                     *)
LEMMA NextInv == Inv /\ [Next]_vars => Inv'
BY VisitInv, WriteInv, TickInv, DropInv, StutterInv DEF Next

(* Where every copy comes from and how old it can be (redirect.ts,         *)
(* linkService.ts:324-360), in every reachable state.                      *)
THEOREM InvHolds == Spec => []Inv
<1>1. Init => Inv
  BY InitInv
<1>2. Inv /\ [Next]_vars => Inv'
  BY NextInv
<1>3. QED
  BY <1>1, <1>2, PTL DEF Spec

-----------------------------------------------------------------------------
(* What a request that passes held: a copy that was alive, and was read    *)
(* less than its TTL and two requests ago.                                 *)
LEMMA PassHolds ==
  ASSUME Inv, [Next]_vars, NEW v \in Visitors, Passes(v)
  PROVE  /\ Pass(v)
         /\ held[v].link \in Links
         /\ CopyOK(held[v])
         /\ now < held[v].read + 2 * MaxLag + TTL(held[v].link)
<1>1. pc \in [Visitors -> {"idle", "passed", "get", "select", "set", "judge"}]
  BY DEF Inv, TypeOK
<1>2. Pass(v)
  <2>1. ASSUME NEW w \in Visitors, Visit(w) PROVE Pass(v)
    BY <1>1, <2>1 DEF Passes, Visit, Begin, GetHit, GetMiss, Select, Set, Refuse, Pass,
                      Unlock, Answer
  <2>2. (\E w \in Visitors : Visit(w)) \/ pc' = pc
    BY DEF Next, CreateLink, UpdateLink, DeleteLink, OwnerWrites, Invalidate, CountClick,
           Sweep, Tick, Evict, vars, reqVars
  <2>3. QED
    BY <2>1, <2>2 DEF Passes
<1>3. held[v].link \in Links /\ held[v].read \in Nat
  BY <1>2 DEF Pass, Alive, Inv, TypeOK, Copies
<1>4. CopyOK(held[v])
  BY DEF Inv, RequestOK
<1>5. now < held[v].read + 2 * MaxLag + TTL(held[v].link)
  <2>1. /\ now <= began[v] + MaxLag
        /\ began[v] < held[v].read + MaxLag + TTL(held[v].link)
    BY DEF Inv, RequestOK, Busy, Passes
  <2>2. now \in Nat /\ began[v] \in Nat /\ MaxLag \in Nat /\ TTL(held[v].link) \in Nat
    BY <1>3, TTLBounds DEF Inv, TypeOK
  <2>3. QED
    BY <1>3, <2>1, <2>2
<1>6. QED
  BY <1>2, <1>3, <1>4, <1>5

(* A link that stops being alive is served no longer than the TTL of the   *)
(* copy it is served from and two requests (linkService.ts:330-353).       *)
THEOREM DeadLinksServedBriefly == Spec => DeadBriefly
<1>1. ASSUME Inv, [Next]_vars, NEW v \in Visitors, Passes(v), deadSince # None
      PROVE  now < deadSince + Staleness(held[v].link)
  <2>1. /\ Pass(v) /\ held[v].link \in Links /\ CopyOK(held[v])
        /\ now < held[v].read + 2 * MaxLag + TTL(held[v].link)
    BY <1>1, PassHolds
  <2>2. held[v].read <= deadSince
    BY <1>1, <2>1 DEF Pass, CopyOK
  <2>3. /\ now \in Nat /\ deadSince \in Nat /\ held[v].read \in Nat
        /\ TTL(held[v].link) \in Nat
    BY <1>1, <2>1, TTLBounds DEF Inv, TypeOK, Copies
  <2>4. Staleness(held[v].link) = 2 * MaxLag + TTL(held[v].link)
    BY <2>1 DEF Staleness, TTL, Pass, Alive
  <2>5. QED
    BY <2>1, <2>2, <2>3, <2>4
<1>2. Inv /\ [Next]_vars =>
        \A v \in Visitors : Passes(v) /\ deadSince # None =>
          now < deadSince + Staleness(held[v].link)
  BY <1>1
<1>3. QED
  BY <1>2, InvHolds, PTL DEF Spec, DeadBriefly

(* A link that has been protected for as long as a copy can live is only   *)
(* passed with a token for this very link, still valid and given for one   *)
(* of its passwords (redirect.ts:102-109, unlockTokenService.ts:42-52).    *)
THEOREM ProtectedLinksNeedTheirToken == Spec => GateHolds
<1>1. ASSUME Inv, [Next]_vars, NEW v \in Visitors, Passes(v), gatedSince # None,
             now >= gatedSince + 2 * MaxLag + LongTTL
      PROVE  /\ cookie[v] # None
             /\ cookie[v].id = row.id
             /\ now < cookie[v].at + UnlockTTL
             /\ cookie[v].password \in hadPassword[row.id]
  <2>1. /\ Pass(v) /\ held[v].link \in Links /\ CopyOK(held[v])
        /\ now < held[v].read + 2 * MaxLag + TTL(held[v].link)
    BY <1>1, PassHolds
  <2>2. gatedSince < held[v].read
    <3>1. /\ now \in Nat /\ gatedSince \in Nat /\ held[v].read \in Nat
          /\ TTL(held[v].link) \in Nat /\ TTL(held[v].link) <= LongTTL
      BY <1>1, <2>1, TTLBounds DEF Inv, TypeOK, Copies
    <3>2. QED
      BY <1>1, <2>1, <3>1
  <2>3. held[v].link.id = row.id /\ held[v].link.password # None
    BY <1>1, <2>1, <2>2 DEF CopyOK
  <2>4. Unlocked(v, held[v].link)
    BY <2>1, <2>3 DEF Pass
  <2>5. QED
    BY <1>1, <2>3, <2>4 DEF Unlocked, Inv, CookieOK
<1>2. Inv /\ [Next]_vars =>
        \A v \in Visitors :
          Passes(v) /\ gatedSince # None /\ now >= gatedSince + 2 * MaxLag + LongTTL =>
            /\ cookie[v] # None
            /\ cookie[v].id = row.id
            /\ now < cookie[v].at + UnlockTTL
            /\ cookie[v].password \in hadPassword[row.id]
  BY <1>1
<1>3. QED
  BY <1>2, InvHolds, PTL DEF Spec, GateHolds
=============================================================================
