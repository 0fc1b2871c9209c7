---------------------------- MODULE LinkLifetime ----------------------------
(***************************************************************************)
(* How long a link is served: its expiry, its click cap, its password and  *)
(* its owner's edits, seen through a cached copy that ages (redirect.ts,   *)
(* linkService.ts, linkCleanupProcessor.ts).                               *)
(*                                                                         *)
(* LinkCache has the races of the cache itself; here they meet a clock.    *)
(* One short code.  Both processes and the database read one clock, in     *)
(* coarse units, and a request is handled within MaxLag of them.           *)
(***************************************************************************)
EXTENDS Integers

CONSTANTS
  Visitors,   \* each with a browser: one request at a time, one cookie
  Passwords,  \* of the link
  Expiries,   \* values of expires_at
  Caps,       \* values of max_clicks
  LongTTL,    \* LINK_CACHE_TTL_SECONDS
  CappedTTL,  \* LINK_CACHE_CAPPED_TTL_SECONDS
  MissTTL,    \* LINK_CACHE_NEGATIVE_TTL_SECONDS
  UnlockTTL,  \* UNLOCK_TOKEN_TTL and UNLOCK_COOKIE_MAX_AGE_MS
  MaxLag,     \* bound: a request is handled within this time
  MaxTime,    \* bound: the last instant
  MaxEdits,   \* bound: writes of the owner
  MaxClicks,  \* bound: clicks of one link that are enqueued
  None        \* SQL's NULL; no row, no entry, no cookie, no time

ASSUME LinkLifetimeAssumption ==
  /\ {LongTTL, CappedTTL, MissTTL, UnlockTTL, MaxLag, MaxTime, MaxEdits, MaxClicks} \subseteq Nat
  /\ 0 < CappedTTL /\ CappedTTL <= LongTTL /\ 0 < MissTTL /\ MissTTL <= LongTTL
  /\ Expiries \subseteq Nat /\ Caps \subseteq Nat \ {0}
  /\ None \notin Int \union Passwords

Times == 0..MaxTime

Ids == 1..MaxEdits

(* REDIRECT_LOOKUP_COLUMNS; the id is the number of the owner's write.     *)
Links == [id : Ids, active : BOOLEAN, expiresAt : Expiries \union {None},
          cap : Caps \union {None}, count : Nat, password : Passwords \union {None}]

(* A copy of the row, with the time of the SELECT that read it (history).  *)
Copies == [link : Links \union {None}, read : Times]

Entries == [copy : Copies, until : Nat]

(* What an unlock token says, and the password it was given for (history). *)
Tokens == [id : Ids, at : Times, password : Passwords]

VARIABLES
  now,         \* the clock
  row,         \* the committed row
  edits,       \* writes of the owner so far
  owner,       \* the owner's request: "idle", or "del" before its DEL
  entry,       \* the cached copy and when its TTL ends
  queued,      \* clicks of each link that are in the queue
  pc,          \* where each visitor's request is, or how the last one ended
  given,       \* the password it posts; None for a GET
  began,       \* when it began
  held,        \* the copy it holds
  cookie,      \* each visitor's unlock token
  deadSince,   \* history: since when the row has been dead without a break
  gatedSince,  \* history: since when the row has had a password
  hadPassword  \* history: the passwords each link has had

ownerVars == <<edits, owner>>
reqVars   == <<pc, given, began, held>>
histVars  == <<deadSince, gatedSince, hadPassword>>
vars      == <<now, row, ownerVars, entry, queued, reqVars, cookie, histVars>>

TypeOK ==
  /\ now \in Times
  /\ row \in Links \union {None}
  /\ edits \in 0..MaxEdits
  /\ owner \in {"idle", "del"}
  /\ entry \in Entries \union {None}
  /\ queued \in [Ids -> 0..MaxClicks]
  /\ pc \in [Visitors -> {"idle", "passed", "get", "select", "set", "judge"}]
  /\ given \in [Visitors -> Passwords \union {None}]
  /\ began \in [Visitors -> Times]
  /\ held \in [Visitors -> Copies]
  /\ cookie \in [Visitors -> Tokens \union {None}]
  /\ deadSince \in Times \union {None}
  /\ gatedSince \in Times \union {None}
  /\ hadPassword \in [Ids -> SUBSET Passwords]

NoCopy == [link |-> None, read |-> 0]

Init ==
  /\ now = 0
  /\ row = None
  /\ edits = 0
  /\ owner = "idle"
  /\ entry = None
  /\ queued = [i \in Ids |-> 0]
  /\ pc = [v \in Visitors |-> "idle"]
  /\ given = [v \in Visitors |-> None]
  /\ began = [v \in Visitors |-> 0]
  /\ held = [v \in Visitors |-> NoCopy]
  /\ cookie = [v \in Visitors |-> None]
  /\ deadSince = 0
  /\ gatedSince = None
  /\ hadPassword = [i \in Ids |-> {}]

-----------------------------------------------------------------------------
(* Mutant: one TTL for every link. *)
OneTTL(link) == IF link = None THEN MissTTL ELSE LongTTL

(* The TTL getLinkByShortCode picks.                                       *)
TTL(link) == IF link = None THEN MissTTL
             ELSE IF link.cap = None THEN LongTTL ELSE CappedTTL

(* deadStateError, for a link that exists.                                 *)
Dead(link, t) ==
  \/ ~link.active
  \/ link.expiresAt # None /\ link.expiresAt <= t
  \/ link.cap # None /\ link.count >= link.cap

Alive(link, t) == link # None /\ ~Dead(link, t)

(* Mutant: any valid unlock token opens any link. *)
AnyToken(v, link) == cookie[v] # None /\ now < cookie[v].at + UnlockTTL

(* verifyUnlockToken, and the comparison of its linkId.                    *)
Unlocked(v, link) ==
  /\ cookie[v] # None
  /\ now < cookie[v].at + UnlockTTL
  /\ cookie[v].id = link.id

-----------------------------------------------------------------------------
(* The database. *)

(* A statement on the row commits; the history follows.                    *)
Commit(new) ==
  /\ row' = new
  /\ deadSince' = IF Alive(new, now) THEN None
                  ELSE IF deadSince = None THEN now ELSE deadSince
  /\ gatedSince' = IF new = None \/ new.password = None THEN None
                   ELSE IF gatedSince = None THEN now ELSE gatedSince
  /\ hadPassword' = IF new = None \/ new.password = None THEN hadPassword
                    ELSE [hadPassword EXCEPT ![new.id] = @ \union {new.password}]

(* A new expires_at was in the future when the request was parsed.         *)
NewExpiries == {e \in Expiries : e + MaxLag > now} \union {None}

(* The owner's writes, each followed by its DEL (the insert of a generated *)
(* code by none, which is a DEL that fails).                               *)
OwnerWrites ==
  /\ owner = "idle"
  /\ edits < MaxEdits
  /\ owner' = "del"
  /\ edits' = edits + 1
  /\ UNCHANGED <<now, entry, queued, reqVars, cookie>>

CreateLink ==
  /\ OwnerWrites
  /\ row = None
  /\ \E e \in NewExpiries, c \in Caps \union {None}, p \in Passwords \union {None} :
       Commit([id |-> edits + 1, active |-> TRUE, expiresAt |-> e, cap |-> c,
               count |-> 0, password |-> p])

(* Fields left out of a PATCH keep their value.                            *)
UpdateLink ==
  /\ OwnerWrites
  /\ row # None
  /\ \E a \in BOOLEAN, e \in NewExpiries \union {row.expiresAt}, c \in Caps \union {None},
        p \in Passwords \union {None} :
       Commit([row EXCEPT !.active = a, !.expiresAt = e, !.cap = c, !.password = p])

DeleteLink == OwnerWrites /\ row # None /\ Commit(None)

(* invalidateLinkCache; its DEL may fail.                                  *)
Invalidate ==
  /\ owner = "del"
  /\ owner' = "idle"
  /\ entry' \in {None, entry}
  /\ UNCHANGED <<now, row, edits, queued, reqVars, cookie, histVars>>

(* processClickJob for a click of link i: the count, if the link is there, *)
(* or a job that fails for good.                                           *)
CountClick(i) ==
  /\ queued[i] > 0
  /\ queued' = [queued EXCEPT ![i] = @ - 1]
  /\ \/ row # None /\ row.id = i /\ Commit([row EXCEPT !.count = @ + 1])
     \/ UNCHANGED <<row, histVars>>
  /\ UNCHANGED <<now, ownerVars, entry, reqVars, cookie>>

(* sweepExpiredLinks.                                                      *)
Sweep ==
  /\ row # None
  /\ row.active
  /\ row.expiresAt # None
  /\ row.expiresAt <= now
  /\ Commit([row EXCEPT !.active = FALSE])
  /\ UNCHANGED <<now, ownerVars, entry, queued, reqVars, cookie>>

-----------------------------------------------------------------------------
(* A visitor's request: getLinkByShortCode, then the handler's verdict. *)

Busy(v) == pc[v] \notin {"idle", "passed"}

Others == UNCHANGED <<now, row, ownerVars, histVars>>

(* GET /:shortCode, or POST /:shortCode/unlock with a password.            *)
Begin(v) ==
  /\ ~Busy(v)
  /\ pc' = [pc EXCEPT ![v] = "get"]
  /\ began' = [began EXCEPT ![v] = now]
  /\ \E p \in Passwords \union {None} : given' = [given EXCEPT ![v] = p]
  /\ UNCHANGED <<entry, queued, held, cookie>> /\ Others

GetHit(v) ==
  /\ pc[v] = "get"
  /\ entry # None
  /\ held' = [held EXCEPT ![v] = entry.copy]
  /\ pc' = [pc EXCEPT ![v] = "judge"]
  /\ UNCHANGED <<entry, queued, given, began, cookie>> /\ Others

(* No entry, or the GET fails.                                             *)
GetMiss(v) ==
  /\ pc[v] = "get"
  /\ pc' = [pc EXCEPT ![v] = "select"]
  /\ UNCHANGED <<entry, queued, given, began, held, cookie>> /\ Others

Select(v) ==
  /\ pc[v] = "select"
  /\ held' = [held EXCEPT ![v] = [link |-> row, read |-> now]]
  /\ pc' = [pc EXCEPT ![v] = "set"]
  /\ UNCHANGED <<entry, queued, given, began, cookie>> /\ Others

(* Mutant: a SET with the long TTL for a link and for a miss alike. *)
SetLong(v) ==
  /\ pc[v] = "set"
  /\ entry' \in {entry, [copy |-> held[v], until |-> now + LongTTL]}
  /\ pc' = [pc EXCEPT ![v] = "judge"]
  /\ UNCHANGED <<queued, given, began, held, cookie>> /\ Others

(* The SET is carried out, or fails.                                       *)
Set(v) ==
  /\ pc[v] = "set"
  /\ entry' \in {entry, [copy |-> held[v], until |-> now + TTL(held[v].link)]}
  /\ pc' = [pc EXCEPT ![v] = "judge"]
  /\ UNCHANGED <<queued, given, began, held, cookie>> /\ Others

(* The request is answered; what it held is forgotten.                     *)
Answer(v, ending) ==
  /\ pc[v] = "judge"
  /\ pc' = [pc EXCEPT ![v] = ending]
  /\ given' = [given EXCEPT ![v] = None]
  /\ began' = [began EXCEPT ![v] = 0]
  /\ held' = [held EXCEPT ![v] = NoCopy]
  /\ UNCHANGED entry /\ Others

(* 404, 410, the interstitial, a wrong password, or back to the link.      *)
Refuse(v) ==
  /\ Answer(v, "idle")
  /\ LET link == held[v].link IN
       Alive(link, now) =>
         IF given[v] = None THEN link.password # None /\ ~Unlocked(v, link)
         ELSE link.password # given[v]
  /\ UNCHANGED <<queued, cookie>>

(* Clicks of link i that are counted or will be.                           *)
Clicks(i) == queued[i] + (IF row # None /\ row.id = i THEN row.count ELSE 0)

(* The redirect, with its click enqueued or lost.                          *)
Pass(v) ==
  /\ Answer(v, "passed")
  /\ LET link == held[v].link IN
       /\ given[v] = None
       /\ Alive(link, now)
       /\ link.password = None \/ Unlocked(v, link)
       /\ \/ UNCHANGED queued
          \/ Clicks(link.id) < MaxClicks /\ queued' = [queued EXCEPT ![link.id] = @ + 1]
  /\ UNCHANGED cookie

(* Mutant: the password is not compared. *)
UnlockAny(v) ==
  /\ Answer(v, "idle")
  /\ LET link == held[v].link IN
       /\ given[v] # None
       /\ Alive(link, now)
       /\ cookie' = [cookie EXCEPT ![v] = [id |-> link.id, at |-> now, password |-> given[v]]]
  /\ UNCHANGED queued

(* The right password: an unlock token, and back to the link.              *)
Unlock(v) ==
  /\ Answer(v, "idle")
  /\ LET link == held[v].link IN
       /\ given[v] # None
       /\ Alive(link, now)
       /\ link.password = given[v]
       /\ cookie' = [cookie EXCEPT ![v] = [id |-> link.id, at |-> now, password |-> given[v]]]
  /\ UNCHANGED queued

Visit(v) == \/ Begin(v) \/ GetHit(v) \/ GetMiss(v) \/ Select(v) \/ Set(v)
            \/ Refuse(v) \/ Pass(v) \/ Unlock(v)

-----------------------------------------------------------------------------
(* Time passes, but not past the end of a request; Redis drops the entry   *)
(* when its TTL ends.                                                      *)
Tick ==
  /\ now < MaxTime
  /\ \A v \in Visitors : Busy(v) => now < began[v] + MaxLag
  /\ now' = now + 1
  /\ entry' = IF entry # None /\ entry.until <= now + 1 THEN None ELSE entry
  /\ deadSince' = IF deadSince = None /\ ~Alive(row, now + 1) THEN now + 1 ELSE deadSince
  /\ UNCHANGED <<row, ownerVars, queued, reqVars, cookie, gatedSince, hadPassword>>

(* Redis loses the key before that.                                        *)
Evict == entry # None /\ entry' = None
         /\ UNCHANGED <<now, row, ownerVars, queued, reqVars, cookie, histVars>>

Next ==
  \/ \E v \in Visitors : Visit(v)
  \/ CreateLink \/ UpdateLink \/ DeleteLink \/ Invalidate
  \/ \E i \in Ids : CountClick(i)
  \/ Sweep
  \/ Tick
  \/ Evict

Spec == Init /\ [][Next]_vars

-----------------------------------------------------------------------------
(* Every copy was read when its row was alive, if it still looks alive,    *)
(* and shows the password of a link that was protected when it was read.   *)
CopyOK(copy) ==
  /\ copy.read <= now
  /\ deadSince # None /\ Alive(copy.link, now) => copy.read <= deadSince
  /\ copy.link # None /\ copy.link.password # None =>
       copy.link.password \in hadPassword[copy.link.id]
  /\ gatedSince # None /\ gatedSince < copy.read =>
       copy.link # None /\ copy.link.id = row.id /\ copy.link.password # None

RowOK ==
  /\ deadSince # None => ~Alive(row, now)
  /\ gatedSince # None => row # None /\ row.password # None
  /\ row # None /\ row.password # None => row.password \in hadPassword[row.id]

EntryOK ==
  entry # None =>
    /\ CopyOK(entry.copy)
    /\ now < entry.until
    /\ entry.until <= entry.copy.read + MaxLag + TTL(entry.copy.link)

RequestOK(v) ==
  /\ CopyOK(held[v])
  /\ began[v] <= now
  /\ Busy(v) => now <= began[v] + MaxLag
  /\ pc[v] = "set" => began[v] <= held[v].read
  /\ pc[v] = "judge" => began[v] < held[v].read + MaxLag + TTL(held[v].link)

CookieOK(v) == cookie[v] # None => cookie[v].password \in hadPassword[cookie[v].id]

(* Where a copy comes from and how old it may be, at each stage of the     *)
(* request that reads it, the entry it is left in and the request that     *)
(* finds it there: what keeps redirect.ts from serving a dead link longer  *)
(* than the TTLs of linkService.ts:330-353 allow.                          *)
Inv == TypeOK /\ RowOK /\ EntryOK /\ \A v \in Visitors : RequestOK(v) /\ CookieOK(v)

-----------------------------------------------------------------------------
Passes(v) == pc[v] = "judge" /\ pc'[v] = "passed"

(* How long one request can serve what another has read: two requests and  *)
(* the TTL between them.                                                   *)
Staleness(link) == 2 * MaxLag + (IF link.cap = None THEN LongTTL ELSE CappedTTL)

(* A link that is deactivated, expired, used up or deleted stops being     *)
(* served: within 5 s of its end, and the time of two requests, from a     *)
(* copy with a cap, within 300 s from any other, whatever DELs are lost    *)
(* (linkService.ts:330-353).                                               *)
DeadBriefly ==
  [][\A v \in Visitors : Passes(v) /\ deadSince # None =>
       now < deadSince + Staleness(held[v].link)]_vars

(* A link that has had a password for as long as a copy can live lets      *)
(* nobody through without a token that is still valid, names this link,    *)
(* not an earlier one of the same code, and was given for a password that  *)
(* this link had (redirect.ts:102-109, unlockTokenService.ts:42-52).       *)
GateHolds ==
  [][\A v \in Visitors :
       Passes(v) /\ gatedSince # None /\ now >= gatedSince + 2 * MaxLag + LongTTL =>
         /\ cookie[v] # None
         /\ cookie[v].id = row.id
         /\ now < cookie[v].at + UnlockTTL
         /\ cookie[v].password \in hadPassword[row.id]]_vars
=============================================================================
