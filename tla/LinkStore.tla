------------------------------ MODULE LinkStore ------------------------------
(***************************************************************************)
(* /api/links on the links table: the statements of services/              *)
(* linkService.ts, one step each, for requests of several users at any     *)
(* number of processes.  Each statement is atomic in Postgres and no two   *)
(* of them share a transaction; any of them may fail, or take effect and   *)
(* lose its reply.  The requests are past authentication and rate limit    *)
(* (RateLimit.tla); the DEL of the cache entry after a write, which        *)
(* never fails a request, is in LinkCache.tla and LinkLifetime.tla.        *)
(***************************************************************************)
EXTENDS Integers, FiniteSets

CONSTANTS
  Requests,    \* requests; a listing is one, page after page
  Users,       \* subjects of their tokens
  Ids,         \* link ids, numbered by (created_at, id)
  Codes,       \* short codes
  Generated,   \* codes that generateShortCode may return
  Aliases,     \* aliases of the form that customAliasSchema asks for
  Lower,       \* each code in lower case
  Inputs,      \* what requests may ask for, see InputsAssumption
  Stored,      \* the rows at the start
  PageSize,    \* limit, at most MAX_PAGE_SIZE
  MaxAttempts, \* MAX_GENERATION_ATTEMPTS
  None,        \* no row yet, no alias, nothing asked, no answer
  Gone         \* a row that was deleted

\* content is the request that wrote it last, clicked whether it has clicks in
\* the days that statistics ask for (clicks do not age here).
Rows == [owner: Users, code: Codes, content: Requests \cup {None}, clicked: BOOLEAN]

\* What a request asks for. An empty PATCH is a "get" (linkService.ts:284).
Asks ==
  [kind: {"create"}, user: Users, alias: Aliases \cup {None}]
  \cup [kind: {"get", "stats", "update", "delete"}, user: Users, id: Ids]
  \cup [kind: {"list"}, user: Users]

\* What requests are answered, and how far a listing has come.
Scans ==
  [offset: Nat, page: {None} \cup SUBSET Ids, total: {None} \cup Nat,
   shown: SUBSET Ids, start: SUBSET Ids]

Answers ==
  [is: {"invalid", "conflict", "exhausted", "not found", "deleted", "failed", "listed"}]
  \cup [is: {"link"}, link: [id: Ids, code: Codes, content: Requests \cup {None},
                             clicked: BOOLEAN]]
  \cup [is: {"days"}, some: BOOLEAN]

ASSUME InputsAssumption == Inputs \subseteq Asks

\* RESERVED_SHORT_CODES, and the paths of one segment that app.ts mounts
\* before /:shortCode (but /openapi.json, which no code can be): Express
\* compares them without regard to case.
RESERVED_SHORT_CODES ==
  {"api", "health", "docs", "auth", "login", "signup", "admin", "static", "assets",
   "favicon.ico", "robots.txt"}
Mounted == {"health", "docs"}

\* A generated code has seven characters; no reserved word has.
ASSUME CodesAssumption ==
  /\ Generated \subseteq Codes /\ Aliases \subseteq Codes
  /\ Lower \in [Codes -> STRING]
  /\ \A c \in Generated : Lower[c] \notin RESERVED_SHORT_CODES
  /\ None \notin Codes \cup Rows \cup Asks \cup Scans \cup Answers \cup Nat
  /\ \A page \in SUBSET Ids : page # None
  /\ Gone \notin Rows \cup {None}

ASSUME SizesAssumption ==
  /\ Ids \subseteq Nat /\ IsFiniteSet(Ids)
  /\ {PageSize, MaxAttempts} \subseteq Nat \ {0}

\* The migration's UNIQUE (short_code), and aliases that were not reserved.
ASSUME StoredAssumption ==
  /\ Stored \in [Ids -> Rows \cup {None}]
  /\ \A i, j \in Ids :
       Stored[i] # None /\ Stored[j] # None /\ Stored[i].code = Stored[j].code => i = j
  /\ \A i \in Ids : Stored[i] # None => Lower[Stored[i].code] \notin RESERVED_SHORT_CODES

VARIABLES
  rows,      \* the links table
  asked,     \* what each request asks for
  pc,        \* the statement it is at
  attempts,  \* codes that were taken, for a creation without alias
  answer,    \* its answer
  scan,      \* of each listing: the page it is at and what it has shown
  spoiled    \* listings with a deletion during them, or with an insertion
             \* between the two statements of a page (history)

vars == <<rows, asked, pc, attempts, answer, scan, spoiled>>

Present == {i \in Ids : rows[i] \notin {None, Gone}}
Taken == {rows[i].code : i \in Present}
Fresh == {i \in Ids : rows[i] = None}

\* The rows WHERE user_id = u.
OwnedBy(u) == {i \in Present : rows[i].owner = u}

\* The row WHERE id = $1 AND user_id = $2 is there.
Found(r) == asked[r].id \in OwnedBy(asked[r].user)

\* A row as the API shows it.
Link(i) ==
  [id |-> i, code |-> rows[i].code, content |-> rows[i].content,
   clicked |-> rows[i].clicked]

\* Mutant: the alias is compared as it is written.
isReservedAsWritten(code) == code \in RESERVED_SHORT_CODES

isReservedShortCode(code) == Lower[code] \in RESERVED_SHORT_CODES

Listings(u) == {r \in Requests : pc[r] = "list" /\ asked[r].user = u}

(***************************************************************************)
(* Steps                                                                   *)
(***************************************************************************)

Init ==
  /\ rows = Stored
  /\ asked = [r \in Requests |-> None]
  /\ pc = [r \in Requests |-> "new"]
  /\ attempts = [r \in Requests |-> 0]
  /\ answer = [r \in Requests |-> None]
  /\ scan = [r \in Requests |-> None]
  /\ spoiled = {}

Finish(r, what) ==
  /\ answer' = [answer EXCEPT ![r] = what]
  /\ pc' = [pc EXCEPT ![r] = "done"]

GoOn(r, statement) ==
  /\ pc' = [pc EXCEPT ![r] = statement]
  /\ UNCHANGED answer

FirstStatement(a) ==
  CASE a.kind = "create" /\ a.alias # None -> "check"
    [] a.kind = "create" /\ a.alias = None -> "insert"
    [] a.kind \in {"get", "stats"} -> "select"
    [] a.kind \in {"update", "delete"} -> "write"
    [] a.kind = "list" -> "list"

\* Nothing of the first page is read, nothing shown; start is history.
FirstPage(u) ==
  [offset |-> 0, page |-> None, total |-> None, shown |-> {}, start |-> OwnedBy(u)]

\* A request comes in; the schema refuses a reserved alias with 400.
Ask(r, a) ==
  /\ pc[r] = "new"
  /\ asked' = [asked EXCEPT ![r] = a]
  /\ IF a.kind = "create" /\ a.alias # None /\ isReservedShortCode(a.alias)
     THEN Finish(r, [is |-> "invalid"])
     ELSE GoOn(r, FirstStatement(a))
  /\ scan' = IF a.kind = "list" THEN [scan EXCEPT ![r] = FirstPage(a.user)] ELSE scan
  /\ UNCHANGED <<rows, attempts, spoiled>>

\* The SELECT before the insertion of an alias.
Check(r) ==
  /\ pc[r] = "check"
  /\ IF asked[r].alias \in Taken THEN Finish(r, [is |-> "conflict"]) ELSE GoOn(r, "insert")
  /\ UNCHANGED <<rows, asked, attempts, scan, spoiled>>

Wanted(r) == IF asked[r].alias = None THEN Generated ELSE {asked[r].alias}

\* Mutant: an error of the INSERT is taken for a collision, and tried again.
InsertRetried(r, c, i, heard) ==
  LET new == [owner |-> asked[r].user, code |-> c, content |-> r, clicked |-> FALSE] IN
  /\ pc[r] = "insert"
  /\ c \in Wanted(r) \ Taken
  /\ i \in Fresh
  /\ rows' = [rows EXCEPT ![i] = new]
  /\ IF heard
     THEN Finish(r, [is |-> "link", link |-> [id |-> i, code |-> c, content |-> r,
                                              clicked |-> FALSE]])
     ELSE GoOn(r, "insert")
  /\ UNCHANGED <<asked, attempts, scan, spoiled>>

\* The INSERT. Its created_at is the start of the statement, so that a row may
\* come in below others. Whether its reply is heard decides only the answer.
Insert(r, c, i, heard) ==
  LET new == [owner |-> asked[r].user, code |-> c, content |-> r, clicked |-> FALSE] IN
  /\ pc[r] = "insert"
  /\ c \in Wanted(r) \ Taken
  /\ i \in Fresh
  /\ rows' = [rows EXCEPT ![i] = new]
  /\ Finish(r, IF heard
               THEN [is |-> "link", link |-> [id |-> i, code |-> c, content |-> r,
                                              clicked |-> FALSE]]
               ELSE [is |-> "failed"])
  /\ spoiled' = spoiled \cup
       {s \in Listings(asked[r].user) : scan[s].total # None /\ scan[s].page = None}
  /\ UNCHANGED <<asked, attempts, scan>>

\* Mutant: attempt <= MAX_GENERATION_ATTEMPTS.
CollideOnceMore(r) ==
  /\ pc[r] = "insert"
  /\ Wanted(r) \cap Taken # {}
  /\ IF asked[r].alias # None
     THEN Finish(r, [is |-> "conflict"]) /\ UNCHANGED attempts
     ELSE /\ attempts' = [attempts EXCEPT ![r] = @ + 1]
          /\ IF attempts[r] = MaxAttempts
             THEN Finish(r, [is |-> "exhausted"])
             ELSE GoOn(r, "insert")
  /\ UNCHANGED <<rows, asked, scan, spoiled>>

\* 23505: the end for an alias, another attempt for a generated code.
Collide(r) ==
  /\ pc[r] = "insert"
  /\ Wanted(r) \cap Taken # {}
  /\ IF asked[r].alias # None
     THEN Finish(r, [is |-> "conflict"]) /\ UNCHANGED attempts
     ELSE /\ attempts' = [attempts EXCEPT ![r] = @ + 1]
          /\ IF attempts[r] + 1 = MaxAttempts
             THEN Finish(r, [is |-> "exhausted"])
             ELSE GoOn(r, "insert")
  /\ UNCHANGED <<rows, asked, scan, spoiled>>

\* getLink, for a link or as the first half of its statistics.
Select(r) ==
  /\ pc[r] = "select"
  /\ IF ~Found(r) THEN Finish(r, [is |-> "not found"])
     ELSE IF asked[r].kind = "get"
     THEN Finish(r, [is |-> "link", link |-> Link(asked[r].id)])
     ELSE GoOn(r, "aggregate")
  /\ UNCHANGED <<rows, asked, attempts, scan, spoiled>>

\* The second half, scoped to the owner again.
Aggregate(r) ==
  /\ pc[r] = "aggregate"
  /\ Finish(r, [is |-> "days", some |-> Found(r) /\ rows[asked[r].id].clicked])
  /\ UNCHANGED <<rows, asked, attempts, scan, spoiled>>

WriteNothing(r) ==
  /\ pc[r] = "write"
  /\ ~Found(r)
  /\ Finish(r, [is |-> "not found"])
  /\ UNCHANGED <<rows, asked, attempts, scan, spoiled>>

Update(r, heard) ==
  LET i == asked[r].id IN
  /\ pc[r] = "write"
  /\ asked[r].kind = "update"
  /\ Found(r)
  /\ rows' = [rows EXCEPT ![i].content = r]
  /\ Finish(r, IF heard THEN [is |-> "link", link |-> [Link(i) EXCEPT !.content = r]]
                        ELSE [is |-> "failed"])
  /\ UNCHANGED <<asked, attempts, scan, spoiled>>

Delete(r, heard) ==
  /\ pc[r] = "write"
  /\ asked[r].kind = "delete"
  /\ Found(r)
  /\ rows' = [rows EXCEPT ![asked[r].id] = Gone]
  /\ Finish(r, IF heard THEN [is |-> "deleted"] ELSE [is |-> "failed"])
  /\ spoiled' = spoiled \cup Listings(asked[r].user)
  /\ UNCHANGED <<asked, attempts, scan>>

\* A statement fails without an effect, or the process dies.
Fail(r) ==
  /\ pc[r] \notin {"new", "done"}
  /\ Finish(r, [is |-> "failed"])
  /\ UNCHANGED <<rows, asked, attempts, scan, spoiled>>

\* The worker records a click.
Click(i) ==
  /\ i \in Present
  /\ rows' = [rows EXCEPT ![i].clicked = TRUE]
  /\ UNCHANGED <<asked, pc, attempts, answer, scan, spoiled>>

(***************************************************************************)
(* Listings                                                                *)
(***************************************************************************)

\* How many rows come before row i: ORDER BY created_at DESC, id DESC.
Rank(u, i) == Cardinality({j \in OwnedBy(u) : j > i})

\* The rows LIMIT PageSize OFFSET offset.
Page(u, offset) ==
  {i \in OwnedBy(u) : offset <= Rank(u, i) /\ Rank(u, i) < offset + PageSize}

\* Promise.all: the two statements of a page, in either order.
ReadPage(r) ==
  /\ pc[r] = "list"
  /\ scan[r].page = None
  /\ scan' = [scan EXCEPT ![r].page = Page(asked[r].user, scan[r].offset)]
  /\ UNCHANGED <<rows, asked, pc, attempts, answer, spoiled>>

\* Mutant: the rows of the page are counted.
CountPage(r) ==
  /\ pc[r] = "list"
  /\ scan[r].total = None
  /\ scan' = [scan EXCEPT ![r].total =
                Cardinality(Page(asked[r].user, scan[r].offset))]
  /\ UNCHANGED <<rows, asked, pc, attempts, answer, spoiled>>

CountRows(r) ==
  /\ pc[r] = "list"
  /\ scan[r].total = None
  /\ scan' = [scan EXCEPT ![r].total = Cardinality(OwnedBy(asked[r].user))]
  /\ UNCHANGED <<rows, asked, pc, attempts, answer, spoiled>>

hasMore(s) == s.offset + Cardinality(s.page) < s.total

\* The page is shown, and the client asks for the next one if there is more.
Show(r) ==
  LET s == scan[r] IN
  /\ pc[r] = "list"
  /\ s.page # None /\ s.total # None
  /\ scan' = [scan EXCEPT ![r] =
       [s EXCEPT !.offset = @ + PageSize, !.page = None, !.total = None,
                 !.shown = @ \cup s.page]]
  /\ IF hasMore(s) THEN GoOn(r, "list") ELSE Finish(r, [is |-> "listed"])
  /\ UNCHANGED <<rows, asked, attempts, spoiled>>

Next ==
  \/ \E r \in Requests :
       \/ \E a \in Inputs : Ask(r, a)
       \/ Check(r) \/ Collide(r) \/ Select(r) \/ Aggregate(r) \/ WriteNothing(r) \/ Fail(r)
       \/ \E c \in Codes, i \in Ids, heard \in BOOLEAN : Insert(r, c, i, heard)
       \/ \E heard \in BOOLEAN : Update(r, heard) \/ Delete(r, heard)
       \/ ReadPage(r) \/ CountRows(r) \/ Show(r)
  \/ \E i \in Ids : Click(i)

Spec == Init /\ [][Next]_vars

(***************************************************************************)
(* Properties                                                              *)
(***************************************************************************)

TypeOK ==
  /\ rows \in [Ids -> Rows \cup {None, Gone}]
  /\ asked \in [Requests -> Asks \cup {None}]
  /\ pc \in [Requests -> {"new", "check", "insert", "select", "aggregate", "write",
                          "list", "done"}]
  /\ attempts \in [Requests -> 0..MaxAttempts]
  /\ answer \in [Requests -> Answers \cup {None}]
  /\ scan \in [Requests -> Scans \cup {None}]
  /\ spoiled \subseteq Requests

\* The links of user u, as the API shows them.
LinksOf(u) == {Link(i) : i \in OwnedBy(u)}

\* Requests for statistics that have found their link.
Selected == {r \in Requests : pc[r] = "aggregate"}

\* What /api/links promises, of these statements: a listing is a request that
\* is never decided.
Registry == INSTANCE LinkRegistry WITH
  Asks <- Inputs,
  owned <- [u \in Users |-> LinksOf(u)],
  Stored <- [u \in Users |->
               {[id |-> i, code |-> Stored[i].code, content |-> Stored[i].content,
                 clicked |-> Stored[i].clicked] :
                 i \in {j \in Ids : Stored[j] # None /\ Stored[j].owner = u}}],
  answer <- [r \in Requests |-> IF asked[r] # None /\ asked[r].kind = "list"
                               THEN None ELSE answer[r]],
  found <- Selected

\* Every request but a listing is as if it were decided in one instant: a
\* creation leaves one link, or none when it is answered 409, whatever
\* statements of other requests come between its own (linkService.ts:138-173);
\* a 404 is given only for a link the user does not have, and statistics only
\* for one the user has, or had when the request came in or later; a PATCH shows
\* what it wrote, no user sees or changes another's links, and no code has two.
ImplementsRegistry == Registry!Spec

\* A listing shows, page after page, every link that was there all along: the
\* offsets of newest-first pages move only down when links are added, and the
\* last page is known by a total that is no older than it. A link is missed
\* only if one was deleted meanwhile, or added between a count and its page
\* (linkService.ts:195-206, links.ts:135).
ScanComplete ==
  \A r \in Requests \ spoiled :
    answer[r] = [is |-> "listed"] => scan[r].start \subseteq scan[r].shown

\* No link has a code that the routers before /:shortCode take for themselves
\* (shortCode.ts:18-24, app.ts:94-105), in any case of letters.
EveryLinkReachable == \A i \in Present : Lower[rows[i].code] \notin Mounted

(***************************************************************************)
(* The inductive invariant                                                 *)
(***************************************************************************)

\* UNIQUE (short_code), and no reserved code.
CodesOfRows ==
  \A i \in Present :
    /\ ~isReservedShortCode(rows[i].code)
    /\ \A j \in Present : rows[i].code = rows[j].code => i = j

\* Which statements a request of each kind goes through.
Kinds(statement) ==
  CASE statement \in {"check", "insert"} -> {"create"}
    [] statement = "select" -> {"get", "stats"}
    [] statement = "aggregate" -> {"stats"}
    [] statement = "write" -> {"update", "delete"}
    [] statement = "list" -> {"list"}
    [] OTHER -> {"create", "get", "stats", "update", "delete", "list"}

RequestsOnTheirWay ==
  \A r \in Requests :
    /\ pc[r] = "new" => asked[r] = None
    /\ pc[r] # "new" => asked[r] \in Inputs /\ asked[r].kind \in Kinds(pc[r])
    /\ pc[r] # "done" => answer[r] = None
    /\ pc[r] = "check" => asked[r].alias # None
    /\ pc[r] \in {"check", "insert"} /\ asked[r].alias # None
         => ~isReservedShortCode(asked[r].alias)
    /\ pc[r] \in {"new", "check", "insert"} => attempts[r] < MaxAttempts
    /\ pc[r] = "list" => scan[r] # None
    /\ answer[r] = [is |-> "listed"] => scan[r] # None

\* What listing r has shown, unless it was spoiled: all it found at its start
\* and is before its offset; with the page at hand, all of it, or the total
\* will say that there is more.
ShownSoFar(r) ==
  LET s == scan[r]
      u == asked[r].user
      read == s.offset + Cardinality(s.page)
      size == Cardinality(OwnedBy(u))
  IN /\ s.start \subseteq OwnedBy(u)
     /\ s.page = None =>
          /\ \A i \in s.start : Rank(u, i) < s.offset => i \in s.shown
          /\ s.total # None => s.total = size
     /\ s.page # None =>
          /\ \A i \in s.start : Rank(u, i) < s.offset + PageSize => i \in s.shown \cup s.page
          /\ \/ s.start \subseteq s.shown \cup s.page
             \/ read < size /\ (s.total # None => read < s.total)

ScanSoFar == \A r \in Requests \ spoiled : pc[r] = "list" => ShownSoFar(r)

Inv ==
  /\ TypeOK
  /\ CodesOfRows
  /\ RequestsOnTheirWay
  /\ ScanSoFar
  /\ ScanComplete
==============================================================================
