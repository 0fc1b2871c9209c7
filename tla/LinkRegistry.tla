---------------------------- MODULE LinkRegistry ----------------------------
(***************************************************************************)
(* What /api/links promises its users: each has a set of links that nobody *)
(* else sees or changes, a short code names one link, every request is     *)
(* decided in one instant between its arrival and its answer, and takes    *)
(* effect at most once.  An answer that never came says nothing about the  *)
(* effect.  LinkStore.tla has the statements that implement it; listing is *)
(* not promised to be one instant and is specified there.                  *)
(***************************************************************************)
CONSTANTS
  Requests,   \* requests to /api/links
  Users,      \* their subjects
  Ids,        \* link ids
  Generated,  \* those that generateShortCode may return
  Asks,       \* what a request may ask for, see LinkStore.tla
  Stored,     \* the links of each user at the start: [id, code, content, clicked],
              \* the content being the request that wrote it last
  None        \* no alias asked for, nothing asked yet, no answer yet

VARIABLES
  owned,   \* the links of each user
  asked,   \* what each request asks for
  answer,  \* what it is, or will be, answered
  found    \* undecided requests for statistics whose link was there at some
           \* instant since they came in

vars == <<owned, asked, answer, found>>

Mine(r) == owned[asked[r].user]
Taken == {l.code : l \in UNION {owned[u] : u \in Users}}
Present == {l.id : l \in UNION {owned[u] : u \in Users}}

Init ==
  /\ owned = Stored
  /\ asked = [r \in Requests |-> None]
  /\ answer = [r \in Requests |-> None]
  /\ found = {}

\* A request comes in; an alias may be refused for what it is.
Ask(r, a) ==
  /\ asked[r] = None
  /\ asked' = [asked EXCEPT ![r] = a]
  /\ \/ UNCHANGED answer
     \/ /\ a.kind = "create" /\ a.alias # None
        /\ answer' = [answer EXCEPT ![r] = [is |-> "invalid"]]
  /\ UNCHANGED <<owned, found>>

\* Request r is of one of the kinds and not yet decided.
Open(r, kinds) ==
  /\ asked[r] # None
  /\ asked[r].kind \in kinds
  /\ answer[r] = None

Decide(r, what) ==
  /\ answer' = [answer EXCEPT ![r] = what]
  /\ found' = found \ {r}
  /\ UNCHANGED asked

Become(r, links) == owned' = [owned EXCEPT ![asked[r].user] = links]

\* The codes that suit a creation.
Wanted(r) == IF asked[r].alias = None THEN Generated ELSE {asked[r].alias}

Create(r) ==
  /\ Open(r, {"create"})
  /\ \E i \in Ids \ Present, c \in Wanted(r) \ Taken :
       LET new == [id |-> i, code |-> c, content |-> r, clicked |-> FALSE] IN
       /\ Become(r, Mine(r) \cup {new})
       /\ \E what \in {[is |-> "link", link |-> new], [is |-> "failed"]} : Decide(r, what)

\* 409 for an alias that is taken; 500 when generated codes keep being taken.
Refuse(r) ==
  /\ Open(r, {"create"})
  /\ Wanted(r) \cap Taken # {}
  /\ Decide(r, [is |-> IF asked[r].alias = None THEN "exhausted" ELSE "conflict"])
  /\ UNCHANGED owned

NotFound(r) ==
  /\ Open(r, {"get", "stats", "update", "delete"})
  /\ \A l \in Mine(r) : l.id # asked[r].id
  /\ Decide(r, [is |-> "not found"])
  /\ UNCHANGED owned

Get(r) ==
  /\ Open(r, {"get"})
  /\ \E l \in Mine(r) :
       l.id = asked[r].id /\ Decide(r, [is |-> "link", link |-> l])
  /\ UNCHANGED owned

\* The link of a request for statistics is there.
Find(r) ==
  /\ Open(r, {"stats"})
  /\ \E l \in Mine(r) : l.id = asked[r].id
  /\ found' = found \cup {r}
  /\ UNCHANGED <<owned, asked, answer>>

\* The days of a link that has clicks, or none; none, too, if the link was
\* there and is gone, but not if it never was: that is a 404.
Stats(r) ==
  /\ Open(r, {"stats"})
  /\ \/ \E l \in Mine(r) :
          l.id = asked[r].id /\ Decide(r, [is |-> "days", some |-> l.clicked])
     \/ /\ r \in found
        /\ \A l \in Mine(r) : l.id # asked[r].id
        /\ Decide(r, [is |-> "days", some |-> FALSE])
  /\ UNCHANGED owned

\* A PATCH answers with what it wrote, whatever happens to the link later.
Update(r) ==
  /\ Open(r, {"update"})
  /\ \E l \in Mine(r) :
       LET new == [l EXCEPT !.content = r] IN
       /\ l.id = asked[r].id
       /\ Become(r, (Mine(r) \ {l}) \cup {new})
       /\ \E what \in {[is |-> "link", link |-> new], [is |-> "failed"]} : Decide(r, what)

Delete(r) ==
  /\ Open(r, {"delete"})
  /\ \E l \in Mine(r) :
       /\ l.id = asked[r].id
       /\ Become(r, Mine(r) \ {l})
       /\ \E what \in {[is |-> "deleted"], [is |-> "failed"]} : Decide(r, what)

\* A request may fail without an effect.
Fail(r) ==
  /\ Open(r, {"create", "get", "stats", "update", "delete"})
  /\ Decide(r, [is |-> "failed"])
  /\ UNCHANGED owned

\* A click on a link is recorded.
Click(u, l) ==
  /\ l \in owned[u]
  /\ owned' = [owned EXCEPT ![u] = (@ \ {l}) \cup {[l EXCEPT !.clicked = TRUE]}]
  /\ UNCHANGED <<asked, answer, found>>

Next ==
  \/ \E r \in Requests :
       \/ \E a \in Asks : Ask(r, a)
       \/ Create(r) \/ Refuse(r) \/ NotFound(r) \/ Get(r) \/ Find(r) \/ Stats(r)
       \/ Update(r) \/ Delete(r) \/ Fail(r)
  \/ \E u \in Users : \E l \in owned[u] : Click(u, l)

Spec == Init /\ [][Next]_vars
=============================================================================
