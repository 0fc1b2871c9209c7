--------------------------- MODULE LinkStoreProofs ---------------------------
(***************************************************************************)
(* Proofs about LinkStore.tla: its inductive invariant, that listings show *)
(* everything, and that the statements implement LinkRegistry.tla.         *)
(***************************************************************************)
EXTENDS LinkStore, FiniteSetTheorems, TLAPS

(***************************************************************************)
(* Requests and rows                                                       *)
(***************************************************************************)

\* What requests ask for.
LEMMA AskFacts ==
  ASSUME NEW a \in Inputs
  PROVE  /\ a \in Asks /\ a # None /\ a.user \in Users
         /\ a.kind \in {"create", "get", "stats", "update", "delete", "list"}
         /\ a.kind = "create" => a.alias \in Aliases \cup {None}
         /\ a.kind \in {"get", "stats", "update", "delete"} => a.id \in Ids
BY InputsAssumption, CodesAssumption DEF Asks

\* A row that is there is a row.
LEMMA PresentFacts ==
  ASSUME TypeOK
  PROVE  \A i \in Present : i \in Ids /\ rows[i] \in Rows
BY DEF TypeOK, Present

\* What the API shows of it.
LEMMA LinkFacts ==
  ASSUME TypeOK
  PROVE  \A i \in Present :
           Link(i) \in [id: Ids, code: Codes, content: Requests \cup {None}, clicked: BOOLEAN]
BY PresentFacts DEF Link, Rows

\* A user's links are finitely many.
LEMMA OwnedIsFinite ==
  ASSUME NEW u
  PROVE  IsFiniteSet(OwnedBy(u)) /\ Cardinality(OwnedBy(u)) \in Nat
<1>1. OwnedBy(u) \subseteq Ids
  BY DEF OwnedBy, Present
<1> QED BY <1>1, SizesAssumption, FS_Subset, FS_CardinalityType

\* Answers, and what they are in place of.
LEMMA AnswerFacts ==
  /\ \A w \in {"invalid", "conflict", "exhausted", "not found", "deleted", "failed",
             "listed"} : [is |-> w] \in Answers
  /\ \A l \in [id: Ids, code: Codes, content: Requests \cup {None}, clicked: BOOLEAN] :
       [is |-> "link", link |-> l] \in Answers
  /\ \A some \in BOOLEAN : [is |-> "days", some |-> some] \in Answers
BY DEF Answers

\* Only a listing is answered with "listed", and a listing is not None.
LEMMA ListedIsBare ==
  /\ \A w : w # "listed" => [is |-> w] # [is |-> "listed"]
  /\ \A l : [is |-> "link", link |-> l] # [is |-> "listed"]
  /\ \A some : [is |-> "days", some |-> some] # [is |-> "listed"]
<1>1. \A w : w # "listed" => [is |-> w] # [is |-> "listed"]
  <2> SUFFICES ASSUME NEW w, [is |-> w] = [is |-> "listed"]
               PROVE  w = "listed"
    OBVIOUS
  <2>1. [is |-> w].is = [is |-> "listed"].is
    OBVIOUS
  <2> QED BY <2>1
<1>2. \A l : [is |-> "link", link |-> l].is # [is |-> "listed"].is
  OBVIOUS
<1>3. \A some : [is |-> "days", some |-> some].is # [is |-> "listed"].is
  OBVIOUS
<1> QED BY <1>1, <1>2, <1>3

LEMMA ScanIsNoNone ==
  \A s : s \in Scans => s # None
BY CodesAssumption

\* Nor is a page.
LEMMA PagesAreNotNone ==
  \A page \in SUBSET Ids : page # None
BY CodesAssumption

\* An answer that is given to a request.
LEMMA FinishType ==
  ASSUME TypeOK, NEW r \in Requests, NEW what \in Answers, Finish(r, what)
  PROVE  answer' \in [Requests -> Answers \cup {None}]
BY DEF TypeOK, Finish

\* A step of a listing leaves a listing.
LEMMA PageTypes ==
  ASSUME TypeOK, RequestsOnTheirWay, NEW r \in Requests,
         ReadPage(r) \/ CountRows(r) \/ Show(r)
  PROVE  /\ scan[r] \in Scans /\ scan'[r] \in Scans
         /\ scan' \in [Requests -> Scans \cup {None}]
<1>1. scan[r] \in Scans
  BY DEF ReadPage, CountRows, Show, RequestsOnTheirWay, TypeOK
<1>2. CASE ReadPage(r) \/ CountRows(r)
  <2>1. Page(asked[r].user, scan[r].offset) \in SUBSET Ids
    BY DEF Page, OwnedBy, Present
  <2>2. Cardinality(OwnedBy(asked[r].user)) \in Nat
    BY OwnedIsFinite
  <2>3. \/ scan' = [scan EXCEPT ![r] = [scan[r] EXCEPT !.page =
                                         Page(asked[r].user, scan[r].offset)]]
        \/ scan' = [scan EXCEPT ![r] = [scan[r] EXCEPT !.total =
                                         Cardinality(OwnedBy(asked[r].user))]]
    BY <1>2 DEF ReadPage, CountRows
  <2>4. /\ [scan[r] EXCEPT !.page = Page(asked[r].user, scan[r].offset)] \in Scans
        /\ [scan[r] EXCEPT !.total = Cardinality(OwnedBy(asked[r].user))] \in Scans
    BY <1>1, <2>1, <2>2 DEF Scans
  <2> QED BY <1>1, <2>3, <2>4 DEF TypeOK
<1>3. CASE Show(r)
  <2>1. scan[r].page \in SUBSET Ids /\ scan[r].offset + PageSize \in Nat
    BY <1>1, <1>3, SizesAssumption DEF Show, Scans
  <2>2. [scan[r] EXCEPT !.offset = @ + PageSize, !.page = None, !.total = None,
                        !.shown = @ \cup scan[r].page] \in Scans
    BY <1>1, <2>1 DEF Scans
  <2> QED BY <1>1, <1>3, <2>2 DEF Show, TypeOK
<1> QED BY <1>2, <1>3

\* Every step keeps the types.
LEMMA TypeStep ==
  ASSUME TypeOK, RequestsOnTheirWay, [Next]_vars
  PROVE  TypeOK'
<1> USE DEF TypeOK, GoOn, Finish
<1>1. ASSUME NEW r \in Requests, NEW a \in Inputs, Ask(r, a)
      PROVE  TypeOK'
  <2>1. FirstStatement(a) \in {"check", "insert", "select", "write", "list"}
    BY AskFacts DEF FirstStatement
  <2>2. FirstPage(a.user) \in Scans
    BY DEF FirstPage, Scans, OwnedBy, Present
  <2>3. asked' \in [Requests -> Asks \cup {None}] /\ pc' \in [Requests ->
          {"new", "check", "insert", "select", "aggregate", "write", "list", "done"}]
    BY <1>1, <2>1, AskFacts DEF Ask
  <2>4. scan' \in [Requests -> Scans \cup {None}]
    BY <1>1, <2>2 DEF Ask
  <2>5. answer' \in [Requests -> Answers \cup {None}]
    <3>1. CASE Finish(r, [is |-> "invalid"])
      BY <3>1, FinishType, AnswerFacts
    <3>2. CASE UNCHANGED answer
      BY <3>2
    <3> QED BY <1>1, <3>1, <3>2 DEF Ask
  <2> QED BY <1>1, <2>3, <2>4, <2>5 DEF Ask
<1>2. ASSUME NEW r \in Requests, Check(r)
      PROVE  TypeOK'
  <2>1. CASE Finish(r, [is |-> "conflict"])
    BY <1>2, <2>1, FinishType, AnswerFacts DEF Check
  <2>2. CASE GoOn(r, "insert")
    BY <1>2, <2>2 DEF Check
  <2> QED BY <1>2, <2>1, <2>2 DEF Check
<1>3. ASSUME NEW r \in Requests, Collide(r)
      PROVE  TypeOK'
  <2>1. attempts[r] \in 0..MaxAttempts /\ attempts[r] < MaxAttempts /\ MaxAttempts \in Nat
    BY <1>3, SizesAssumption DEF Collide, RequestsOnTheirWay
  <2>2. attempts' \in [Requests -> 0..MaxAttempts]
    BY <1>3, <2>1 DEF Collide
  <2>3. answer' \in [Requests -> Answers \cup {None}]
    <3>1. CASE UNCHANGED answer
      BY <3>1
    <3>2. CASE Finish(r, [is |-> "conflict"]) \/ Finish(r, [is |-> "exhausted"])
      BY <3>2, FinishType, AnswerFacts
    <3> QED BY <1>3, <3>1, <3>2 DEF Collide
  <2> QED BY <1>3, <2>2, <2>3 DEF Collide
<1>4. ASSUME NEW r \in Requests, Select(r) \/ Aggregate(r) \/ WriteNothing(r) \/ Fail(r)
      PROVE  TypeOK'
  <2>1. /\ pc' \in [Requests ->
             {"new", "check", "insert", "select", "aggregate", "write", "list", "done"}]
        /\ UNCHANGED <<rows, asked, attempts, scan, spoiled>>
    BY <1>4 DEF Select, Aggregate, WriteNothing, Fail
  <2>2. CASE Aggregate(r)
    <3>1. (Found(r) /\ rows[asked[r].id].clicked) \in BOOLEAN
      OBVIOUS
    <3>2. [is |-> "days", some |-> Found(r) /\ rows[asked[r].id].clicked] \in Answers
      BY <3>1, AnswerFacts
    <3> QED BY <2>1, <2>2, <3>2, FinishType DEF Aggregate
  <2>3. CASE Select(r)
    <3>1. Found(r) => [is |-> "link", link |-> Link(asked[r].id)] \in Answers
      BY LinkFacts, AnswerFacts DEF Found, OwnedBy
    <3>2. [is |-> "not found"] \in Answers
      BY AnswerFacts
    <3>3. UNCHANGED answer \/ \E what \in Answers : Finish(r, what)
      BY <2>3, <3>1, <3>2 DEF Select
    <3> QED BY <2>1, <3>3, FinishType
  <2>4. CASE WriteNothing(r) \/ Fail(r)
    BY <2>1, <2>4, FinishType, AnswerFacts DEF WriteNothing, Fail
  <2> QED BY <1>4, <2>2, <2>3, <2>4
<1>5. ASSUME NEW r \in Requests, NEW c \in Codes, NEW i \in Ids, NEW heard \in BOOLEAN,
             Insert(r, c, i, heard)
      PROVE  TypeOK'
  <2>1. asked[r] \in Inputs
    BY <1>5 DEF Insert, RequestsOnTheirWay
  <2>2. [owner |-> asked[r].user, code |-> c, content |-> r, clicked |-> FALSE] \in Rows
    BY <2>1, AskFacts DEF Rows
  <2>3. rows' \in [Ids -> Rows \cup {None, Gone}]
    BY <1>5, <2>2 DEF Insert
  <2>4. spoiled' \subseteq Requests
    BY <1>5 DEF Insert, Listings
  <2>5. answer' \in [Requests -> Answers \cup {None}]
    <3>1. [id |-> i, code |-> c, content |-> r, clicked |-> FALSE]
            \in [id: Ids, code: Codes, content: Requests \cup {None}, clicked: BOOLEAN]
      OBVIOUS
    <3>2. \E what \in Answers : Finish(r, what)
      BY <1>5, <3>1, AnswerFacts DEF Insert
    <3> QED BY <3>2, FinishType
  <2> QED BY <1>5, <2>3, <2>4, <2>5 DEF Insert
<1>6. ASSUME NEW r \in Requests, NEW heard \in BOOLEAN, Update(r, heard)
      PROVE  TypeOK'
  <2>1. asked[r].id \in Ids /\ rows[asked[r].id] \in Rows
    BY <1>6, PresentFacts DEF Update, Found, OwnedBy
  <2>2. [rows[asked[r].id] EXCEPT !.content = r] \in Rows
    BY <2>1 DEF Rows
  <2>3. rows' \in [Ids -> Rows \cup {None, Gone}]
    BY <1>6, <2>1, <2>2 DEF Update
  <2>4. [Link(asked[r].id) EXCEPT !.content = r]
          \in [id: Ids, code: Codes, content: Requests \cup {None}, clicked: BOOLEAN]
    BY <1>6, LinkFacts DEF Update, Found, OwnedBy
  <2>5. answer' \in [Requests -> Answers \cup {None}]
    <3>1. \E what \in Answers : Finish(r, what)
      BY <1>6, <2>4, AnswerFacts DEF Update
    <3> QED BY <3>1, FinishType
  <2> QED BY <1>6, <2>3, <2>5 DEF Update
<1>7. ASSUME NEW r \in Requests, NEW heard \in BOOLEAN, Delete(r, heard)
      PROVE  TypeOK'
  <2>1. \E what \in Answers : Finish(r, what)
    BY <1>7, AnswerFacts DEF Delete
  <2>2. answer' \in [Requests -> Answers \cup {None}]
    BY <2>1, FinishType
  <2>3. spoiled' \subseteq Requests
    BY <1>7 DEF Delete, Listings
  <2> QED BY <1>7, <2>2, <2>3 DEF Delete
<1>8. ASSUME NEW i \in Ids, Click(i)
      PROVE  TypeOK'
  <2>1. [rows[i] EXCEPT !.clicked = TRUE] \in Rows
    BY <1>8, PresentFacts DEF Click, Rows
  <2> QED BY <1>8, <2>1 DEF Click
<1>9. ASSUME NEW r \in Requests, ReadPage(r) \/ CountRows(r)
      PROVE  TypeOK'
  <2>1. scan' \in [Requests -> Scans \cup {None}]
    BY <1>9, PageTypes
  <2> QED BY <1>9, <2>1 DEF ReadPage, CountRows
<1>10. ASSUME NEW r \in Requests, Show(r)
       PROVE  TypeOK'
  <2>1. scan' \in [Requests -> Scans \cup {None}]
    BY <1>10, PageTypes
  <2>2. answer' \in [Requests -> Answers \cup {None}]
    <3>1. UNCHANGED answer \/ Finish(r, [is |-> "listed"])
      BY <1>10 DEF Show
    <3> QED BY <3>1, FinishType, AnswerFacts
  <2> QED BY <1>10, <2>1, <2>2 DEF Show
<1>11. CASE UNCHANGED vars
  BY <1>11 DEF vars
<1> QED
  BY <1>1, <1>2, <1>3, <1>4, <1>5, <1>6, <1>7, <1>8, <1>9, <1>10, <1>11 DEF Next

\* No two rows have one code, and none has a reserved one: the INSERT fails on
\* a code that is taken, and an alias was looked at when it came in.
LEMMA CodesStep ==
  ASSUME TypeOK, CodesOfRows, RequestsOnTheirWay, [Next]_vars
  PROVE  CodesOfRows'
<1>1. ASSUME NEW r \in Requests, NEW c \in Codes, NEW i \in Ids, NEW heard \in BOOLEAN,
             Insert(r, c, i, heard)
      PROVE  CodesOfRows'
  <2>1. asked[r] \in Inputs /\ asked[r].user \in Users
    BY <1>1, AskFacts DEF Insert, RequestsOnTheirWay
  <2>2. ~isReservedShortCode(c)
    <3>1. CASE asked[r].alias = None
      BY <1>1, <3>1, CodesAssumption DEF Insert, Wanted, isReservedShortCode
    <3>2. CASE asked[r].alias # None
      BY <1>1, <3>2 DEF Insert, Wanted, RequestsOnTheirWay
    <3> QED BY <3>1, <3>2
  <2>3. [owner |-> asked[r].user, code |-> c, content |-> r, clicked |-> FALSE] \in Rows
    BY <2>1 DEF Rows
  <2>4. Present' = Present \cup {i} /\ i \notin Present
    <3>1. \A x \in Rows : x # None /\ x # Gone
      BY CodesAssumption
    <3>2. rows[i] = None /\ rows'[i] \in Rows /\ \A j \in Ids \ {i} : rows'[j] = rows[j]
      BY <1>1, <2>3 DEF Insert, Fresh, TypeOK
    <3> QED BY <3>1, <3>2 DEF Present
  <2>5. rows'[i].code = c /\ \A j \in Present : rows'[j] = rows[j] /\ rows[j].code # c
    BY <1>1, <2>4 DEF Insert, Taken, TypeOK, Present
  <2> QED BY <2>2, <2>4, <2>5 DEF CodesOfRows, isReservedShortCode
<1>2. ASSUME Present' \subseteq Present,
             \A j \in Present' : rows'[j].code = rows[j].code
      PROVE  CodesOfRows'
  BY <1>2 DEF CodesOfRows, isReservedShortCode
<1>3. ASSUME NEW i \in Present,
             \A j \in Ids : j # i => rows'[j] = rows[j],
             rows'[i].code = rows[i].code \/ rows'[i] = Gone
      PROVE  CodesOfRows'
  <2>1. Present' \subseteq Present
    BY <1>3 DEF Present
  <2>2. \A j \in Present' : rows'[j].code = rows[j].code
    BY <1>3 DEF Present
  <2> QED BY <1>2, <2>1, <2>2
<1>4. ASSUME NEW r \in Requests, NEW heard \in BOOLEAN, Update(r, heard)
      PROVE  CodesOfRows'
  <2>1. asked[r].id \in Present /\ rows[asked[r].id] \in Rows
    BY <1>4, PresentFacts DEF Update, Found, OwnedBy
  <2> QED BY <1>3, <1>4, <2>1 DEF Update, TypeOK, Present, Rows
<1>5. ASSUME NEW r \in Requests, NEW heard \in BOOLEAN, Delete(r, heard)
      PROVE  CodesOfRows'
  <2>1. asked[r].id \in Present
    BY <1>5 DEF Delete, Found, OwnedBy
  <2> QED BY <1>3, <1>5, <2>1 DEF Delete, TypeOK, Present
<1>6. ASSUME NEW i \in Ids, Click(i)
      PROVE  CodesOfRows'
  <2>1. i \in Present /\ rows[i] \in Rows
    BY <1>6, PresentFacts DEF Click
  <2> QED BY <1>3, <1>6, <2>1 DEF Click, TypeOK, Rows
<1>7. ASSUME UNCHANGED rows
      PROVE  CodesOfRows'
  BY <1>7 DEF CodesOfRows, Present, isReservedShortCode
<1> QED
  BY <1>1, <1>4, <1>5, <1>6, <1>7
  DEF Next, vars, Ask, Check, Collide, Select, Aggregate, WriteNothing, Fail, ReadPage,
      CountRows, Show

\* A request goes through the statements of its kind, and its answer is its end.
LEMMA RequestsStep ==
  ASSUME TypeOK, RequestsOnTheirWay, [Next]_vars
  PROVE  RequestsOnTheirWay'
<1> DEFINE Way(r) ==
      /\ pc[r] = "new" => asked[r] = None
      /\ pc[r] # "new" => asked[r] \in Inputs /\ asked[r].kind \in Kinds(pc[r])
      /\ pc[r] # "done" => answer[r] = None
      /\ pc[r] = "check" => asked[r].alias # None
      /\ pc[r] \in {"check", "insert"} /\ asked[r].alias # None
           => ~isReservedShortCode(asked[r].alias)
      /\ pc[r] \in {"new", "check", "insert"} => attempts[r] < MaxAttempts
      /\ pc[r] = "list" => scan[r] # None
      /\ answer[r] = [is |-> "listed"] => scan[r] # None
<1> USE DEF isReservedShortCode
<1>1. ASSUME NEW r \in Requests,
             Way(r)', \A q \in Requests \ {r} :
               /\ pc'[q] = pc[q] /\ asked'[q] = asked[q] /\ answer'[q] = answer[q]
               /\ attempts'[q] = attempts[q] /\ scan'[q] = scan[q]
      PROVE  RequestsOnTheirWay'
  BY <1>1 DEF RequestsOnTheirWay, Kinds
<1>2. \A r \in Requests : Way(r)
  BY DEF RequestsOnTheirWay
<1>4. ASSUME NEW r \in Requests, NEW a \in Inputs, Ask(r, a)
      PROVE  RequestsOnTheirWay'
  <2>1. asked'[r] = a /\ attempts' = attempts /\ answer[r] = None
    BY <1>2, <1>4 DEF Ask, TypeOK
  <2>2. \A q \in Requests \ {r} :
          /\ pc'[q] = pc[q] /\ asked'[q] = asked[q] /\ answer'[q] = answer[q]
          /\ attempts'[q] = attempts[q] /\ scan'[q] = scan[q]
    BY <1>4 DEF Ask, Finish, GoOn, TypeOK
  <2>3. CASE Finish(r, [is |-> "invalid"])
    <3>1. pc'[r] = "done" /\ answer'[r] = [is |-> "invalid"]
      BY <2>3 DEF Finish, TypeOK
    <3>2. answer'[r] # [is |-> "listed"]
      BY <3>1
    <3>3. Way(r)'
      BY <2>1, <3>1, <3>2, AskFacts DEF Kinds
    <3> QED BY <1>1, <2>2, <3>3
  <2>4. CASE ~(a.kind = "create" /\ a.alias # None /\ isReservedShortCode(a.alias))
    <3>1. pc'[r] = FirstStatement(a) /\ answer'[r] = None
      BY <1>4, <2>1, <2>4 DEF Ask, GoOn, TypeOK
    <3>2. /\ FirstStatement(a) \in {"check", "insert", "select", "write", "list"}
          /\ a.kind \in Kinds(FirstStatement(a))
          /\ FirstStatement(a) = "check" => a.alias # None
          /\ FirstStatement(a) = "insert" => a.alias = None
          /\ FirstStatement(a) = "check" => ~isReservedShortCode(a.alias)
          /\ FirstStatement(a) = "list" <=> a.kind = "list"
      BY <2>4, AskFacts DEF FirstStatement, Kinds
    <3>3. attempts[r] < MaxAttempts
      BY <1>2, <1>4 DEF Ask
    <3>4. a.kind = "list" => scan'[r] # None
      BY <1>4, CodesAssumption DEF Ask, TypeOK, FirstPage, Scans, OwnedBy, Present
    <3>5. answer'[r] # [is |-> "listed"]
      BY <3>1, AnswerFacts, CodesAssumption
    <3>6. Way(r)'
      BY <2>1, <3>1, <3>2, <3>3, <3>4, <3>5
    <3> QED BY <1>1, <2>2, <3>6
  <2> QED BY <1>4, <2>3, <2>4 DEF Ask
<1>5. ASSUME NEW r \in Requests, Check(r)
      PROVE  RequestsOnTheirWay'
  <2>1. CASE Finish(r, [is |-> "conflict"])
    <3>1. /\ pc'[r] = "done" /\ UNCHANGED <<asked, attempts, scan>>
          /\ answer'[r] # [is |-> "listed"]
      BY <1>5, <2>1 DEF Check, Finish, TypeOK
    <3>2. Way(r)'
      BY <1>2, <1>5, <3>1 DEF Check, Kinds
    <3> QED BY <1>1, <2>1, <3>1, <3>2 DEF Finish, TypeOK
  <2>2. CASE GoOn(r, "insert")
    <3>1. pc'[r] = "insert" /\ answer'[r] = None /\ UNCHANGED <<asked, attempts, scan>>
      BY <1>2, <1>5, <2>2 DEF Check, GoOn, TypeOK
    <3>2. Way(r)'
      BY <1>2, <1>5, <3>1, AnswerFacts, CodesAssumption DEF Check, Kinds
    <3> QED BY <1>1, <2>2, <3>1, <3>2 DEF GoOn, TypeOK
  <2> QED BY <1>5, <2>1, <2>2 DEF Check
<1>6. ASSUME NEW r \in Requests, Collide(r)
      PROVE  RequestsOnTheirWay'
  <2>1. CASE Finish(r, [is |-> "conflict"]) \/ Finish(r, [is |-> "exhausted"])
    <3>1. /\ pc'[r] = "done" /\ UNCHANGED <<asked, scan>>
          /\ answer'[r] # [is |-> "listed"]
      BY <1>6, <2>1 DEF Collide, Finish, TypeOK
    <3>2. Way(r)'
      BY <1>2, <1>6, <3>1 DEF Collide, Kinds
    <3> QED BY <1>1, <1>6, <2>1, <3>1, <3>2 DEF Collide, Finish, TypeOK
  <2>2. CASE GoOn(r, "insert") /\ attempts[r] + 1 # MaxAttempts
                               /\ attempts' = [attempts EXCEPT ![r] = @ + 1]
    <3>1. pc'[r] = "insert" /\ answer'[r] = None /\ UNCHANGED <<asked, scan>>
      BY <1>2, <1>6, <2>2 DEF Collide, GoOn, TypeOK
    <3>2. attempts'[r] < MaxAttempts
      BY <1>2, <1>6, <2>2, SizesAssumption DEF Collide, TypeOK
    <3>3. Way(r)'
      BY <1>2, <1>6, <3>1, <3>2 DEF Collide, Kinds
    <3> QED BY <1>1, <2>2, <3>1, <3>3 DEF GoOn, TypeOK
  <2> QED BY <1>6, <2>1, <2>2 DEF Collide
<1>7. ASSUME NEW r \in Requests, Select(r)
      PROVE  RequestsOnTheirWay'
  <2>1. CASE Finish(r, [is |-> "not found"])
             \/ Finish(r, [is |-> "link", link |-> Link(asked[r].id)])
    <3>1. /\ pc'[r] = "done" /\ UNCHANGED <<asked, attempts, scan>>
          /\ answer'[r] # [is |-> "listed"]
      <4>1. pc'[r] = "done" /\ UNCHANGED <<asked, attempts, scan>>
        BY <1>7, <2>1 DEF Select, Finish, TypeOK
      <4>2. CASE Finish(r, [is |-> "not found"])
        <5>1. answer'[r] = [is |-> "not found"]
          BY <4>2 DEF Finish, TypeOK
        <5> QED BY <4>1, <5>1, ListedIsBare
      <4>3. CASE Finish(r, [is |-> "link", link |-> Link(asked[r].id)])
        <5>1. answer'[r] = [is |-> "link", link |-> Link(asked[r].id)]
          BY <4>3 DEF Finish, TypeOK
        <5> QED BY <4>1, <5>1, ListedIsBare
      <4> QED BY <2>1, <4>1, <4>2, <4>3
    <3>2. Way(r)'
      BY <1>2, <1>7, <3>1 DEF Select, Kinds
    <3> QED BY <1>1, <2>1, <3>1, <3>2 DEF Finish, TypeOK
  <2>2. CASE asked[r].kind # "get" /\ GoOn(r, "aggregate")
    <3>1. pc'[r] = "aggregate" /\ answer'[r] = None /\ UNCHANGED <<asked, attempts, scan>>
      BY <1>2, <1>7, <2>2 DEF Select, GoOn, TypeOK
    <3>2. Way(r)'
      BY <1>2, <1>7, <2>2, <3>1 DEF Select, Kinds
    <3> QED BY <1>1, <2>2, <3>1, <3>2 DEF GoOn, TypeOK
  <2> QED BY <1>7, <2>1, <2>2 DEF Select
<1>8. ASSUME NEW r \in Requests, NEW what, Finish(r, what), what # [is |-> "listed"],
             pc[r] # "new", UNCHANGED <<asked, attempts, scan>>
      PROVE  RequestsOnTheirWay'
  <2>1. pc'[r] = "done" /\ answer'[r] = what
    BY <1>8 DEF Finish, TypeOK
  <2>2. Way(r)'
    BY <1>2, <1>8, <2>1 DEF Kinds
  <2> QED BY <1>1, <1>8, <2>2 DEF Finish, TypeOK
<1>9. ASSUME NEW r \in Requests, Aggregate(r) \/ WriteNothing(r) \/ Fail(r)
      PROVE  RequestsOnTheirWay'
  BY <1>8, <1>9, ListedIsBare DEF Aggregate, WriteNothing, Fail
<1>10. ASSUME NEW r \in Requests, NEW c \in Codes, NEW i \in Ids, NEW heard \in BOOLEAN,
              Insert(r, c, i, heard)
       PROVE  RequestsOnTheirWay'
  BY <1>8, <1>10, ListedIsBare DEF Insert
<1>11. ASSUME NEW r \in Requests, NEW heard \in BOOLEAN, Update(r, heard)
       PROVE  RequestsOnTheirWay'
  BY <1>8, <1>11, ListedIsBare DEF Update
<1>12. ASSUME NEW r \in Requests, NEW heard \in BOOLEAN, Delete(r, heard)
       PROVE  RequestsOnTheirWay'
  BY <1>8, <1>12, ListedIsBare DEF Delete
<1>13. ASSUME NEW i \in Ids, Click(i)
       PROVE  RequestsOnTheirWay'
  BY <1>13 DEF Click, RequestsOnTheirWay
<1>14. ASSUME NEW r \in Requests, ReadPage(r) \/ CountRows(r)
       PROVE  RequestsOnTheirWay'
  <2>1. scan'[r] # None
    BY <1>14, PageTypes, ScanIsNoNone
  <2>2. UNCHANGED <<asked, pc, attempts, answer>> /\ scan'[r] # None
        /\ \A q \in Requests \ {r} : scan'[q] = scan[q]
    BY <1>14, <2>1 DEF ReadPage, CountRows, TypeOK
  <2>3. Way(r)'
    BY <1>2, <2>2 DEF Kinds
  <2> QED BY <1>1, <2>2, <2>3
<1>15. ASSUME NEW r \in Requests, Show(r)
       PROVE  RequestsOnTheirWay'
  <2>1. UNCHANGED <<asked, attempts>> /\ scan'[r] # None
        /\ \A q \in Requests \ {r} : scan'[q] = scan[q]
    <3>1. scan'[r] # None
      BY <1>15, PageTypes, ScanIsNoNone
    <3> QED BY <1>15, <3>1 DEF Show, TypeOK
  <2>2. \/ pc'[r] = "done" /\ answer'[r] = [is |-> "listed"]
        \/ pc'[r] = "list" /\ answer'[r] = None
    BY <1>2, <1>15 DEF Show, Finish, GoOn, TypeOK
  <2>3. Way(r)'
    BY <1>2, <1>15, <2>1, <2>2 DEF Show, Kinds
  <2> QED BY <1>1, <1>15, <2>1, <2>3 DEF Show, Finish, GoOn, TypeOK
<1>16. CASE UNCHANGED vars
  BY <1>16 DEF vars, RequestsOnTheirWay
<1> QED
  BY <1>4, <1>5, <1>6, <1>7, <1>9, <1>10, <1>11, <1>12, <1>13, <1>14, <1>15, <1>16 DEF Next

(***************************************************************************)
(* Listings                                                                *)
(***************************************************************************)

\* A row has fewer rows before it than there are, and a newer one fewer still.
LEMMA RankFacts ==
  ASSUME NEW u, NEW i \in OwnedBy(u)
  PROVE  /\ Rank(u, i) \in Nat
         /\ Rank(u, i) < Cardinality(OwnedBy(u))
         /\ \A j \in OwnedBy(u) : j > i => Rank(u, j) < Rank(u, i)
<1> DEFINE Before(k) == {j \in OwnedBy(u) : j > k}
<1>1. OwnedBy(u) \subseteq Nat
  BY SizesAssumption DEF OwnedBy, Present
<1>2. \A k : IsFiniteSet(Before(k)) /\ Cardinality(Before(k)) \in Nat
  BY OwnedIsFinite, FS_Subset, FS_CardinalityType
<1>3. Cardinality(Before(i)) < Cardinality(OwnedBy(u))
  <2>1. Before(i) \subseteq OwnedBy(u) /\ i \notin Before(i)
    BY <1>1
  <2>2. /\ Cardinality(Before(i)) <= Cardinality(OwnedBy(u))
        /\ Cardinality(OwnedBy(u)) = Cardinality(Before(i)) => OwnedBy(u) = Before(i)
    BY <2>1, OwnedIsFinite, FS_Subset
  <2>3. Cardinality(Before(i)) \in Nat /\ Cardinality(OwnedBy(u)) \in Nat
    BY <1>2, OwnedIsFinite
  <2>4. OwnedBy(u) # Before(i)
    BY <2>1
  <2> QED BY <2>2, <2>3, <2>4
<1>4. ASSUME NEW j \in OwnedBy(u), j > i
      PROVE  Cardinality(Before(j)) < Cardinality(Before(i))
  <2>1. Before(j) \subseteq Before(i) /\ j \in Before(i) /\ j \notin Before(j)
    BY <1>1, <1>4
  <2>2. /\ Cardinality(Before(j)) <= Cardinality(Before(i))
        /\ Cardinality(Before(i)) = Cardinality(Before(j)) => Before(i) = Before(j)
    BY <1>2, <2>1, FS_Subset
  <2>3. Cardinality(Before(i)) \in Nat /\ Cardinality(Before(j)) \in Nat
    BY <1>2
  <2>4. Before(i) # Before(j)
    BY <2>1
  <2> QED BY <2>2, <2>3, <2>4
<1> QED BY <1>2, <1>3, <1>4 DEF Rank

\* LIMIT: the ranks of the rows of a page are distinct, and PageSize many.
LEMMA PageIsLimited ==
  ASSUME NEW u, NEW offset \in Nat
  PROVE  Cardinality(Page(u, offset)) \in Nat /\ Cardinality(Page(u, offset)) <= PageSize
<1> DEFINE page == Page(u, offset)
           ranks == offset..offset + PageSize - 1
           f == [i \in page |-> Rank(u, i)]
<1>1. PageSize \in Nat \ {0}
  BY SizesAssumption
<1>2. page \subseteq OwnedBy(u) /\ OwnedBy(u) \subseteq Nat
  BY SizesAssumption DEF Page, OwnedBy, Present
<1>3. f \in [page -> ranks]
  <2>1. ASSUME NEW i \in page PROVE Rank(u, i) \in ranks
    BY <1>1, RankFacts DEF Page
  <2> QED BY <2>1
<1>4. ASSUME NEW i \in page, NEW j \in page, f[i] = f[j]
      PROVE  i = j
  <2>1. Rank(u, i) = Rank(u, j) /\ i \in OwnedBy(u) /\ j \in OwnedBy(u)
    BY <1>2, <1>4
  <2>2. ~(i > j) /\ ~(j > i)
    BY <2>1, RankFacts
  <2> QED BY <1>2, <2>1, <2>2
<1>5. f \in Injection(page, ranks)
  BY <1>3, <1>4 DEF Injection, IsInjective
<1>6. IsFiniteSet(ranks) /\ Cardinality(ranks) = PageSize
  BY <1>1, FS_Interval
<1>7. IsFiniteSet(page) /\ Cardinality(page) <= PageSize
  BY <1>5, <1>6, FS_Injection
<1> QED BY <1>7, FS_CardinalityType

\* Where no row goes, rows only move down.
LEMMA RanksGrow ==
  ASSUME NEW u, OwnedBy(u) \subseteq OwnedBy(u)'
  PROVE  /\ Cardinality(OwnedBy(u))' \in Nat
         /\ Cardinality(OwnedBy(u)) <= Cardinality(OwnedBy(u))'
         /\ \A i : Rank(u, i) \in Nat /\ Rank(u, i)' \in Nat /\ Rank(u, i) <= Rank(u, i)'
<1>1. OwnedBy(u)' \subseteq Ids
  BY DEF OwnedBy, Present
<1>2. IsFiniteSet(OwnedBy(u)')
  BY <1>1, SizesAssumption, FS_Subset
<1>3. ASSUME NEW i
      PROVE  Rank(u, i) \in Nat /\ Rank(u, i)' \in Nat /\ Rank(u, i) <= Rank(u, i)'
  <2> DEFINE now == {j \in OwnedBy(u) : j > i}
             next == {j \in OwnedBy(u)' : j > i}
  <2>1. IsFiniteSet(next) /\ now \subseteq next
    BY <1>2, FS_Subset
  <2>2. IsFiniteSet(now) /\ Cardinality(now) <= Cardinality(next)
    BY <2>1, FS_Subset
  <2>3. Cardinality(now) \in Nat /\ Cardinality(next) \in Nat
    BY <2>1, <2>2, FS_CardinalityType
  <2> QED BY <2>2, <2>3 DEF Rank
<1> QED BY <1>2, <1>3, FS_Subset, FS_CardinalityType

\* What a listing has shown stays enough when rows are added, unless one is
\* added between a count and its page.
LEMMA ShownStays ==
  ASSUME TypeOK, RequestsOnTheirWay, NEW r \in Requests, pc[r] = "list", ShownSoFar(r),
         NEW u, asked[r].user = u, asked'[r].user = u,
         NEW s, scan[r] = s, scan'[r] = s,
         OwnedBy(u) \subseteq OwnedBy(u)',
         OwnedBy(u)' = OwnedBy(u) \/ s.total = None \/ s.page # None
  PROVE  ShownSoFar(r)'
<1> DEFINE read == s.offset + Cardinality(s.page)
<1>1. s \in Scans
  BY DEF TypeOK, RequestsOnTheirWay
<1>2. OwnedBy(u) \subseteq OwnedBy(u)'
  OBVIOUS
<1>3. /\ Cardinality(OwnedBy(u))' \in Nat /\ Cardinality(OwnedBy(u)) \in Nat
      /\ Cardinality(OwnedBy(u)) <= Cardinality(OwnedBy(u))'
      /\ \A i : Rank(u, i) \in Nat /\ Rank(u, i)' \in Nat /\ Rank(u, i) <= Rank(u, i)'
  BY <1>2, RanksGrow, OwnedIsFinite
<1>4. s.offset \in Nat /\ PageSize \in Nat /\ s.start \subseteq OwnedBy(u)
  BY <1>1, SizesAssumption DEF Scans, ShownSoFar
<1>5. s.page # None => read \in Nat
  <2> SUFFICES ASSUME s.page # None PROVE read \in Nat
    OBVIOUS
  <2>1. IsFiniteSet(Ids) /\ s.page \in SUBSET Ids
    BY <1>1, SizesAssumption DEF Scans
  <2>2. IsFiniteSet(s.page)
    BY <2>1, FS_Subset
  <2>3. Cardinality(s.page) \in Nat
    BY <2>2, FS_CardinalityType
  <2> QED BY <1>4, <2>3
<1>6. CASE s.page = None
  <2>1. s.total # None => Cardinality(OwnedBy(u))' = Cardinality(OwnedBy(u))
    BY <1>6
  <2>2. \A i \in s.start : Rank(u, i)' < s.offset => i \in s.shown
    BY <1>3, <1>4, <1>6 DEF ShownSoFar
  <2>3. s.total # None => s.total = Cardinality(OwnedBy(u))'
    BY <1>6, <2>1 DEF ShownSoFar
  <2> QED BY <1>2, <1>4, <1>6, <2>2, <2>3 DEF ShownSoFar
<1>7. CASE s.page # None
  <2>1. \A i \in s.start : Rank(u, i)' < s.offset + PageSize => i \in s.shown \cup s.page
    BY <1>3, <1>4, <1>7 DEF ShownSoFar
  <2>2. \/ s.start \subseteq s.shown \cup s.page
        \/ read < Cardinality(OwnedBy(u)) /\ (s.total # None => read < s.total)
    BY <1>7 DEF ShownSoFar
  <2>3. read < Cardinality(OwnedBy(u)) => read < Cardinality(OwnedBy(u))'
    BY <1>3, <1>5, <1>7
  <2> QED BY <1>2, <1>4, <1>7, <2>1, <2>2, <2>3 DEF ShownSoFar
<1> QED BY <1>6, <1>7

\* The rows a user has, after a step that changes rows.
LEMMA OwnedSteps ==
  ASSUME TypeOK, RequestsOnTheirWay
  PROVE  /\ \A r \in Requests, c \in Codes, i \in Ids, heard \in BOOLEAN, u \in Users :
              Insert(r, c, i, heard) =>
                /\ OwnedBy(u) \subseteq OwnedBy(u)'
                /\ u # asked[r].user => OwnedBy(u)' = OwnedBy(u)
         /\ \A r \in Requests, heard \in BOOLEAN, u \in Users :
              Delete(r, heard) /\ u # asked[r].user => OwnedBy(u)' = OwnedBy(u)
         /\ \A r \in Requests, heard \in BOOLEAN, u \in Users :
              Update(r, heard) => OwnedBy(u)' = OwnedBy(u)
         /\ \A i \in Ids, u \in Users : Click(i) => OwnedBy(u)' = OwnedBy(u)
<1>0. \A x \in Rows : x # None /\ x # Gone
  BY CodesAssumption
<1>1. ASSUME NEW r \in Requests, NEW c \in Codes, NEW i \in Ids, NEW heard \in BOOLEAN,
             NEW u \in Users, Insert(r, c, i, heard)
      PROVE  /\ OwnedBy(u) \subseteq OwnedBy(u)'
             /\ u # asked[r].user => OwnedBy(u)' = OwnedBy(u)
  <2>1. rows[i] = None /\ (\A j \in Ids \ {i} : rows'[j] = rows[j])
        /\ rows'[i].owner = asked[r].user
    BY <1>1 DEF Insert, Fresh, TypeOK
  <2> QED BY <2>1 DEF OwnedBy, Present
<1>2. ASSUME NEW i \in Ids, NEW u, i \in Present, rows'[i] \in Rows,
             rows'[i].owner = rows[i].owner, \A j \in Ids \ {i} : rows'[j] = rows[j]
      PROVE  OwnedBy(u)' = OwnedBy(u)
  BY <1>0, <1>2 DEF OwnedBy, Present
<1>3. ASSUME NEW r \in Requests, NEW heard \in BOOLEAN, NEW u \in Users, Delete(r, heard),
             u # asked[r].user
      PROVE  OwnedBy(u)' = OwnedBy(u)
  <2>1. rows[asked[r].id].owner = asked[r].user /\ asked[r].id \in Ids
    BY <1>3 DEF Delete, Found, OwnedBy, Present
  <2>2. rows'[asked[r].id] = Gone /\ \A j \in Ids \ {asked[r].id} : rows'[j] = rows[j]
    BY <1>3, <2>1 DEF Delete, TypeOK
  <2> QED BY <1>3, <2>1, <2>2 DEF OwnedBy, Present
<1>4. ASSUME NEW r \in Requests, NEW heard \in BOOLEAN, NEW u \in Users, Update(r, heard)
      PROVE  OwnedBy(u)' = OwnedBy(u)
  <2>1. asked[r].id \in Present /\ asked[r].id \in Ids /\ rows[asked[r].id] \in Rows
    BY <1>4, PresentFacts DEF Update, Found, OwnedBy
  <2>2. rows'[asked[r].id] = [rows[asked[r].id] EXCEPT !.content = r]
        /\ \A j \in Ids \ {asked[r].id} : rows'[j] = rows[j]
    BY <1>4, <2>1 DEF Update, TypeOK
  <2>3. rows'[asked[r].id] \in Rows /\ rows'[asked[r].id].owner = rows[asked[r].id].owner
    BY <2>1, <2>2 DEF Rows
  <2> QED BY <1>2, <2>1, <2>2, <2>3
<1>5. ASSUME NEW i \in Ids, NEW u \in Users, Click(i)
      PROVE  OwnedBy(u)' = OwnedBy(u)
  <2>1. i \in Present /\ rows[i] \in Rows
    BY <1>5, PresentFacts DEF Click
  <2>2. rows'[i] = [rows[i] EXCEPT !.clicked = TRUE] /\ \A j \in Ids \ {i} : rows'[j] = rows[j]
    BY <1>5 DEF Click, TypeOK
  <2>3. rows'[i] \in Rows /\ rows'[i].owner = rows[i].owner
    BY <2>1, <2>2 DEF Rows
  <2> QED BY <1>2, <2>1, <2>2, <2>3
<1> QED BY <1>1, <1>3, <1>4, <1>5

\* Every step keeps what is known of listings under way and of their ends.
LEMMA ListingsStep ==
  ASSUME TypeOK, RequestsOnTheirWay, ScanSoFar, ScanComplete, [Next]_vars
  PROVE  ScanSoFar' /\ ScanComplete'
<1> DEFINE Fine(q) ==
      q \notin spoiled =>
        /\ pc[q] = "list" => ShownSoFar(q)
        /\ answer[q] = [is |-> "listed"] => scan[q].start \subseteq scan[q].shown
<1>0. SUFFICES \A q \in Requests : Fine(q)'
  BY DEF ScanSoFar, ScanComplete
<1>1. \A q \in Requests : Fine(q)
  BY DEF ScanSoFar, ScanComplete
<1> DEFINE Apart(q) ==
      /\ pc'[q] = pc[q] /\ asked'[q] = asked[q] /\ answer'[q] = answer[q]
      /\ scan'[q] = scan[q]
<1>2. ASSUME NEW q \in Requests, Apart(q), spoiled \subseteq spoiled',
             NEW u, asked[q].user = u,
             q \notin spoiled' /\ pc[q] = "list" =>
               /\ OwnedBy(u) \subseteq OwnedBy(u)'
               /\ OwnedBy(u)' = OwnedBy(u) \/ scan[q].total = None \/ scan[q].page # None
      PROVE  Fine(q)'
  <2> SUFFICES ASSUME q \notin spoiled' PROVE Fine(q)'
    OBVIOUS
  <2>1. CASE pc[q] = "list"
    <3>1. ShownSoFar(q)
      BY <1>1, <1>2, <2>1
    <3>2. ShownSoFar(q)'
      BY <1>2, <2>1, <3>1, ShownStays
    <3> QED BY <1>1, <1>2, <3>2
  <2>2. CASE pc[q] # "list"
    BY <1>1, <1>2, <2>2
  <2> QED BY <2>1, <2>2
<1>3. ASSUME NEW q \in Requests, Apart(q), spoiled' = spoiled, UNCHANGED rows
      PROVE  Fine(q)'
  <2>1. \A u : OwnedBy(u)' = OwnedBy(u)
    BY <1>3 DEF OwnedBy, Present
  <2>2. PICK u : asked[q].user = u
    OBVIOUS
  <2> QED BY <1>2, <1>3, <2>1, <2>2
<1>4. ASSUME NEW r \in Requests, UNCHANGED <<rows, asked, scan, spoiled>>,
             NEW what, Finish(r, what), what # [is |-> "listed"]
      PROVE  \A q \in Requests : Fine(q)'
  <2>1. \A q \in Requests \ {r} : Apart(q)
    BY <1>4 DEF Finish, TypeOK
  <2>2. pc'[r] = "done" /\ answer'[r] = what
    BY <1>4 DEF Finish, TypeOK
  <2> QED BY <1>3, <1>4, <2>1, <2>2
<1>5. ASSUME NEW r \in Requests, UNCHANGED <<rows, asked, scan, spoiled>>,
             NEW statement, GoOn(r, statement), statement # "list", pc[r] # "done"
      PROVE  \A q \in Requests : Fine(q)'
  <2>1. \A q \in Requests \ {r} : Apart(q)
    BY <1>5 DEF GoOn, TypeOK
  <2>2. pc'[r] # "list" /\ answer'[r] = None
    BY <1>5 DEF GoOn, TypeOK, RequestsOnTheirWay
  <2>3. None # [is |-> "listed"]
    BY AnswerFacts, CodesAssumption
  <2> QED BY <1>3, <1>5, <2>1, <2>2, <2>3
<1>6. ASSUME NEW r \in Requests, NEW a \in Inputs, Ask(r, a)
      PROVE  \A q \in Requests : Fine(q)'
  <2>1. \A q \in Requests \ {r} : Apart(q)
    BY <1>6 DEF Ask, Finish, GoOn, TypeOK
  <2>2. \A q \in Requests \ {r} : Fine(q)'
    BY <1>3, <1>6, <2>1 DEF Ask
  <2>3. answer'[r] # [is |-> "listed"]
    <3>1. answer'[r] = None \/ answer'[r] = [is |-> "invalid"]
      BY <1>6 DEF Ask, Finish, GoOn, TypeOK, RequestsOnTheirWay
    <3> QED BY <3>1, ListedIsBare, AnswerFacts, CodesAssumption
  <2>4. CASE a.kind = "list"
    <3>1. scan'[r] = FirstPage(a.user) /\ asked'[r].user = a.user
      BY <1>6, <2>4 DEF Ask, TypeOK
    <3>2. OwnedBy(a.user)' = OwnedBy(a.user)
      BY <1>6 DEF Ask, OwnedBy, Present
    <3>3. FirstPage(a.user).start = OwnedBy(a.user) /\ FirstPage(a.user).page = None
          /\ FirstPage(a.user).total = None /\ FirstPage(a.user).offset = 0
      BY DEF FirstPage
    <3>4. \A i \in OwnedBy(a.user) : ~(Rank(a.user, i)' < 0)
      BY <3>2, RanksGrow
    <3>5. ShownSoFar(r)'
      BY <3>1, <3>2, <3>3, <3>4 DEF ShownSoFar
    <3> QED BY <2>2, <2>3, <3>5
  <2>5. CASE a.kind # "list"
    <3>1. pc'[r] # "list"
      BY <1>6, <2>5, AskFacts DEF Ask, FirstStatement, Finish, GoOn, TypeOK
    <3> QED BY <2>2, <2>3, <3>1
  <2> QED BY <2>4, <2>5
<1>7. ASSUME NEW r \in Requests, Check(r) \/ Collide(r) \/ Select(r)
      PROVE  \A q \in Requests : Fine(q)'
  <2>1. UNCHANGED <<rows, asked, scan, spoiled>> /\ pc[r] # "done"
    BY <1>7 DEF Check, Collide, Select
  <2>2. \/ \E what : Finish(r, what) /\ what # [is |-> "listed"]
        \/ GoOn(r, "insert") \/ GoOn(r, "aggregate")
    BY <1>7, ListedIsBare DEF Check, Collide, Select
  <2> QED BY <1>4, <1>5, <2>1, <2>2
<1>8. ASSUME NEW r \in Requests, Aggregate(r) \/ WriteNothing(r) \/ Fail(r)
      PROVE  \A q \in Requests : Fine(q)'
  BY <1>4, <1>8, ListedIsBare DEF Aggregate, WriteNothing, Fail
<1>9. ASSUME NEW r \in Requests, NEW what, Finish(r, what), what # [is |-> "listed"],
             pc[r] # "list", UNCHANGED <<asked, scan>>, spoiled \subseteq spoiled',
             \A q \in Requests, u \in Users :
               q \notin spoiled' /\ pc[q] = "list" /\ asked[q].user = u =>
                 /\ OwnedBy(u) \subseteq OwnedBy(u)'
                 /\ OwnedBy(u)' = OwnedBy(u) \/ scan[q].total = None \/ scan[q].page # None
      PROVE  \A q \in Requests : Fine(q)'
  <2>1. pc'[r] = "done" /\ answer'[r] = what
    BY <1>9 DEF Finish, TypeOK
  <2>2. ASSUME NEW q \in Requests \ {r} PROVE Fine(q)'
    <3>1. Apart(q)
      BY <1>9 DEF Finish, TypeOK
    <3>2. PICK u : asked[q].user = u
      OBVIOUS
    <3>3. pc[q] = "list" => u \in Users
      BY <3>2, AskFacts DEF RequestsOnTheirWay
    <3> QED BY <1>2, <1>9, <3>1, <3>2, <3>3
  <2> QED BY <1>9, <2>1, <2>2
<1>10. ASSUME NEW r \in Requests, NEW c \in Codes, NEW i \in Ids, NEW heard \in BOOLEAN,
              Insert(r, c, i, heard)
       PROVE  \A q \in Requests : Fine(q)'
  <2>1. \A q \in Requests, u \in Users :
          q \notin spoiled' /\ pc[q] = "list" /\ asked[q].user = u =>
            /\ OwnedBy(u) \subseteq OwnedBy(u)'
            /\ OwnedBy(u)' = OwnedBy(u) \/ scan[q].total = None \/ scan[q].page # None
    BY <1>10, OwnedSteps DEF Insert, Listings
  <2>2. PICK what : Finish(r, what) /\ what # [is |-> "listed"]
    BY <1>10, ListedIsBare DEF Insert
  <2> QED BY <1>9, <1>10, <2>1, <2>2 DEF Insert
<1>11. ASSUME NEW r \in Requests, NEW heard \in BOOLEAN, Delete(r, heard)
       PROVE  \A q \in Requests : Fine(q)'
  <2>1. \A q \in Requests, u \in Users :
          q \notin spoiled' /\ pc[q] = "list" /\ asked[q].user = u =>
            OwnedBy(u)' = OwnedBy(u)
    BY <1>11, OwnedSteps DEF Delete, Listings
  <2>2. PICK what : Finish(r, what) /\ what # [is |-> "listed"]
    BY <1>11, ListedIsBare DEF Delete
  <2> QED BY <1>9, <1>11, <2>1, <2>2 DEF Delete
<1>12. ASSUME NEW r \in Requests, NEW heard \in BOOLEAN, Update(r, heard)
       PROVE  \A q \in Requests : Fine(q)'
  <2>1. \A u \in Users : OwnedBy(u)' = OwnedBy(u)
    BY <1>12, OwnedSteps
  <2>2. PICK what : Finish(r, what) /\ what # [is |-> "listed"]
    BY <1>12, ListedIsBare DEF Update
  <2> QED BY <1>9, <1>12, <2>1, <2>2 DEF Update
<1>13. ASSUME NEW i \in Ids, Click(i)
       PROVE  \A q \in Requests : Fine(q)'
  <2>1. \A u \in Users : OwnedBy(u)' = OwnedBy(u)
    BY <1>13, OwnedSteps
  <2>2. ASSUME NEW q \in Requests PROVE Fine(q)'
    <3>1. PICK u : asked[q].user = u
      OBVIOUS
    <3>2. pc[q] = "list" => u \in Users
      BY <3>1, AskFacts DEF RequestsOnTheirWay
    <3> QED BY <1>2, <1>13, <2>1, <3>1, <3>2 DEF Click
  <2> QED BY <2>2
<1>14. ASSUME NEW r \in Requests, ReadPage(r)
       PROVE  \A q \in Requests : Fine(q)'
  <2>1. \A q \in Requests \ {r} : Fine(q)'
    BY <1>3, <1>14 DEF ReadPage, TypeOK
  <2>2. PICK u : asked[r].user = u /\ asked'[r].user = u
    BY <1>14 DEF ReadPage
  <2>3. PICK s : scan[r] = s
    OBVIOUS
  <2> DEFINE page == Page(u, s.offset)
  <2>4. s \in Scans /\ s.page = None /\ s.offset \in Nat /\ PageSize \in Nat
    BY <1>14, <2>3, PageTypes, SizesAssumption DEF ReadPage, Scans
  <2>5. scan'[r] = [s EXCEPT !.page = page] /\ UNCHANGED <<rows, pc, answer, spoiled>>
    BY <1>14, <2>2, <2>3 DEF ReadPage, TypeOK
  <2>6. /\ scan'[r].page = page /\ scan'[r].offset = s.offset /\ scan'[r].total = s.total
        /\ scan'[r].shown = s.shown /\ scan'[r].start = s.start
    BY <2>4, <2>5 DEF Scans
  <2>7. answer'[r] = None /\ None # [is |-> "listed"] /\ page # None
    <3>1. page \in SUBSET Ids
      BY DEF Page, OwnedBy, Present
    <3>2. [s EXCEPT !.page = page] \in Scans
      BY <2>4, <3>1 DEF Scans
    <3> QED BY <1>14, <2>5, <3>1, AnswerFacts, PagesAreNotNone, CodesAssumption
            DEF ReadPage, RequestsOnTheirWay
  <2>8. ASSUME r \notin spoiled PROVE ShownSoFar(r)'
    <3>1. /\ s.start \subseteq OwnedBy(u)
          /\ \A i \in s.start : Rank(u, i) < s.offset => i \in s.shown
          /\ s.total # None => s.total = Cardinality(OwnedBy(u))
      BY <1>1, <1>14, <2>2, <2>3, <2>4, <2>8 DEF ReadPage, ShownSoFar
    <3>2. OwnedBy(u)' = OwnedBy(u) /\ \A i : Rank(u, i)' = Rank(u, i)
      BY <2>5 DEF Rank, OwnedBy, Present
    <3>3. \A i \in s.start : Rank(u, i) \in Nat /\ Rank(u, i) < Cardinality(OwnedBy(u))
      BY <3>1, RankFacts
    <3>4. \A i \in s.start : Rank(u, i) < s.offset + PageSize => i \in s.shown \cup page
      BY <2>4, <3>1, <3>3 DEF Page
    <3>5. Cardinality(page) \in Nat /\ Cardinality(page) <= PageSize
          /\ Cardinality(OwnedBy(u)) \in Nat
      BY <2>4, PageIsLimited, OwnedIsFinite
    <3>6. CASE Cardinality(OwnedBy(u)) <= s.offset + Cardinality(page)
      <4>1. \A i \in s.start : Rank(u, i) < s.offset + PageSize
        BY <2>4, <3>3, <3>5, <3>6
      <4>2. s.start \subseteq s.shown \cup page
        BY <3>4, <4>1
      <4> QED BY <2>2, <2>6, <2>7, <3>1, <3>2, <3>4, <4>2 DEF ShownSoFar
    <3>7. CASE s.offset + Cardinality(page) < Cardinality(OwnedBy(u))
      BY <2>2, <2>6, <2>7, <3>1, <3>2, <3>4, <3>7 DEF ShownSoFar
    <3> QED BY <2>4, <3>5, <3>6, <3>7
  <2> QED BY <2>1, <2>5, <2>7, <2>8
<1>15. ASSUME NEW r \in Requests, CountRows(r)
       PROVE  \A q \in Requests : Fine(q)'
  <2>1. \A q \in Requests \ {r} : Fine(q)'
    BY <1>3, <1>15 DEF CountRows, TypeOK
  <2>2. PICK u : asked[r].user = u /\ asked'[r].user = u
    BY <1>15 DEF CountRows
  <2>3. PICK s : scan[r] = s
    OBVIOUS
  <2> DEFINE total == Cardinality(OwnedBy(u))
  <2>4. s \in Scans /\ s.total = None
    BY <1>15, <2>3, PageTypes DEF CountRows
  <2>5. scan'[r] = [s EXCEPT !.total = total] /\ UNCHANGED <<rows, pc, answer, spoiled>>
    BY <1>15, <2>2, <2>3 DEF CountRows, TypeOK
  <2>6. /\ scan'[r].page = s.page /\ scan'[r].offset = s.offset /\ scan'[r].total = total
        /\ scan'[r].shown = s.shown /\ scan'[r].start = s.start
    BY <2>4, <2>5 DEF Scans
  <2>7. answer'[r] = None /\ None # [is |-> "listed"]
    BY <1>15, <2>5, AnswerFacts, CodesAssumption DEF CountRows, RequestsOnTheirWay
  <2>8. ASSUME r \notin spoiled PROVE ShownSoFar(r)'
    <3>1. OwnedBy(u)' = OwnedBy(u) /\ \A i : Rank(u, i)' = Rank(u, i)
      BY <2>5 DEF Rank, OwnedBy, Present
    <3>2. ShownSoFar(r)
      BY <1>1, <1>15, <2>8 DEF CountRows
    <3> QED BY <2>2, <2>3, <2>6, <3>1, <3>2 DEF ShownSoFar
  <2> QED BY <2>1, <2>5, <2>7, <2>8
<1>16. ASSUME NEW r \in Requests, Show(r)
       PROVE  \A q \in Requests : Fine(q)'
  <2>1. \A q \in Requests \ {r} : Fine(q)'
    BY <1>3, <1>16 DEF Show, Finish, GoOn, TypeOK
  <2>2. PICK u : asked[r].user = u /\ asked'[r].user = u
    BY <1>16 DEF Show
  <2>3. PICK s : scan[r] = s
    OBVIOUS
  <2>4. s \in Scans /\ s.page # None /\ s.total # None
        /\ UNCHANGED <<rows, spoiled>> /\ pc[r] = "list"
    BY <1>16, <2>3, PageTypes DEF Show
  <2>5. scan'[r] = [s EXCEPT !.offset = @ + PageSize, !.page = None, !.total = None,
                             !.shown = @ \cup s.page]
    BY <1>16, <2>3 DEF Show, TypeOK
  <2>6. /\ scan'[r].page = None /\ scan'[r].offset = s.offset + PageSize
        /\ scan'[r].total = None /\ scan'[r].shown = s.shown \cup s.page
        /\ scan'[r].start = s.start
    BY <2>4, <2>5 DEF Scans
  <2>7. ASSUME r \notin spoiled
        PROVE  /\ s.start \subseteq OwnedBy(u)
               /\ \A i \in s.start : Rank(u, i) < s.offset + PageSize
                                      => i \in s.shown \cup s.page
               /\ ~hasMore(s) => s.start \subseteq s.shown \cup s.page
    <3>1. ShownSoFar(r)
      BY <1>1, <2>4, <2>7
    <3>2. s.offset + Cardinality(s.page) \in Int /\ s.total \in Int
      <4>1. s.page \in SUBSET Ids /\ s.total \in Nat /\ s.offset \in Nat
        BY <2>4 DEF Scans
      <4>2. IsFiniteSet(s.page)
        BY <4>1, SizesAssumption, FS_Subset
      <4> QED BY <4>1, <4>2, FS_CardinalityType
    <3> QED BY <2>2, <2>3, <2>4, <3>1, <3>2 DEF ShownSoFar, hasMore
  <2>8. CASE hasMore(s) /\ GoOn(r, "list")
    <3>1. pc'[r] = "list" /\ answer'[r] = None /\ None # [is |-> "listed"]
      BY <2>4, <2>8, AnswerFacts, CodesAssumption DEF GoOn, TypeOK, RequestsOnTheirWay
    <3>2. ASSUME r \notin spoiled PROVE ShownSoFar(r)'
      <4>1. OwnedBy(u)' = OwnedBy(u) /\ \A i : Rank(u, i)' = Rank(u, i)
        BY <2>4 DEF Rank, OwnedBy, Present
      <4> QED BY <2>2, <2>6, <2>7, <3>2, <4>1 DEF ShownSoFar
    <3> QED BY <2>1, <2>4, <3>1, <3>2
  <2>9. CASE ~hasMore(s) /\ Finish(r, [is |-> "listed"])
    <3>1. pc'[r] = "done"
      BY <2>9 DEF Finish, TypeOK
    <3> QED BY <2>1, <2>4, <2>6, <2>7, <2>9, <3>1
  <2> QED BY <1>16, <2>3, <2>8, <2>9 DEF Show
<1>17. CASE UNCHANGED vars
  BY <1>3, <1>17 DEF vars
<1> QED
  BY <1>6, <1>7, <1>8, <1>10, <1>11, <1>12, <1>13, <1>14, <1>15, <1>16, <1>17 DEF Next
(***************************************************************************)
(* Theorems                                                                *)
(***************************************************************************)

\* The inductive invariant: types, codes, the way of each request, and what
\* listings have shown.
THEOREM InvHolds ==
  Spec => []Inv
<1>1. Init => Inv
  <2> SUFFICES ASSUME Init PROVE Inv
    OBVIOUS
  <2>1. None # [is |-> "listed"]
    BY AnswerFacts, CodesAssumption
  <2>2. TypeOK
    BY StoredAssumption, SizesAssumption DEF Init, TypeOK
  <2>3. CodesOfRows
    BY StoredAssumption DEF Init, CodesOfRows, Present, isReservedShortCode
  <2>4. RequestsOnTheirWay
    BY <2>1, SizesAssumption DEF Init, RequestsOnTheirWay
  <2>5. ScanSoFar /\ ScanComplete
    BY <2>1 DEF Init, ScanSoFar, ScanComplete
  <2> QED BY <2>2, <2>3, <2>4, <2>5 DEF Inv
<1>2. Inv /\ [Next]_vars => Inv'
  BY TypeStep, CodesStep, RequestsStep, ListingsStep DEF Inv
<1> QED BY <1>1, <1>2, PTL DEF Spec

\* For any number of requests, rows and pages: a listing shows every link that
\* was there from its start on, unless one was deleted meanwhile, or added
\* between a count and its page.
THEOREM ListingsShowAll ==
  Spec => []ScanComplete
<1>1. Inv => ScanComplete
  BY DEF Inv
<1> QED BY <1>1, InvHolds, PTL

\* No link is behind /health or /docs, in whatever letters its alias is written.
THEOREM LinksAreReachable ==
  Spec => []EveryLinkReachable
<1>1. Inv => EveryLinkReachable
  BY DEF Inv, CodesOfRows, EveryLinkReachable, isReservedShortCode, Mounted,
         RESERVED_SHORT_CODES
<1> QED BY <1>1, InvHolds, PTL

(***************************************************************************)
(* LinkStore implements LinkRegistry                                       *)
(***************************************************************************)

\* What the registry has of the links is what the rows say.
LEMMA RegistryView ==
  ASSUME TypeOK
  PROVE  /\ Registry!Taken = Taken
         /\ Registry!Present = Present
<1> DEFINE all == UNION {LinksOf(u) : u \in Users}
<1>1. all = {Link(i) : i \in Present}
  BY PresentFacts DEF LinksOf, OwnedBy, Rows
<1>2. \A i : Link(i).id = i /\ Link(i).code = rows[i].code
  BY DEF Link
<1>3. UNION {[u \in Users |-> LinksOf(u)][v] : v \in Users} = all
  OBVIOUS
<1>4. {l.code : l \in all} = {rows[i].code : i \in Present}
  BY <1>1, <1>2
<1>5. {l.id : l \in all} = Present
  BY <1>1, <1>2
<1> QED BY <1>3, <1>4, <1>5 DEF Registry!Taken, Registry!Present, Taken

\* A request between two statements is not decided, and not a listing.
LEMMA IsDecidable ==
  ASSUME TypeOK, RequestsOnTheirWay, NEW r \in Requests,
         pc[r] \in {"check", "insert", "select", "aggregate", "write"}
  PROVE  asked[r] \in Inputs /\ asked[r] # None /\ asked[r].kind # "list" /\ answer[r] = None
<1>1. asked[r] \in Inputs /\ asked[r].kind \in Kinds(pc[r]) /\ answer[r] = None
  BY DEF RequestsOnTheirWay
<1>2. asked[r] # None
  BY <1>1, AskFacts
<1> QED BY <1>1, <1>2 DEF Kinds

\* So it is open in the registry.
LEMMA IsOpen ==
  ASSUME TypeOK, RequestsOnTheirWay, NEW r \in Requests, NEW kinds,
         pc[r] \in {"check", "insert", "select", "aggregate", "write"},
         asked[r].kind \in kinds
  PROVE  Registry!Open(r, kinds) /\ asked[r] # None /\ asked[r].kind # "list"
BY IsDecidable DEF Registry!Open

\* To finish with an answer is to decide the request.
LEMMA Decides ==
  ASSUME TypeOK, NEW r \in Requests, NEW what, asked[r] # None, asked[r].kind # "list",
         Finish(r, what), UNCHANGED asked
  PROVE  Registry!Decide(r, what)
BY DEF TypeOK, Finish, Selected, Registry!Decide

\* The registry does not see what a listing is answered, nor a step between
\* two statements of a request.
LEMMA Unseen ==
  ASSUME TypeOK, UNCHANGED <<rows, asked>>, UNCHANGED Selected,
         answer' = answer \/ \E r \in Requests : \E what :
           answer' = [answer EXCEPT ![r] = what] /\ asked[r] # None /\ asked[r].kind = "list"
  PROVE  UNCHANGED Registry!vars
<1> DEFINE seen == [r \in Requests |-> IF asked[r] # None /\ asked[r].kind = "list"
                                       THEN None ELSE answer[r]]
<1>1. seen' = seen
  BY DEF TypeOK
<1>2. [u \in Users |-> LinksOf(u)]' = [u \in Users |-> LinksOf(u)]
  BY DEF LinksOf, Link, OwnedBy, Present
<1> QED BY <1>1, <1>2 DEF Registry!vars

\* A change of one row changes one link of the users' links.
LEMMA OneRow ==
  ASSUME TypeOK, NEW i \in Ids, NEW row, rows' = [rows EXCEPT ![i] = row], NEW u \in Users
  PROVE  /\ LinksOf(u)' = {l \in LinksOf(u) : l.id # i}
                          \cup {l \in {Link(i)'} : i \in OwnedBy(u)'}
         /\ i \notin OwnedBy(u) => {l \in LinksOf(u) : l.id # i} = LinksOf(u)
         /\ i \in OwnedBy(u) => {l \in LinksOf(u) : l.id # i} = LinksOf(u) \ {Link(i)}
<1>1. \A j \in Ids \ {i} : Link(j)' = Link(j) /\ (j \in OwnedBy(u)' <=> j \in OwnedBy(u))
  BY DEF TypeOK, Link, OwnedBy, Present
<1>2. \A j : Link(j).id = j /\ Link(j)'.id = j
  BY DEF Link
<1>3. OwnedBy(u) \subseteq Ids /\ OwnedBy(u)' \subseteq Ids
  BY DEF OwnedBy, Present
<1>4. LinksOf(u)' = {Link(j)' : j \in OwnedBy(u)'} /\ LinksOf(u) = {Link(j) : j \in OwnedBy(u)}
  BY DEF LinksOf
<1> HIDE DEF Link, OwnedBy, LinksOf
<1>5. LinksOf(u)' = {l \in LinksOf(u) : l.id # i} \cup {l \in {Link(i)'} : i \in OwnedBy(u)'}
  BY <1>1, <1>2, <1>3, <1>4
<1>6. i \notin OwnedBy(u) => {l \in LinksOf(u) : l.id # i} = LinksOf(u)
  BY <1>2, <1>4
<1>7. i \in OwnedBy(u) => {l \in LinksOf(u) : l.id # i} = LinksOf(u) \ {Link(i)}
  BY <1>2, <1>4
<1> QED BY <1>5, <1>6, <1>7

\* The links of one user change, and nobody else's.
LEMMA Becomes ==
  ASSUME NEW r \in Requests, asked[r].user \in Users, NEW links,
         \A u \in Users : LinksOf(u)' = IF u = asked[r].user THEN links ELSE LinksOf(u)
  PROVE  Registry!Become(r, links)
BY DEF Registry!Become

\* A link that is found is among the links of the user.
LEMMA IsThere ==
  ASSUME TypeOK, RequestsOnTheirWay, NEW r \in Requests,
         pc[r] \in {"select", "aggregate", "write"}, Found(r)
  PROVE  /\ Link(asked[r].id) \in Registry!Mine(r) /\ Link(asked[r].id).id = asked[r].id
         /\ asked[r].id \in Ids /\ asked[r].user \in Users
<1>1. asked[r].user \in Users
  BY AskFacts DEF RequestsOnTheirWay
<1> QED BY <1>1 DEF Registry!Mine, LinksOf, Found, Link, OwnedBy, Present

\* One that is not found is not, and the registry may answer 404.
LEMMA IsMissing ==
  ASSUME TypeOK, RequestsOnTheirWay, NEW r \in Requests,
         pc[r] \in {"select", "aggregate", "write"}, ~Found(r)
  PROVE  /\ \A l \in Registry!Mine(r) : l.id # asked[r].id
         /\ (UNCHANGED [u \in Users |-> LinksOf(u)]) /\ Registry!Decide(r, [is |-> "not found"])
              => Registry!Next
<1>1. asked[r].user \in Users
  BY AskFacts DEF RequestsOnTheirWay
<1>2. \A l \in Registry!Mine(r) : l.id # asked[r].id
  BY <1>1 DEF Registry!Mine, LinksOf, Found, Link
<1>3. Registry!Open(r, {"get", "stats", "update", "delete"})
  BY IsOpen DEF RequestsOnTheirWay, Kinds
<1>4. (UNCHANGED [u \in Users |-> LinksOf(u)]) /\ Registry!Decide(r, [is |-> "not found"])
        => Registry!NotFound(r)
  BY <1>2, <1>3 DEF Registry!NotFound
<1> QED BY <1>2, <1>4 DEF Registry!Next

\* What a click changes of a link.
LEMMA ClickedLink ==
  ASSUME NEW l \in [id: Ids, code: Codes, content: Requests \cup {None}, clicked: BOOLEAN]
  PROVE  [l EXCEPT !.clicked = TRUE] =
           [id |-> l.id, code |-> l.code, content |-> l.content, clicked |-> TRUE]
<1>1. \A b \in BOOLEAN :
        [l EXCEPT !.clicked = b] =
          [id |-> l.id, code |-> l.code, content |-> l.content, clicked |-> b]
  OBVIOUS
<1>2. TRUE \in BOOLEAN
  OBVIOUS
<1> QED BY <1>1, <1>2, Zenon

\* Every step is a step of the registry, or none of its business.
LEMMA RegistryStep ==
  ASSUME Inv, [Next]_vars
  PROVE  [Registry!Next]_(Registry!vars)
<1> USE DEF Inv
<1>1. CASE UNCHANGED vars
  BY <1>1, Unseen DEF vars, Selected
<1>0. UNCHANGED rows => UNCHANGED [u \in Users |-> LinksOf(u)]
  BY DEF LinksOf, Link, OwnedBy, Present
<1> DEFINE seen == [r \in Requests |-> IF asked[r] # None /\ asked[r].kind = "list"
                                       THEN None ELSE answer[r]]
<1>2. ASSUME NEW r \in Requests, NEW a \in Inputs, Ask(r, a)
      PROVE  [Registry!Next]_(Registry!vars)
  <2>1. asked[r] = None /\ a # None /\ answer[r] = None
    BY <1>2, AskFacts DEF Ask, RequestsOnTheirWay
  <2>2. asked' = [asked EXCEPT ![r] = a] /\ UNCHANGED rows
    BY <1>2 DEF Ask
  <2>5. UNCHANGED Selected
    BY <1>2, AskFacts DEF Ask, Finish, GoOn, FirstStatement, TypeOK, Selected
  <2>3. CASE a.kind = "create" /\ a.alias # None /\ isReservedShortCode(a.alias)
    <3>1. answer' = [answer EXCEPT ![r] = [is |-> "invalid"]]
      BY <1>2, <2>3 DEF Ask, Finish
    <3>2. seen' = [seen EXCEPT ![r] = [is |-> "invalid"]]
      BY <2>1, <2>2, <2>3, <3>1 DEF TypeOK
    <3> QED BY <1>0, <2>1, <2>2, <2>3, <2>5, <3>2 DEF Registry!Ask, Registry!Next
  <2>4. CASE ~(a.kind = "create" /\ a.alias # None /\ isReservedShortCode(a.alias))
    <3>1. answer' = answer
      BY <1>2, <2>4 DEF Ask, GoOn
    <3>2. seen' = seen
      BY <2>1, <2>2, <3>1 DEF TypeOK
    <3> QED BY <1>0, <2>1, <2>2, <2>5, <3>2 DEF Registry!Ask, Registry!Next
  <2> QED BY <2>3, <2>4
<1>3. ASSUME NEW r \in Requests, Check(r)
      PROVE  [Registry!Next]_(Registry!vars)
  <2>1. CASE asked[r].alias \in Taken
    <3>1. Registry!Open(r, {"create"}) /\ asked[r] # None /\ asked[r].kind # "list"
      BY <1>3, IsOpen DEF Check, RequestsOnTheirWay, Kinds
    <3>2. Registry!Decide(r, [is |-> "conflict"])
      BY <1>3, <2>1, <3>1, Decides DEF Check
    <3>3. asked[r].alias # None
      BY <1>3 DEF Check, RequestsOnTheirWay
    <3>4. Registry!Wanted(r) \cap Registry!Taken # {}
      BY <2>1, <3>3, RegistryView DEF Registry!Wanted
    <3>5. UNCHANGED [u \in Users |-> LinksOf(u)]
      BY <1>0, <1>3 DEF Check
    <3>6. Registry!Decide(r, [is |-> IF asked[r].alias = None THEN "exhausted" ELSE "conflict"])
      BY <3>2, <3>3 DEF Registry!Decide
    <3>7. Registry!Refuse(r)
      BY <3>1, <3>4, <3>5, <3>6 DEF Registry!Refuse
    <3> QED BY <3>7 DEF Registry!Next
  <2>2. CASE asked[r].alias \notin Taken
    <3>1. UNCHANGED Selected
      BY <1>3, <2>2 DEF Check, GoOn, TypeOK, Selected
    <3> QED BY <1>3, <2>2, <3>1, Unseen DEF Check, GoOn
  <2> QED BY <2>1, <2>2
<1>4. ASSUME NEW r \in Requests, Collide(r)
      PROVE  [Registry!Next]_(Registry!vars)
  <2>1. ASSUME Finish(r, [is |-> IF asked[r].alias = None THEN "exhausted" ELSE "conflict"])
        PROVE  Registry!Next
    <3>1. Registry!Open(r, {"create"}) /\ asked[r] # None /\ asked[r].kind # "list"
      BY <1>4, IsOpen DEF Collide, RequestsOnTheirWay, Kinds
    <3>2. Registry!Decide(r, [is |-> IF asked[r].alias = None THEN "exhausted" ELSE "conflict"])
      <4>1. UNCHANGED asked
        BY <1>4 DEF Collide
      <4> QED BY <2>1, <3>1, <4>1 DEF TypeOK, Finish, Selected, Registry!Decide
    <3>3. Registry!Wanted(r) \cap Registry!Taken # {}
      BY <1>4, RegistryView DEF Registry!Wanted, Collide, Wanted
    <3>4. UNCHANGED [u \in Users |-> LinksOf(u)]
      BY <1>0, <1>4 DEF Collide
    <3> QED BY <3>1, <3>2, <3>3, <3>4 DEF Registry!Refuse, Registry!Next
  <2>2. CASE GoOn(r, "insert")
    <3>1. UNCHANGED Selected
      BY <1>4, <2>2 DEF Collide, GoOn, TypeOK, Selected
    <3> QED BY <1>4, <2>2, <3>1, Unseen DEF Collide, GoOn
  <2> QED BY <1>4, <2>1, <2>2 DEF Collide
<1>5. ASSUME NEW r \in Requests, Select(r)
      PROVE  [Registry!Next]_(Registry!vars)
  <2>1. pc[r] = "select" /\ asked[r].kind \in {"get", "stats"} /\ UNCHANGED <<rows, asked>>
    BY <1>5 DEF Select, RequestsOnTheirWay, Kinds
  <2>5. asked[r] # None /\ asked[r].kind # "list"
    BY <2>1, IsDecidable
  <2>2. CASE ~Found(r)
    <3>1. Registry!Decide(r, [is |-> "not found"])
      <4>1. Finish(r, [is |-> "not found"])
        BY <1>5, <2>2 DEF Select
      <4> QED BY <2>1, <2>5, <4>1, Decides
    <3> QED BY <1>0, <2>1, <2>2, <3>1, IsMissing
  <2>3. CASE Found(r) /\ asked[r].kind = "get"
    <3>1. Registry!Decide(r, [is |-> "link", link |-> Link(asked[r].id)])
      <4>1. Finish(r, [is |-> "link", link |-> Link(asked[r].id)])
        BY <1>5, <2>3 DEF Select
      <4> QED BY <2>1, <2>5, <4>1 DEF TypeOK, Finish, Selected, Registry!Decide
    <3>2. Registry!Open(r, {"get"})
      BY <2>1, <2>3, IsOpen
    <3>3. Registry!Get(r)
      BY <1>0, <2>1, <2>3, <3>1, <3>2, IsThere DEF Registry!Get, Registry!Decide
    <3> QED BY <3>3 DEF Registry!Next
  <2>4. CASE Found(r) /\ asked[r].kind # "get"
    <3>1. Registry!Open(r, {"stats"})
      BY <2>1, <2>4, IsOpen
    <3>2. answer' = answer /\ Selected' = Selected \cup {r}
      BY <1>5, <2>4 DEF Select, GoOn, TypeOK, Selected
    <3>3. seen' = seen
      BY <2>1, <3>2
    <3>4. Registry!Find(r)
      BY <1>0, <2>1, <2>4, <3>1, <3>2, <3>3, IsThere DEF Registry!Find
    <3> QED BY <3>4 DEF Registry!Next
  <2> QED BY <2>2, <2>3, <2>4
<1>6. ASSUME NEW r \in Requests, Aggregate(r)
      PROVE  [Registry!Next]_(Registry!vars)
  <2>1. pc[r] = "aggregate" /\ asked[r].kind = "stats" /\ UNCHANGED <<rows, asked>>
    BY <1>6 DEF Aggregate, RequestsOnTheirWay, Kinds
  <2>2. Registry!Open(r, {"stats"})
    BY <2>1, IsOpen
  <2>3. Registry!Decide(r, [is |-> "days", some |-> Found(r) /\ rows[asked[r].id].clicked])
    <3>1. asked[r] # None /\ asked[r].kind # "list"
      BY <2>1, IsDecidable
    <3> QED BY <1>6, <2>1, <3>1 DEF Aggregate, TypeOK, Finish, Selected, Registry!Decide
  <2>4. CASE Found(r)
    <3>1. Link(asked[r].id) \in Registry!Mine(r) /\ Link(asked[r].id).id = asked[r].id
      BY <2>1, <2>4, IsThere
    <3>2. Registry!Decide(r, [is |-> "days", some |-> Link(asked[r].id).clicked])
      <4>1. (Found(r) /\ rows[asked[r].id].clicked) = Link(asked[r].id).clicked
        BY <2>4, PresentFacts DEF Found, OwnedBy, Rows, Link
      <4> QED BY <2>3, <4>1 DEF Registry!Decide
    <3>3. Registry!Stats(r)
      BY <1>0, <2>1, <2>2, <3>1, <3>2 DEF Registry!Stats, Registry!Decide
    <3> QED BY <3>3 DEF Registry!Next
  <2>5. CASE ~Found(r)
    <3>1. \A l \in Registry!Mine(r) : l.id # asked[r].id
      BY <2>1, <2>5, IsMissing
    <3>2. Registry!Decide(r, [is |-> "days", some |-> FALSE])
      <4>1. (Found(r) /\ rows[asked[r].id].clicked) = FALSE
        BY <2>5
      <4> QED BY <2>3, <4>1 DEF Registry!Decide
    <3>3. r \in Selected
      BY <2>1 DEF Selected
    <3>4. Registry!Stats(r)
      BY <1>0, <2>1, <2>2, <3>1, <3>2, <3>3 DEF Registry!Stats, Registry!Decide
    <3> QED BY <3>4 DEF Registry!Next
  <2> QED BY <2>4, <2>5
<1>7. ASSUME NEW r \in Requests, WriteNothing(r)
      PROVE  [Registry!Next]_(Registry!vars)
  <2>1. pc[r] = "write" /\ asked[r].kind \in {"update", "delete"} /\ ~Found(r)
        /\ UNCHANGED <<rows, asked>>
    BY <1>7 DEF WriteNothing, RequestsOnTheirWay, Kinds
  <2>2. Registry!Decide(r, [is |-> "not found"])
    <3>1. asked[r] # None /\ asked[r].kind # "list"
      BY <2>1, IsDecidable
    <3>2. Finish(r, [is |-> "not found"])
      BY <1>7 DEF WriteNothing
    <3> QED BY <2>1, <3>1, <3>2, Decides
  <2> QED BY <1>0, <2>1, <2>2, IsMissing
<1>8. ASSUME NEW r \in Requests, Fail(r)
      PROVE  [Registry!Next]_(Registry!vars)
  <2>1. Finish(r, [is |-> "failed"]) /\ (UNCHANGED rows) /\ UNCHANGED asked
    BY <1>8 DEF Fail
  <2>2. CASE pc[r] = "list"
    <3>1. asked[r] # None /\ asked[r].kind = "list"
      BY <2>2, AskFacts DEF RequestsOnTheirWay, Kinds
    <3>2. UNCHANGED Selected
      BY <2>1, <2>2 DEF Finish, TypeOK, Selected
    <3> QED BY <2>1, <3>1, <3>2, Unseen DEF Finish
  <2>3. CASE pc[r] # "list"
    <3>1. pc[r] \in {"check", "insert", "select", "aggregate", "write"}
      BY <1>8, <2>3 DEF Fail, TypeOK
    <3>2. Registry!Open(r, {"create", "get", "stats", "update", "delete"})
          /\ asked[r] # None /\ asked[r].kind # "list"
      BY <3>1, IsOpen DEF RequestsOnTheirWay, Kinds
    <3>3. Registry!Decide(r, [is |-> "failed"])
      BY <2>1, <3>2, Decides
    <3>4. Registry!Fail(r)
      BY <1>0, <2>1, <3>2, <3>3 DEF Registry!Fail
    <3> QED BY <3>4 DEF Registry!Next
  <2> QED BY <2>2, <2>3
<1>9. ASSUME NEW r \in Requests, NEW c \in Codes, NEW i \in Ids, NEW heard \in BOOLEAN,
             Insert(r, c, i, heard)
      PROVE  [Registry!Next]_(Registry!vars)
  <2> DEFINE new == [id |-> i, code |-> c, content |-> r, clicked |-> FALSE]
  <2>1. /\ pc[r] = "insert" /\ asked[r].kind = "create"
        /\ c \in Wanted(r) \ Taken /\ i \in Fresh /\ UNCHANGED asked
        /\ rows' = [rows EXCEPT ![i] = [owner |-> asked[r].user, code |-> c,
                                        content |-> r, clicked |-> FALSE]]
        /\ Finish(r, IF heard THEN [is |-> "link", link |-> new] ELSE [is |-> "failed"])
    BY <1>9 DEF Insert, RequestsOnTheirWay, Kinds
  <2>2. Registry!Open(r, {"create"}) /\ asked[r] # None /\ asked[r].kind # "list"
        /\ asked[r].user \in Users
    BY <2>1, IsOpen, IsDecidable, AskFacts
  <2>3. \E what \in {[is |-> "link", link |-> new], [is |-> "failed"]} :
          Registry!Decide(r, what)
    BY <2>1, <2>2, Decides
  <2>4. i \in Ids \ Registry!Present /\ c \in Registry!Wanted(r) \ Registry!Taken
    BY <2>1, RegistryView DEF Wanted, Registry!Wanted, Fresh, Present
  <2>5. ASSUME NEW u \in Users
        PROVE  LinksOf(u)' = IF u = asked[r].user THEN Registry!Mine(r) \cup {new}
                                                  ELSE LinksOf(u)
    <3>1. i \notin OwnedBy(u)
      BY <2>1 DEF Fresh, OwnedBy, Present
    <3>2. i \in OwnedBy(u)' <=> u = asked[r].user
      <4>1. rows'[i] \in Rows /\ rows'[i].owner = asked[r].user
        BY <2>1, <2>2 DEF TypeOK, Rows
      <4>2. rows'[i] \notin {None, Gone}
        BY <4>1, CodesAssumption
      <4> QED BY <4>1, <4>2 DEF OwnedBy, Present
    <3>3. Link(i)' = new
      BY <2>1 DEF Link, TypeOK
    <3>4. LinksOf(u)' = LinksOf(u) \cup {l \in {Link(i)'} : i \in OwnedBy(u)'}
      BY <2>1, <3>1, OneRow
    <3> QED BY <3>2, <3>3, <3>4 DEF Registry!Mine
  <2>6. Registry!Become(r, Registry!Mine(r) \cup {new})
    BY <2>2, <2>5 DEF Registry!Become
  <2>7. Registry!Create(r)
    BY <2>2, <2>3, <2>4, <2>6 DEF Registry!Create
  <2> QED BY <2>7 DEF Registry!Next
<1>10. ASSUME NEW r \in Requests, NEW heard \in BOOLEAN, Update(r, heard)
       PROVE  [Registry!Next]_(Registry!vars)
  <2> DEFINE i == asked[r].id
             old == Link(asked[r].id)
             new == [Link(asked[r].id) EXCEPT !.content = r]
  <2>1. /\ pc[r] = "write" /\ asked[r].kind = "update" /\ Found(r) /\ UNCHANGED asked
        /\ rows' = [rows EXCEPT ![i].content = r]
        /\ Finish(r, IF heard THEN [is |-> "link", link |-> new] ELSE [is |-> "failed"])
    BY <1>10 DEF Update
  <2>2. Registry!Open(r, {"update"}) /\ asked[r] # None /\ asked[r].kind # "list"
    BY <2>1, IsOpen
  <2>3. \E what \in {[is |-> "link", link |-> new], [is |-> "failed"]} :
          Registry!Decide(r, what)
    BY <2>1, <2>2 DEF TypeOK, Finish, Selected, Registry!Decide
  <2>4. old \in Registry!Mine(r) /\ old.id = i /\ i \in Ids /\ asked[r].user \in Users
    BY <2>1, IsThere
  <2>5. rows[i] \in Rows /\ i \in OwnedBy(asked[r].user)
    BY <2>1, PresentFacts DEF Found, OwnedBy
  <2>6. ASSUME NEW j \in Ids, j = i, NEW u \in Users
        PROVE  LinksOf(u)' = IF u = asked[r].user THEN (Registry!Mine(r) \ {old}) \cup {new}
                                                  ELSE LinksOf(u)
    <3>1. rows' = [rows EXCEPT ![j] = [rows[j] EXCEPT !.content = r]]
      BY <2>1, <2>6 DEF TypeOK
    <3>2. OwnedBy(u)' = OwnedBy(u)
      BY <1>10, OwnedSteps
    <3>3. j \in OwnedBy(u) <=> u = asked[r].user
      BY <2>5, <2>6 DEF OwnedBy
    <3>4. Link(j)' = new /\ Link(j) = old
      BY <2>5, <2>6, <3>1 DEF Link, TypeOK, Rows
    <3>5. /\ LinksOf(u)' = {l \in LinksOf(u) : l.id # j}
                            \cup {l \in {Link(j)'} : j \in OwnedBy(u)'}
          /\ j \notin OwnedBy(u) => {l \in LinksOf(u) : l.id # j} = LinksOf(u)
          /\ j \in OwnedBy(u) => {l \in LinksOf(u) : l.id # j} = LinksOf(u) \ {Link(j)}
      <4>1. PICK row : rows' = [rows EXCEPT ![j] = row]
        BY <3>1
      <4> QED BY <4>1, OneRow
    <3> QED BY <3>2, <3>3, <3>4, <3>5 DEF Registry!Mine
  <2>7. Registry!Become(r, (Registry!Mine(r) \ {old}) \cup {new})
    BY <2>4, <2>6 DEF Registry!Become
  <2>8. Registry!Update(r)
    BY <2>2, <2>3, <2>4, <2>7 DEF Registry!Update, Registry!Become, Registry!Decide
  <2> QED BY <2>8 DEF Registry!Next
<1>11. ASSUME NEW r \in Requests, NEW heard \in BOOLEAN, Delete(r, heard)
       PROVE  [Registry!Next]_(Registry!vars)
  <2> DEFINE i == asked[r].id
             old == Link(asked[r].id)
  <2>1. /\ pc[r] = "write" /\ asked[r].kind = "delete" /\ Found(r) /\ UNCHANGED asked
        /\ rows' = [rows EXCEPT ![i] = Gone]
        /\ Finish(r, IF heard THEN [is |-> "deleted"] ELSE [is |-> "failed"])
    BY <1>11 DEF Delete
  <2>2. Registry!Open(r, {"delete"}) /\ asked[r] # None /\ asked[r].kind # "list"
    BY <2>1, IsOpen
  <2>3. \E what \in {[is |-> "deleted"], [is |-> "failed"]} : Registry!Decide(r, what)
    BY <2>1, <2>2, Decides
  <2>4. old \in Registry!Mine(r) /\ old.id = i /\ i \in Ids /\ asked[r].user \in Users
    BY <2>1, IsThere
  <2>5. i \in OwnedBy(asked[r].user)
    BY <2>1 DEF Found
  <2>6. ASSUME NEW j \in Ids, j = i, NEW u \in Users
        PROVE  LinksOf(u)' = IF u = asked[r].user THEN Registry!Mine(r) \ {old} ELSE LinksOf(u)
    <3>1. rows' = [rows EXCEPT ![j] = Gone]
      BY <2>1, <2>6
    <3>2. j \notin OwnedBy(u)'
      BY <3>1 DEF OwnedBy, Present, TypeOK
    <3>3. j \in OwnedBy(u) <=> u = asked[r].user
      BY <2>5, <2>6 DEF OwnedBy
    <3>4. Link(j) = old
      BY <2>6
    <3>5. /\ LinksOf(u)' = {l \in LinksOf(u) : l.id # j}
                            \cup {l \in {Link(j)'} : j \in OwnedBy(u)'}
          /\ j \notin OwnedBy(u) => {l \in LinksOf(u) : l.id # j} = LinksOf(u)
          /\ j \in OwnedBy(u) => {l \in LinksOf(u) : l.id # j} = LinksOf(u) \ {Link(j)}
      BY <3>1, OneRow
    <3> QED BY <3>2, <3>3, <3>4, <3>5 DEF Registry!Mine
  <2>7. Registry!Become(r, Registry!Mine(r) \ {old})
    BY <2>4, <2>6 DEF Registry!Become
  <2>8. Registry!Delete(r)
    BY <2>2, <2>3, <2>4, <2>7 DEF Registry!Delete, Registry!Become
  <2> QED BY <2>8 DEF Registry!Next
<1>12. ASSUME NEW i \in Ids, Click(i)
       PROVE  [Registry!Next]_(Registry!vars)
  <2> DEFINE new == [Link(i) EXCEPT !.clicked = TRUE]
  <2>1. i \in Present /\ rows' = [rows EXCEPT ![i].clicked = TRUE] /\ rows[i] \in Rows
        /\ UNCHANGED <<asked, answer>> /\ UNCHANGED Selected
    BY <1>12, PresentFacts DEF Click, Selected
  <2>2. PICK v \in Users : v = rows[i].owner
    BY <2>1 DEF Rows
  <2>3. Link(i) \in LinksOf(v)
    BY <2>1, <2>2 DEF LinksOf, OwnedBy
  <2>4. ASSUME NEW u \in Users
        PROVE  LinksOf(u)' = IF u = v THEN (LinksOf(v) \ {Link(i)}) \cup {new} ELSE LinksOf(u)
    <3>1. rows' = [rows EXCEPT ![i] = [rows[i] EXCEPT !.clicked = TRUE]]
      BY <2>1 DEF TypeOK
    <3>2. OwnedBy(u)' = OwnedBy(u)
      BY <1>12, OwnedSteps
    <3>3. i \in OwnedBy(u) <=> u = v
      BY <2>1, <2>2 DEF OwnedBy
    <3>4. Link(i)' = new
      <4>1. rows'[i] = [rows[i] EXCEPT !.clicked = TRUE]
        BY <2>1, <3>1 DEF TypeOK, Present
      <4>2. rows'[i].code = rows[i].code /\ rows'[i].content = rows[i].content
            /\ rows'[i].clicked = TRUE
        BY <2>1, <4>1 DEF Rows
      <4>3. new = [id |-> i, code |-> rows[i].code, content |-> rows[i].content,
                   clicked |-> TRUE]
        <5>1. Link(i) \in [id: Ids, code: Codes, content: Requests \cup {None}, clicked: BOOLEAN]
          BY <2>1, LinkFacts
        <5>2. Link(i).id = i /\ Link(i).code = rows[i].code /\ Link(i).content = rows[i].content
          BY DEF Link
        <5> QED BY <5>1, <5>2, ClickedLink
      <4>4. Link(i)' = [id |-> i, code |-> rows'[i].code, content |-> rows'[i].content,
                        clicked |-> rows'[i].clicked]
        BY DEF Link
      <4> HIDE DEF new
      <4> QED BY <4>2, <4>3, <4>4, Zenon
    <3>5. /\ LinksOf(u)' = {l \in LinksOf(u) : l.id # i}
                            \cup {l \in {Link(i)'} : i \in OwnedBy(u)'}
          /\ i \notin OwnedBy(u) => {l \in LinksOf(u) : l.id # i} = LinksOf(u)
          /\ i \in OwnedBy(u) => {l \in LinksOf(u) : l.id # i} = LinksOf(u) \ {Link(i)}
      <4>1. PICK row : rows' = [rows EXCEPT ![i] = row]
        BY <3>1
      <4> QED BY <4>1, OneRow
    <3> QED BY <3>2, <3>3, <3>4, <3>5
  <2>5. Registry!Click(v, Link(i))
    BY <2>1, <2>3, <2>4 DEF Registry!Click
  <2>6. Link(i) \in [u \in Users |-> LinksOf(u)][v]
    BY <2>3
  <2> QED BY <2>5, <2>6 DEF Registry!Next, Registry!Click
<1>13. ASSUME NEW r \in Requests, ReadPage(r) \/ CountRows(r) \/ Show(r)
       PROVE  [Registry!Next]_(Registry!vars)
  <2>1. (UNCHANGED rows) /\ UNCHANGED asked
    BY <1>13 DEF ReadPage, CountRows, Show
  <2>2. asked[r] # None /\ asked[r].kind = "list"
    BY <1>13, AskFacts DEF ReadPage, CountRows, Show, RequestsOnTheirWay, Kinds
  <2>3. answer' = answer \/ Finish(r, [is |-> "listed"])
    BY <1>13 DEF ReadPage, CountRows, Show, GoOn
  <2>4. UNCHANGED Selected
    BY <1>13 DEF ReadPage, CountRows, Show, GoOn, Finish, TypeOK, Selected
  <2> QED BY <2>1, <2>2, <2>3, <2>4, Unseen DEF Finish
<1> QED BY <1>1, <1>2, <1>3, <1>4, <1>5, <1>6, <1>7, <1>8, <1>9, <1>10, <1>11, <1>12, <1>13
        DEF Next

\* For any number of requests, users, links and codes: the statements implement
\* the registry.
THEOREM StoreImplementsRegistry ==
  Spec => ImplementsRegistry
<1>1. Init => Registry!Init
  <2> SUFFICES ASSUME Init PROVE Registry!Init
    OBVIOUS
  <2>1. \A u \in Users : OwnedBy(u) = {j \in Ids : Stored[j] # None /\ Stored[j].owner = u}
    BY StoredAssumption, CodesAssumption DEF Init, OwnedBy, Present
  <2> QED BY <2>1 DEF Init, Registry!Init, LinksOf, Link, Selected
<1> QED BY InvHolds, <1>1, RegistryStep, PTL DEF Spec, ImplementsRegistry, Registry!Spec

\* No two links share a code or an id, and none has two users.
Apart(owned) ==
  \A u, v \in Users : \A l \in owned[u], m \in owned[v] :
    l.code = m.code \/ l.id = m.id => u = v /\ l = m

LinksApart == Apart([u \in Users |-> LinksOf(u)])

\* The registry alone gives every code at most one link and every link one
\* user: whatever implements it, as LinkStore does, shows nobody's link to
\* another and never answers a visit from one of two links.
THEOREM RegistryKeepsLinksApart ==
  Registry!Spec => []LinksApart
<1>1. Registry!Init => LinksApart
  <2> SUFFICES ASSUME Registry!Init PROVE LinksApart
    OBVIOUS
  <2> DEFINE first(i) == [id |-> i, code |-> Stored[i].code, content |-> Stored[i].content,
                          clicked |-> Stored[i].clicked]
             ids(u) == {j \in Ids : Stored[j] # None /\ Stored[j].owner = u}
  <2>1. \A u \in Users : LinksOf(u) = {first(i) : i \in ids(u)}
    BY DEF Registry!Init
  <2>2. \A i : first(i).id = i /\ first(i).code = Stored[i].code
    OBVIOUS
  <2>3. \A u, v \in Users : \A i \in ids(u), j \in ids(v) :
          Stored[i].code = Stored[j].code \/ i = j => i = j /\ u = v
    BY StoredAssumption
  <2> HIDE DEF first, ids
  <2> QED BY <2>1, <2>2, <2>3 DEF LinksApart, Apart
<1>2. LinksApart /\ [Registry!Next]_(Registry!vars) => LinksApart'
  <2> DEFINE owned == [u \in Users |-> LinksOf(u)]
  <2> SUFFICES ASSUME Apart(owned), [Registry!Next]_(Registry!vars)
               PROVE  Apart(owned')
    BY DEF LinksApart, Apart
  <2>1. ASSUME NEW w, NEW links, owned' = [owned EXCEPT ![w] = links]
        PROVE  \A u \in Users : owned'[u] = IF u = w THEN links ELSE owned[u]
    BY <2>1
  <2>2. \A u \in Users : \A l \in owned[u] :
          \E i : l = [id |-> i, code |-> rows[i].code, content |-> rows[i].content,
                      clicked |-> rows[i].clicked]
    BY DEF LinksOf, Link
  <2>3. ASSUME NEW r \in Requests, Registry!Create(r)
        PROVE  Apart(owned')
    <3> DEFINE w == asked[r].user
    <3>1. PICK new : /\ new.id \notin Registry!Present /\ new.code \notin Registry!Taken
                     /\ owned' = [owned EXCEPT ![w] = owned[w] \cup {new}]
      BY <2>3 DEF Registry!Create, Registry!Become, Registry!Mine
    <3>2. \A u \in Users : \A l \in owned[u] : l.code # new.code /\ l.id # new.id
      BY <3>1 DEF Registry!Present, Registry!Taken
    <3>3. \A u \in Users : owned'[u] = IF u = w THEN owned[w] \cup {new} ELSE owned[u]
      BY <2>1, <3>1
    <3> HIDE DEF owned, w
    <3> QED BY <3>2, <3>3 DEF Apart
  <2>4. ASSUME NEW w, NEW l \in owned[w], w \in Users, NEW new,
               new.id = l.id, new.code = l.code,
               owned' = [owned EXCEPT ![w] = (owned[w] \ {l}) \cup {new}]
        PROVE  Apart(owned')
    <3>1. \A u \in Users : owned'[u] = IF u = w THEN (owned[w] \ {l}) \cup {new} ELSE owned[u]
      BY <2>1, <2>4
    <3> HIDE DEF owned
    <3>2. \A u \in Users : \A m \in owned[u] :
            m.code = new.code \/ m.id = new.id => u = w /\ m \in {l}
      BY <2>4 DEF Apart
    <3> QED BY <3>1, <3>2 DEF Apart
  <2>5. CASE owned' = owned
    BY <2>5
  <2>6. ASSUME NEW r \in Requests, Registry!Update(r)
        PROVE  Apart(owned')
    <3> DEFINE w == asked[r].user
    <3>1. PICK l \in owned[w] :
            owned' = [owned EXCEPT ![w] = (owned[w] \ {l}) \cup {[l EXCEPT !.content = r]}]
      BY <2>6 DEF Registry!Update, Registry!Become, Registry!Mine
    <3>2. CASE w \in Users
      <4> DEFINE new == [l EXCEPT !.content = r]
      <4>1. new.id = l.id /\ new.code = l.code
        BY <2>2, <3>2
      <4>2. owned' = [owned EXCEPT ![w] = (owned[w] \ {l}) \cup {new}]
        BY <3>1
      <4> HIDE DEF new, owned, w
      <4> QED BY <2>4, <3>1, <3>2, <4>1, <4>2
    <3>3. CASE w \notin Users
      BY <2>5, <3>1, <3>3
    <3> QED BY <3>2, <3>3
  <2>7. ASSUME NEW w \in Users, NEW l \in owned[w], Registry!Click(w, l)
        PROVE  Apart(owned')
    <3> DEFINE new == [l EXCEPT !.clicked = TRUE]
    <3>1. owned' = [owned EXCEPT ![w] = (owned[w] \ {l}) \cup {new}]
      BY <2>7 DEF Registry!Click
    <3>2. new.id = l.id /\ new.code = l.code
      BY <2>2
    <3> HIDE DEF new, owned
    <3> QED BY <2>4, <3>1, <3>2
  <2>8. ASSUME NEW r \in Requests, Registry!Delete(r)
        PROVE  Apart(owned')
    <3> DEFINE w == asked[r].user
    <3>1. PICK l : owned' = [owned EXCEPT ![w] = owned[w] \ {l}]
      BY <2>8 DEF Registry!Delete, Registry!Become, Registry!Mine
    <3>2. \A u \in Users : owned'[u] = IF u = w THEN owned[w] \ {l} ELSE owned[u]
      BY <2>1, <3>1
    <3>3. \A u \in Users : owned'[u] \subseteq owned[u]
      BY <3>2
    <3> HIDE DEF owned
    <3> QED BY <3>3 DEF Apart
  <2>9. \/ owned' = owned
        \/ \E r \in Requests : Registry!Create(r) \/ Registry!Update(r) \/ Registry!Delete(r)
        \/ \E u \in Users : \E l \in owned[u] : Registry!Click(u, l)
    BY DEF Registry!Next, Registry!Ask, Registry!Refuse, Registry!NotFound, Registry!Get,
       Registry!Find, Registry!Stats, Registry!Fail, Registry!vars
  <2> QED BY <2>3, <2>5, <2>6, <2>7, <2>8, <2>9
<1> QED BY <1>1, <1>2, PTL DEF Registry!Spec
==============================================================================
