---------------------------- MODULE AccountsProofs ----------------------------
(***************************************************************************)
(* Accounts for any number of requests, addresses and identities: Inv is   *)
(* inductive.  OneSignupWins needs that the winner's row is in the table,   *)
(* ConflictHasHolder that a lost race was lost to a row: RacesLeaveRows.   *)
(***************************************************************************)
EXTENDS Accounts, TLAPS

USE AccountsAssumption DEF Outcomes

(* The initial state satisfies the invariant.                              *)
LEMMA InitInv == Init => Inv
  BY DEF Init, Inv, TypeOK, Users, IdentitiesUnique, SessionsMatchIdentity,
     OneSignupWins, ConflictHasHolder, PathOfKind, RacesLeaveRows, PasswordXorOAuth

(* The steps that only move their request on.                              *)
Moves(r) ==
  \/ Start(r) \/ SignupSelect(r) \/ SignupLosesRace(r) \/ LoginRejected(r)
  \/ OAuthNotFound(r) \/ OAuthSelectEmail(r) \/ OAuthLosesRace(r) \/ OAuthRetryFails(r)
  \/ Fail(r)

(* The steps that insert the request's row.                                *)
Inserts(r) == SignupInsert(r) \/ OAuthInsert(r) \/ InsertUnheard(r)

(* The steps that answer the request with a row that was there.            *)
Finds(r, u) == Login(r, u) \/ OAuthFind(r, u) \/ OAuthRetryFinds(r, u)

(* A step is of one of these three sorts.                                  *)
LEMMA NextCases ==
  ASSUME Next
  PROVE  \E r \in Requests : Moves(r) \/ Inserts(r) \/ \E u \in users : Finds(r, u)
  BY DEF Next, Step, Moves, Inserts, Finds

(* What Moves changes.                                                     *)
LEMMA MovesEffect ==
  ASSUME TypeOK, NEW r \in Requests, Moves(r)
  PROVE  /\ UNCHANGED <<users, arg, session>>
         /\ pc' \in [Requests -> {"new", "selectEmail", "insert", "verify", "selectSub",
                          "selectOther", "insertOAuth", "retry"} \union Outcomes]
         /\ pc' = [pc EXCEPT ![r] = pc'[r]]
         /\ pc'[r] # "ok"
         /\ pc'[r] = "conflict" => ByEmail(arg[r].email) # {} \/ pc[r] \in {"insert", "retry"}
         /\ pc'[r] = "retry" => Violates(NewUser(r))
  BY DEF TypeOK, Moves, Start, SignupSelect, SignupLosesRace, LoginRejected,
     OAuthNotFound, OAuthSelectEmail, OAuthLosesRace, OAuthRetryFails, Fail, GoTo

(* What Inserts changes.                                                   *)
LEMMA InsertsEffect ==
  ASSUME TypeOK, PathOfKind, NEW r \in Requests, Inserts(r)
  PROVE  /\ users' = users \union {NewUser(r)}
         /\ NewUser(r) \in Users
         /\ ~Violates(NewUser(r))
         /\ \/ /\ pc' = [pc EXCEPT ![r] = "ok"]
               /\ session' = [session EXCEPT ![r] = r]
            \/ /\ pc' = [pc EXCEPT ![r] = "error"]
               /\ UNCHANGED session
         /\ arg' = arg
         /\ arg[r].kind \in {"signup", "oauth"}
         /\ pc[r] # "ok"
<1>1. NewUser(r) \in Users
  BY DEF TypeOK, NewUser, Args, Users
<1>2. QED
  BY <1>1 DEF TypeOK, PathOfKind, Inserts, SignupInsert, OAuthInsert,
     InsertUnheard, Answer, GoTo, NewUser

(* What Finds changes.                                                     *)
LEMMA FindsEffect ==
  ASSUME TypeOK, PathOfKind, NEW r \in Requests, NEW u \in users, Finds(r, u)
  PROVE  /\ users' = users
         /\ pc' = [pc EXCEPT ![r] = "ok"]
         /\ session' = [session EXCEPT ![r] = u.id]
         /\ arg' = arg
         /\ \/ /\ arg[r].kind = "login"
               /\ Lower[u.email] = Lower[arg[r].email]
               /\ u.password = arg[r].password
            \/ arg[r].kind = "oauth" /\ u.sub = arg[r].sub
  BY DEF TypeOK, PathOfKind, Finds, Login, OAuthFind, OAuthRetryFinds, Answer,
     ByEmail, BySub

(* Rows carry a password or a subject id, never both, never neither.       *)
LEMMA NewUserIsOneSort ==
  ASSUME TypeOK, NEW r \in Requests
  PROVE  /\ arg[r].kind = "oauth" => arg[r].password = None /\ arg[r].sub \in Subs
         /\ arg[r].kind # "oauth" => arg[r].password \in Passwords /\ arg[r].sub = None
  BY DEF TypeOK, Args

(* Requests are of three kinds.                                            *)
LEMMA ArgKinds ==
  ASSUME TypeOK, NEW r \in Requests
  PROVE  arg[r].kind \in {"signup", "login", "oauth"}
  BY DEF TypeOK, Args

-----------------------------------------------------------------------------
(* A step that only moves its request on preserves the invariant.          *)
LEMMA MovesInv ==
  ASSUME Inv, NEW r \in Requests, Moves(r)
  PROVE  Inv'
<1> USE DEF Inv
<1>1. TypeOK'
  BY MovesEffect DEF TypeOK
<1>2. PathOfKind'
  BY ArgKinds DEF TypeOK, PathOfKind, Moves, Start, SignupSelect, SignupLosesRace,
     LoginRejected, OAuthNotFound, OAuthSelectEmail, OAuthLosesRace,
     OAuthRetryFails, Fail, GoTo
<1>3. PasswordXorOAuth' /\ IdentitiesUnique'
  BY MovesEffect DEF PasswordXorOAuth, IdentitiesUnique
<1>4. RacesLeaveRows'
  BY MovesEffect DEF TypeOK, RacesLeaveRows, NewUser, Violates, ByEmail, BySub
<1>5. SessionsMatchIdentity'
  BY MovesEffect DEF TypeOK, SessionsMatchIdentity
<1>6. OneSignupWins'
  BY MovesEffect DEF TypeOK, OneSignupWins
<1>7. ConflictHasHolder'
  <2> SUFFICES ASSUME NEW q \in Requests, pc'[q] = "conflict"
               PROVE  ByEmail(arg[q].email) # {}
    BY MovesEffect DEF ConflictHasHolder, ByEmail
  <2>1. CASE q # r
    BY <2>1, MovesEffect DEF TypeOK, ConflictHasHolder
  <2>2. CASE q = r /\ pc[r] = "insert"
    <3>1. arg[r].sub = None
      BY <2>2, NewUserIsOneSort DEF PathOfKind
    <3>2. Violates(NewUser(r))
      BY <2>2 DEF TypeOK, Moves, Start, SignupSelect, SignupLosesRace,
         LoginRejected, OAuthNotFound, OAuthSelectEmail, OAuthLosesRace,
         OAuthRetryFails, Fail, GoTo
    <3>3. QED
      BY <2>2, <3>1, <3>2 DEF Violates, NewUser
  <2>3. CASE q = r /\ pc[r] = "retry"
    BY <2>3 DEF TypeOK, RacesLeaveRows, Moves, Start, SignupSelect, SignupLosesRace,
       LoginRejected, OAuthNotFound, OAuthSelectEmail, OAuthLosesRace,
       OAuthRetryFails, Fail, GoTo, Violates, NewUser
  <2>4. QED
    BY <2>1, <2>2, <2>3, MovesEffect
<1>8. QED
  BY <1>1, <1>2, <1>3, <1>4, <1>5, <1>6, <1>7

(* A step that inserts a row preserves the invariant.                      *)
LEMMA InsertsInv ==
  ASSUME Inv, NEW r \in Requests, Inserts(r)
  PROVE  Inv'
<1> USE DEF Inv
<1>1. TypeOK'
  BY InsertsEffect DEF TypeOK
<1>2. PathOfKind'
  BY InsertsEffect DEF TypeOK, PathOfKind
<1>3. PasswordXorOAuth'
  <2>1. (NewUser(r).password = None) # (NewUser(r).sub = None)
    BY InsertsEffect, NewUserIsOneSort DEF NewUser
  <2>2. QED
    BY <2>1, InsertsEffect DEF PasswordXorOAuth
<1>4. IdentitiesUnique'
  <2> SUFFICES ASSUME NEW u \in users', NEW v \in users',
                      Lower[u.email] = Lower[v.email] \/ (u.sub # None /\ u.sub = v.sub)
               PROVE  u = v
    BY DEF IdentitiesUnique
  <2>1. \A w \in users : /\ Lower[w.email] # Lower[NewUser(r).email]
                         /\ NewUser(r).sub # None => w.sub # NewUser(r).sub
    BY InsertsEffect DEF Violates, ByEmail, BySub
  <2>2. QED
    BY <2>1, InsertsEffect DEF IdentitiesUnique
<1>5. RacesLeaveRows'
  <2>1. /\ users \subseteq users'
        /\ NewUser(r) \in users'
        /\ \A q \in Requests : NewUser(q)' = NewUser(q)
    BY InsertsEffect DEF NewUser
  <2>2. \A v : Violates(v) => Violates(v)'
    BY <2>1 DEF Violates, ByEmail, BySub
  <2>3. \A q \in Requests \ {r} : pc'[q] = pc[q]
    BY InsertsEffect DEF TypeOK
  <2>4. pc'[r] \in {"ok", "error"}
    BY InsertsEffect DEF TypeOK
  <2>5. arg' = arg
    BY InsertsEffect
  <2> SUFFICES ASSUME NEW q \in Requests
               PROVE  /\ pc'[q] = "ok" /\ arg[q].kind = "signup" => NewUser(q) \in users'
                      /\ pc'[q] = "retry" => Violates(NewUser(q))'
    BY <2>1, <2>5 DEF RacesLeaveRows
  <2>6. CASE q = r
    BY <2>1, <2>4, <2>6
  <2>7. CASE q # r
    BY <2>1, <2>2, <2>3, <2>7 DEF RacesLeaveRows
  <2>8. QED
    BY <2>6, <2>7
<1>6. SessionsMatchIdentity'
  <2> SUFFICES ASSUME NEW q \in Requests, pc'[q] = "ok"
               PROVE  \E u \in users' : /\ u.id = session'[q]
                                        /\ u.sub = arg'[q].sub
                                        /\ u.password = arg'[q].password
                                        /\ arg'[q].kind # "oauth" =>
                                             Lower[u.email] = Lower[arg'[q].email]
    BY DEF SessionsMatchIdentity
  <2>1. CASE q = r
    <3>1. NewUser(r) \in users' /\ session'[r] = NewUser(r).id /\ arg' = arg
      BY <2>1, InsertsEffect DEF TypeOK, NewUser
    <3>2. QED
      BY <2>1, <3>1 DEF NewUser
  <2>2. CASE q # r
    BY <2>2, InsertsEffect DEF TypeOK, SessionsMatchIdentity
  <2>3. QED
    BY <2>1, <2>2
<1>7. OneSignupWins'
  <2>1. \A q \in Requests \ {r} :
          pc[q] = "ok" /\ arg[q].kind = "signup"
          => Lower[arg[q].email] # Lower[arg[r].email]
    <3>1. \A q \in Requests : NewUser(q).email = arg[q].email
      BY DEF NewUser
    <3>2. \A v \in users : Lower[v.email] # Lower[arg[r].email]
      BY <3>1, InsertsEffect DEF Violates, ByEmail
    <3>3. QED
      BY <3>1, <3>2 DEF RacesLeaveRows
  <2>2. QED
    BY <2>1, InsertsEffect DEF TypeOK, OneSignupWins
<1>8. ConflictHasHolder'
  BY InsertsEffect DEF TypeOK, ConflictHasHolder, ByEmail
<1>9. QED
  BY <1>1, <1>2, <1>3, <1>4, <1>5, <1>6, <1>7, <1>8

(* A step that answers with a row that was there preserves the invariant.  *)
LEMMA FindsInv ==
  ASSUME Inv, NEW r \in Requests, NEW u \in users, Finds(r, u)
  PROVE  Inv'
<1> USE DEF Inv
<1>1. TypeOK'
  BY FindsEffect DEF TypeOK, Users
<1>2. PathOfKind'
  BY FindsEffect DEF TypeOK, PathOfKind
<1>3. PasswordXorOAuth' /\ IdentitiesUnique'
  BY FindsEffect DEF PasswordXorOAuth, IdentitiesUnique
<1>4. RacesLeaveRows'
  BY FindsEffect DEF TypeOK, RacesLeaveRows, NewUser, Violates, ByEmail, BySub
<1>5. SessionsMatchIdentity'
  <2>1. /\ u.sub = arg[r].sub
        /\ u.password = arg[r].password
        /\ arg[r].kind # "oauth" => Lower[u.email] = Lower[arg[r].email]
    BY FindsEffect, NewUserIsOneSort DEF PasswordXorOAuth, TypeOK
  <2>2. QED
    BY <2>1, FindsEffect DEF TypeOK, SessionsMatchIdentity
<1>6. OneSignupWins'
  BY FindsEffect DEF TypeOK, OneSignupWins
<1>7. ConflictHasHolder'
  BY FindsEffect DEF TypeOK, ConflictHasHolder, ByEmail
<1>8. QED
  BY <1>1, <1>2, <1>3, <1>4, <1>5, <1>6, <1>7

(* Inv holds in every reachable state.                                     *)
THEOREM InvHolds == Spec => []Inv
<1>1. Inv /\ [Next]_vars => Inv'
  <2> SUFFICES ASSUME Inv, [Next]_vars PROVE Inv'
    OBVIOUS
  <2>1. CASE Next
    BY <2>1, NextCases, MovesInv, InsertsInv, FindsInv
  <2>2. CASE UNCHANGED vars
    BY <2>2 DEF vars, Inv, TypeOK, PathOfKind, PasswordXorOAuth, RacesLeaveRows,
       IdentitiesUnique, SessionsMatchIdentity, OneSignupWins, ConflictHasHolder,
       NewUser, Violates, ByEmail, BySub
  <2>3. QED
    BY <2>1, <2>2
<1>2. QED
  BY InitInv, <1>1, PTL DEF Spec

(* One account per address and per OAuth identity.                         *)
THEOREM IdentitiesCorrect == Spec => []IdentitiesUnique
  BY InvHolds, PTL DEF Inv

(* Every token is for the caller's own account.                            *)
THEOREM SessionsCorrect == Spec => []SessionsMatchIdentity
  BY InvHolds, PTL DEF Inv

(* One signup per address succeeds.                                        *)
THEOREM SignupsCorrect == Spec => []OneSignupWins
  BY InvHolds, PTL DEF Inv

(* Nobody is told that a free address is taken.                            *)
THEOREM ConflictsCorrect == Spec => []ConflictHasHolder
  BY InvHolds, PTL DEF Inv

(* The variables keep their types.                                         *)
THEOREM TypeCorrect == Spec => []TypeOK
  BY InvHolds, PTL DEF Inv

-----------------------------------------------------------------------------
(* The refinement. *)

(* A request that is not answered yet has been told nothing.               *)
LEMMA NothingTold ==
  ASSUME TypeOK, NEW r \in Requests, pc[r] \notin Outcomes
  PROVE  Told[r] = None
  BY DEF Told

(* A step of request r tells the others nothing new.                       *)
LEMMA ToldOne ==
  ASSUME TypeOK, NEW r \in Requests,
         \A q \in Requests \ {r} : UNCHANGED <<pc[q], session[q]>>
  PROVE  Told' = [Told EXCEPT ![r] = Told'[r]]
  BY DEF Told

(* The steps after which the request is still under way.                   *)
LEMMA StillUnderWay ==
  ASSUME TypeOK, NEW r \in Requests,
         pc[r] \notin Outcomes, pc' = [pc EXCEPT ![r] = pc'[r]],
         pc'[r] \notin Outcomes, UNCHANGED <<users, arg, session>>
  PROVE  UNCHANGED Dir!vars
<1>1. \A q \in Requests : Told'[q] = Told[q]
  BY DEF TypeOK, Told
<1>2. Told' = Told
  BY <1>1 DEF Told
<1>3. QED
  BY <1>2 DEF Dir!vars

(* A refusal decides its request and changes no account.                   *)
LEMMA RefusalDecides ==
  ASSUME TypeOK, NEW r \in Requests, NEW what \in Outcomes \ {"ok"},
         pc[r] \notin Outcomes, pc' = [pc EXCEPT ![r] = what],
         UNCHANGED <<users, arg, session>>
  PROVE  /\ Told[r] = None
         /\ Dir!Decide(r, [is |-> what])
<1>1. \A q \in Requests \ {r} : UNCHANGED <<pc[q], session[q]>>
  BY DEF TypeOK
<1>2. Told'[r] = [is |-> what]
  BY DEF TypeOK, Told
<1>3. QED
  BY <1>1, <1>2, NothingTold, ToldOne DEF Dir!Decide

(* An answer names the account.                                            *)
LEMMA AnswerDecides ==
  ASSUME TypeOK, NEW r \in Requests, NEW i,
         pc[r] \notin Outcomes, pc' = [pc EXCEPT ![r] = "ok"],
         session' = [session EXCEPT ![r] = i], UNCHANGED arg
  PROVE  /\ Told[r] = None
         /\ Dir!Decide(r, [is |-> "ok", id |-> i])
<1>1. \A q \in Requests \ {r} : UNCHANGED <<pc[q], session[q]>>
  BY DEF TypeOK
<1>2. Told'[r] = [is |-> "ok", id |-> i]
  BY DEF TypeOK, Told
<1>3. QED
  BY <1>1, <1>2, NothingTold, ToldOne DEF Dir!Decide

(* A 409 is a request turned away because of an account that has its       *)
(* address, whichever statement found out.                                 *)
LEMMA ConflictIsTurnAway ==
  ASSUME Inv, NEW r \in Requests,
         \/ SignupSelect(r) \/ SignupLosesRace(r)
         \/ OAuthSelectEmail(r) \/ OAuthRetryFails(r),
         pc'[r] = "conflict"
  PROVE  Dir!TurnAway(r)
<1> USE DEF Inv
<1>1. Dir!Open(r, {"signup", "oauth"}) /\ Dir!Trusted(r)
  BY NothingTold DEF PathOfKind, SignupSelect, SignupLosesRace, OAuthSelectEmail,
     OAuthRetryFails, Dir!Open, Dir!Trusted
<1>2. ByEmail(arg[r].email) # {}
  <2>1. CASE SignupSelect(r) \/ OAuthSelectEmail(r)
    BY <2>1 DEF TypeOK, SignupSelect, OAuthSelectEmail, GoTo
  <2>2. CASE SignupLosesRace(r)
    BY <2>2, NewUserIsOneSort DEF PathOfKind, SignupLosesRace, Violates, NewUser
  <2>3. CASE OAuthRetryFails(r)
    BY <2>3 DEF RacesLeaveRows, OAuthRetryFails, Violates, NewUser
  <2>4. QED
    BY <2>1, <2>2, <2>3
<1>3. Dir!Decide(r, [is |-> "conflict"])
  BY RefusalDecides DEF TypeOK, SignupSelect, SignupLosesRace, OAuthSelectEmail,
     OAuthRetryFails, GoTo
<1>4. UNCHANGED users
  BY DEF SignupSelect, SignupLosesRace, OAuthSelectEmail, OAuthRetryFails
<1>5. QED
  BY <1>1, <1>2, <1>3, <1>4 DEF ByEmail, Dir!TurnAway, Dir!SameAddress

(* A step that only moves its request on either decides it without an      *)
(* account or is not seen in the directory.                                *)
LEMMA MovesDirectory ==
  ASSUME Inv, NEW r \in Requests, Moves(r)
  PROVE  [Dir!Next]_(Dir!vars)
<1> USE DEF Inv
<1>1. pc[r] \notin Outcomes
  BY DEF Moves, Start, SignupSelect, SignupLosesRace, LoginRejected,
     OAuthNotFound, OAuthSelectEmail, OAuthLosesRace, OAuthRetryFails, Fail
<1>2. CASE pc'[r] \notin Outcomes
  BY <1>1, <1>2, MovesEffect, StillUnderWay
<1>3. CASE pc'[r] = "conflict"
  <2>1. \/ SignupSelect(r) \/ SignupLosesRace(r)
        \/ OAuthSelectEmail(r) \/ OAuthRetryFails(r)
    BY <1>3 DEF TypeOK, Moves, Start, LoginRejected, OAuthNotFound,
       OAuthLosesRace, Fail, GoTo
  <2>2. QED
    BY <1>3, <2>1, ConflictIsTurnAway DEF Dir!Next
<1>4. CASE pc'[r] = "unauthorized"
  <2>1. LoginRejected(r)
    BY <1>4 DEF TypeOK, Moves, Start, SignupSelect, SignupLosesRace, OAuthNotFound,
       OAuthSelectEmail, OAuthLosesRace, OAuthRetryFails, Fail, GoTo
  <2>2. Told[r] = None /\ Dir!Decide(r, [is |-> "unauthorized"])
    BY <1>1, <2>1, RefusalDecides DEF LoginRejected, GoTo
  <2>3. \A u \in users : ~Dir!Opens(r, u)
    BY <2>1 DEF PathOfKind, LoginRejected, ByEmail, Dir!Opens, Dir!SameAddress
  <2>4. Dir!Reject(r)
    BY <2>1, <2>2, <2>3 DEF PathOfKind, LoginRejected, Dir!Reject, Dir!Open
  <2>5. QED
    BY <2>4 DEF Dir!Next
<1>5. CASE pc'[r] = "badRequest"
  <2>1. Start(r) /\ arg[r].kind = "oauth" /\ ~arg[r].verified
    BY <1>5, ArgKinds DEF TypeOK, Moves, Start, SignupSelect, SignupLosesRace,
       LoginRejected, OAuthNotFound, OAuthSelectEmail, OAuthLosesRace,
       OAuthRetryFails, Fail, GoTo
  <2>2. Told[r] = None /\ Dir!Decide(r, [is |-> "badRequest"])
    BY <1>1, <2>1, RefusalDecides DEF Start, GoTo
  <2>3. Dir!Distrust(r)
    BY <2>1, <2>2 DEF Start, Dir!Distrust, Dir!Open, Dir!Trusted
  <2>4. QED
    BY <2>3 DEF Dir!Next
<1>6. CASE pc'[r] = "error"
  <2>1. Fail(r)
    BY <1>6 DEF TypeOK, Moves, Start, SignupSelect, SignupLosesRace, LoginRejected,
       OAuthNotFound, OAuthSelectEmail, OAuthLosesRace, OAuthRetryFails, GoTo
  <2>2. Told[r] = None /\ Dir!Decide(r, [is |-> "error"])
    BY <1>1, <2>1, RefusalDecides DEF Fail, GoTo
  <2>3. Dir!Break(r)
    BY <2>1, <2>2 DEF Fail, Dir!Break
  <2>4. QED
    BY <2>3 DEF Dir!Next
<1>7. QED
  BY <1>2, <1>3, <1>4, <1>5, <1>6, MovesEffect

(* An insertion registers an account, heard of or not.                     *)
LEMMA InsertsDirectory ==
  ASSUME Inv, NEW r \in Requests, Inserts(r)
  PROVE  Dir!Register(r)
<1> USE DEF Inv
<1>1. pc[r] \in {"insert", "insertOAuth"}
  BY DEF Inserts, SignupInsert, OAuthInsert, InsertUnheard
<1>2. Dir!Open(r, {"signup", "oauth"}) /\ Dir!Trusted(r)
  BY <1>1, NothingTold DEF PathOfKind, Dir!Open, Dir!Trusted
<1>3. \A u \in users : /\ ~Dir!SameAddress(u, r)
                       /\ arg[r].sub # None => u.sub # arg[r].sub
  BY InsertsEffect DEF Violates, ByEmail, BySub, NewUser, Dir!SameAddress
<1>4. users' = users \union
        {[id |-> r, email |-> arg[r].email, password |-> arg[r].password,
          sub |-> arg[r].sub]}
  BY InsertsEffect DEF NewUser
<1>5. Dir!Decide(r, [is |-> "ok", id |-> r]) \/ Dir!Decide(r, [is |-> "error"])
  <2>1. CASE /\ pc' = [pc EXCEPT ![r] = "ok"]
             /\ session' = [session EXCEPT ![r] = r]
    BY <1>1, <2>1, InsertsEffect, AnswerDecides
  <2>2. CASE pc' = [pc EXCEPT ![r] = "error"] /\ UNCHANGED session
    <3>1. \A q \in Requests \ {r} : UNCHANGED <<pc[q], session[q]>>
      BY <2>2 DEF TypeOK
    <3>2. Told'[r] = [is |-> "error"]
      BY <2>2 DEF TypeOK, Told
    <3>3. QED
      BY <3>1, <3>2, ToldOne, InsertsEffect DEF Dir!Decide
  <2>3. QED
    BY <2>1, <2>2, InsertsEffect
<1>6. QED
  BY <1>2, <1>3, <1>4, <1>5 DEF Dir!Register

(* A request that finds its row enters the account it opens.               *)
LEMMA FindsDirectory ==
  ASSUME Inv, NEW r \in Requests, NEW u \in users, Finds(r, u)
  PROVE  Dir!Enter(r)
<1> USE DEF Inv
<1>1. pc[r] \in {"verify", "selectSub", "retry"}
  BY DEF Finds, Login, OAuthFind, OAuthRetryFinds
<1>2. Dir!Open(r, {"login", "oauth"}) /\ Dir!Trusted(r)
  BY <1>1, NothingTold DEF PathOfKind, Dir!Open, Dir!Trusted
<1>3. Dir!Opens(r, u)
  BY FindsEffect DEF Dir!Opens, Dir!SameAddress
<1>4. Dir!Decide(r, [is |-> "ok", id |-> u.id])
  BY <1>1, FindsEffect, AnswerDecides
<1>5. QED
  BY <1>2, <1>3, <1>4, FindsEffect DEF Dir!Enter

(* The statements of authService.ts, interleaved in any way, implement the *)
(* directory, whose requests are decided in one instant.                   *)
THEOREM AccountsImplementDirectory == Spec => ImplementsDirectory
<1>1. Init => Dir!Init
  BY DEF Init, Dir!Init, Told
<1>2. Inv /\ [Next]_vars => [Dir!Next]_(Dir!vars)
  <2> SUFFICES ASSUME Inv, [Next]_vars
               PROVE  [Dir!Next]_(Dir!vars)
    OBVIOUS
  <2>1. CASE Next
    BY <2>1, NextCases, MovesDirectory, InsertsDirectory, FindsDirectory
       DEF Dir!Next
  <2>2. CASE UNCHANGED vars
    BY <2>2 DEF vars, Dir!vars, Told
  <2>3. QED
    BY <2>1, <2>2
<1>3. QED
  BY InvHolds, <1>1, <1>2, PTL DEF Spec, ImplementsDirectory, Dir!Spec

(* The directory alone keeps accounts apart: whatever implements it, as    *)
(* Accounts does, has one account per address and per identity.            *)
THEOREM DirectoryKeepsAccountsApart == Dir!Spec => []IdentitiesUnique
<1>1. Dir!Init => IdentitiesUnique
  BY DEF Dir!Init, IdentitiesUnique
<1>2. IdentitiesUnique /\ [Dir!Next]_(Dir!vars) => IdentitiesUnique'
  <2> SUFFICES ASSUME IdentitiesUnique, [Dir!Next]_(Dir!vars)
               PROVE  IdentitiesUnique'
    OBVIOUS
  <2>1. ASSUME NEW r \in Requests, Dir!Register(r)
        PROVE  IdentitiesUnique'
    <3> DEFINE new == [id |-> r, email |-> arg[r].email, password |-> arg[r].password,
                       sub |-> arg[r].sub]
    <3>1. users' = users \union {new}
      BY <2>1 DEF Dir!Register
    <3>2. \A u \in users :
            /\ Lower[u.email] # Lower[new.email]
            /\ new.sub # None => u.sub # new.sub
      BY <2>1 DEF Dir!Register, Dir!SameAddress
    <3> HIDE DEF new
    <3>3. QED
      BY <3>1, <3>2 DEF IdentitiesUnique
  <2>2. UNCHANGED users => IdentitiesUnique'
    BY DEF IdentitiesUnique
  <2>3. QED
    BY <2>1, <2>2 DEF Dir!Next, Dir!Enter, Dir!TurnAway, Dir!Reject, Dir!Distrust,
       Dir!Break, Dir!vars
<1>3. QED
  BY <1>1, <1>2, PTL DEF Dir!Spec
=============================================================================
