------------------------------- MODULE Accounts -------------------------------
(***************************************************************************)
(* The users table and the requests that read and extend it: signup, login *)
(* and the Google sign-in (authService.ts), each await a step of its own.  *)
(*                                                                         *)
(* No route changes or deletes a user.  E-mail addresses are compared by   *)
(* lower(email); Lower gives the class of a spelling.  A password stands   *)
(* for everything bcrypt accepts as that password.                         *)
(***************************************************************************)
EXTENDS Naturals

CONSTANTS
  Requests,   \* the requests, each handled once
  Emails,     \* spellings of e-mail addresses
  Lower,      \* lower(email)
  Passwords,
  Subs,       \* Google's subject ids: the OAuth identities
  None        \* SQL NULL, and no answer yet

ASSUME AccountsAssumption ==
  /\ Lower \in [Emails -> Emails]
  /\ None \notin Passwords
  /\ None \notin Subs

(* What a request brings: a password, or a subject id Google vouches for   *)
(* with an address Google has verified or not.                             *)
Args == [kind : {"signup", "login"}, email : Emails, password : Passwords,
         sub : {None}, verified : {FALSE}]
        \union
        [kind : {"oauth"}, email : Emails, password : {None},
         sub : Subs, verified : BOOLEAN]

(* A row of users; its id is the request that inserted it.                 *)
Users == [id : Requests, email : Emails, password : Passwords \union {None},
          sub : Subs \union {None}]

VARIABLES
  users,   \* the committed rows
  pc,      \* where each request is
  arg,     \* what each request was called with
  session  \* the id each request was given a token for

vars == <<users, pc, arg, session>>

Outcomes == {"ok", "conflict", "unauthorized", "badRequest", "error"}

TypeOK ==
  /\ users \in SUBSET Users
  /\ pc \in [Requests -> {"new", "selectEmail", "insert", "verify", "selectSub",
                          "selectOther", "insertOAuth", "retry"} \union Outcomes]
  /\ arg \in [Requests -> Args]
  /\ session \in [Requests -> Requests \union {None}]

Init ==
  /\ users = {}
  /\ pc = [r \in Requests |-> "new"]
  /\ arg \in [Requests -> Args]
  /\ session = [r \in Requests |-> None]

-----------------------------------------------------------------------------
(* The SELECTs and the unique indexes. *)

ByEmail(e) == {u \in users : Lower[u.email] = Lower[e]}
BySub(s)   == {u \in users : u.sub = s}

GoTo(r, label) == pc' = [pc EXCEPT ![r] = label] /\ UNCHANGED <<arg, session>>

(* The request is answered with user u and a token for it.                 *)
Answer(r, u) ==
  /\ pc' = [pc EXCEPT ![r] = "ok"]
  /\ session' = [session EXCEPT ![r] = u.id]
  /\ UNCHANGED arg

NewUser(r) == [id |-> r, email |-> arg[r].email, password |-> arg[r].password,
               sub |-> arg[r].sub]

(* Mutant: the unique index is on email instead of lower(email). *)
ViolatesExactly(u) == \E v \in users : v.email = u.email \/ (u.sub # None /\ v.sub = u.sub)

(* The INSERT would break users_email_lower_unique_idx or                  *)
(* users_oauth_identity_unique (where NULLs are distinct).                 *)
Violates(u) == ByEmail(u.email) # {} \/ (u.sub # None /\ BySub(u.sub) # {})

(* Mutant: emailVerified is not looked at. *)
StartUnchecked(r) ==
  /\ pc[r] = "new"
  /\ GoTo(r, IF arg[r].kind = "signup" THEN "selectEmail"
             ELSE IF arg[r].kind = "login" THEN "verify" ELSE "selectSub")
  /\ UNCHANGED users

Start(r) ==
  /\ pc[r] = "new"
  /\ GoTo(r, IF arg[r].kind = "signup" THEN "selectEmail"
             ELSE IF arg[r].kind = "login" THEN "verify"
             ELSE IF arg[r].verified THEN "selectSub" ELSE "badRequest")
  /\ UNCHANGED users

-----------------------------------------------------------------------------
(* signup *)

SignupSelect(r) ==
  /\ pc[r] = "selectEmail"
  /\ GoTo(r, IF ByEmail(arg[r].email) # {} THEN "conflict" ELSE "insert")
  /\ UNCHANGED users

SignupInsert(r) ==
  /\ pc[r] = "insert"
  /\ ~Violates(NewUser(r))
  /\ users' = users \union {NewUser(r)}
  /\ Answer(r, NewUser(r))

(* Mutant: the loser of the race is given the winner's account. *)
SignupSharesRow(r) ==
  /\ pc[r] = "insert"
  /\ \E u \in ByEmail(arg[r].email) : Answer(r, u)
  /\ UNCHANGED users

(* 23505: a concurrent signup took the address since the pre-check.        *)
SignupLosesRace(r) ==
  /\ pc[r] = "insert"
  /\ Violates(NewUser(r))
  /\ GoTo(r, "conflict")
  /\ UNCHANGED users

-----------------------------------------------------------------------------
(* login: one SELECT, then bcrypt on the hash it returned. *)

Login(r, u) ==
  /\ pc[r] = "verify"
  /\ u \in ByEmail(arg[r].email)
  /\ u.password = arg[r].password
  /\ Answer(r, u)
  /\ UNCHANGED users

LoginRejected(r) ==
  /\ pc[r] = "verify"
  /\ \A u \in ByEmail(arg[r].email) : u.password # arg[r].password
  /\ GoTo(r, "unauthorized")
  /\ UNCHANGED users

-----------------------------------------------------------------------------
(* findOrCreateOAuthUser, which Start turns away without a verified address. *)

OAuthFind(r, u) ==
  /\ pc[r] = "selectSub"
  /\ u \in BySub(arg[r].sub)
  /\ Answer(r, u)
  /\ UNCHANGED users

OAuthNotFound(r) ==
  /\ pc[r] = "selectSub"
  /\ BySub(arg[r].sub) = {}
  /\ GoTo(r, "selectOther")
  /\ UNCHANGED users

(* Mutant: an account that holds the address is linked automatically. *)
OAuthAutoLink(r) ==
  /\ pc[r] = "selectOther"
  /\ \/ \E u \in ByEmail(arg[r].email) : Answer(r, u)
     \/ ByEmail(arg[r].email) = {} /\ GoTo(r, "insertOAuth")
  /\ UNCHANGED users

(* The address is looked up; an account that holds it is not linked.       *)
OAuthSelectEmail(r) ==
  /\ pc[r] = "selectOther"
  /\ GoTo(r, IF ByEmail(arg[r].email) # {} THEN "conflict" ELSE "insertOAuth")
  /\ UNCHANGED users

OAuthInsert(r) ==
  /\ pc[r] = "insertOAuth"
  /\ ~Violates(NewUser(r))
  /\ users' = users \union {NewUser(r)}
  /\ Answer(r, NewUser(r))

(* 23505, on either index.                                                 *)
OAuthLosesRace(r) ==
  /\ pc[r] = "insertOAuth"
  /\ Violates(NewUser(r))
  /\ GoTo(r, "retry")
  /\ UNCHANGED users

(* Mutant: the winner's row is looked up by address. *)
OAuthRetryByEmail(r, u) ==
  /\ pc[r] = "retry"
  /\ u \in ByEmail(arg[r].email)
  /\ Answer(r, u)
  /\ UNCHANGED users

(* The same identity was inserted concurrently: return the winner's row.   *)
OAuthRetryFinds(r, u) ==
  /\ pc[r] = "retry"
  /\ u \in BySub(arg[r].sub)
  /\ Answer(r, u)
  /\ UNCHANGED users

OAuthRetryFails(r) ==
  /\ pc[r] = "retry"
  /\ BySub(arg[r].sub) = {}
  /\ GoTo(r, "conflict")
  /\ UNCHANGED users

-----------------------------------------------------------------------------
(* A statement, or the hashing before it, throws: 500, nothing is written. *)
Fail(r) ==
  /\ pc[r] \notin Outcomes
  /\ GoTo(r, "error")
  /\ UNCHANGED users

(* Postgres commits the INSERT and the connection fails before its reply:  *)
(* that is no 23505, so the error is thrown on, and the row stays.         *)
InsertUnheard(r) ==
  /\ pc[r] \in {"insert", "insertOAuth"}
  /\ ~Violates(NewUser(r))
  /\ users' = users \union {NewUser(r)}
  /\ GoTo(r, "error")

-----------------------------------------------------------------------------
Step(r) ==
  \/ Start(r) \/ Fail(r) \/ InsertUnheard(r)
  \/ SignupSelect(r) \/ SignupInsert(r) \/ SignupLosesRace(r)
  \/ LoginRejected(r)
  \/ OAuthNotFound(r) \/ OAuthSelectEmail(r)
  \/ OAuthInsert(r) \/ OAuthLosesRace(r) \/ OAuthRetryFails(r)
  \/ \E u \in users : Login(r, u) \/ OAuthFind(r, u) \/ OAuthRetryFinds(r, u)

Next == \E r \in Requests : Step(r)

Spec == Init /\ [][Next]_vars

-----------------------------------------------------------------------------
(* One account per address and per OAuth identity, whatever races: the     *)
(* pre-checks are not the guarantee, the indexes are (authService.ts:51-56,*)
(* create-users-table.ts:44-61).                                           *)
IdentitiesUnique ==
  \A u, v \in users :
    Lower[u.email] = Lower[v.email] \/ (u.sub # None /\ u.sub = v.sub) => u = v

(* Nobody gets a token for an account that is not theirs: a Google sign-in *)
(* ends in the account of its subject id, never in one that happens to     *)
(* have the address; a password only opens the account it was set on       *)
(* (authService.ts:135-149, 120-131).                                      *)
SessionsMatchIdentity ==
  \A r \in Requests : pc[r] = "ok" =>
    \E u \in users : /\ u.id = session[r]
                     /\ u.sub = arg[r].sub
                     /\ u.password = arg[r].password
                     /\ arg[r].kind # "oauth" => Lower[u.email] = Lower[arg[r].email]

(* Of the signups for an address at most one succeeds; the others are told *)
(* that it is taken, not given the winner's account (authService.ts:211-215)*)
OneSignupWins ==
  \A q, r \in Requests :
    /\ pc[q] = "ok" /\ arg[q].kind = "signup"
    /\ pc[r] = "ok" /\ arg[r].kind = "signup"
    /\ Lower[arg[q].email] = Lower[arg[r].email]
    => q = r

(* A 409 is never given for a free address.                                *)
ConflictHasHolder ==
  \A r \in Requests : pc[r] = "conflict" => ByEmail(arg[r].email) # {}

(* A request stays on the path of its kind, and only a sign-in with a      *)
(* verified address gets to the table.                                     *)
PathOfKind ==
  \A r \in Requests :
    /\ pc[r] \in {"selectEmail", "insert"} => arg[r].kind = "signup"
    /\ pc[r] = "verify" => arg[r].kind = "login"
    /\ pc[r] \in {"selectSub", "selectOther", "insertOAuth", "retry"} =>
         arg[r].kind = "oauth" /\ arg[r].verified

(* A signup that succeeded has its own row in the table, and a sign-in     *)
(* that lost its race has lost it to a row that is still there.            *)
RacesLeaveRows ==
  \A r \in Requests :
    /\ pc[r] = "ok" /\ arg[r].kind = "signup" => NewUser(r) \in users
    /\ pc[r] = "retry" => Violates(NewUser(r))

(* users_password_xor_oauth_check.                                         *)
PasswordXorOAuth == \A u \in users : (u.password = None) # (u.sub = None)

(* The inductive invariant.                                                *)
Inv == /\ TypeOK /\ PathOfKind /\ PasswordXorOAuth /\ RacesLeaveRows
       /\ IdentitiesUnique /\ SessionsMatchIdentity /\ OneSignupWins /\ ConflictHasHolder

(* "a match there is necessarily a *password* account" (authService.ts:144) *)
(* and concurrent logins of one Google account all get it (211-216): a     *)
(* sign-in is turned away only when its identity has no account.           *)
OAuthConflictIsForeign ==
  [][\A r \in Requests :
       arg[r].kind = "oauth" /\ pc[r] # "conflict" /\ pc'[r] = "conflict"
         => BySub(arg[r].sub) = {}]_vars

-----------------------------------------------------------------------------
(* What the caller of each request is told.                                *)
Told == [r \in Requests |->
           IF pc[r] = "ok" THEN [is |-> "ok", id |-> session[r]]
           ELSE IF pc[r] \in Outcomes THEN [is |-> pc[r]]
           ELSE None]

Dir == INSTANCE Directory WITH
  Asks <- Args, accounts <- users, asked <- arg, answer <- Told

(* Whatever statements of others come between its own, every request is as *)
(* if it were decided in one instant: the pre-checks, the two indexes and  *)
(* the retry add up to that (authService.ts:45-56, 134-165, 211-216).      *)
ImplementsDirectory == Dir!Spec
=============================================================================
