------------------------------ MODULE Directory ------------------------------
(***************************************************************************)
(* What the accounts promise: one per address and per Google identity,     *)
(* opened only by the password or the identity it was made with, and every *)
(* request decided in one instant.  Accounts.tla has the statements of     *)
(* authService.ts, with no transaction around them, that implement it.     *)
(*                                                                         *)
(* Two things a reader may not expect are allowed, as the code does them:  *)
(* a request that ends in an error may have made its account, and a Google *)
(* sign-in may be turned away by an account of its own identity.           *)
(***************************************************************************)
CONSTANTS
  Requests,
  Lower,     \* the class of the spellings of an address
  Asks,      \* what a request may bring, see Accounts.tla
  None       \* no password, no identity, no answer yet

VARIABLES
  accounts,  \* [id, email, password, sub]; the id is the request it was made for
  asked,     \* what each request brings
  answer     \* what it is answered

vars == <<accounts, asked, answer>>

Init ==
  /\ accounts = {}
  /\ asked \in [Requests -> Asks]
  /\ answer = [r \in Requests |-> None]

(* Request r is of one of the kinds and not yet decided.                   *)
Open(r, kinds) == answer[r] = None /\ asked[r].kind \in kinds

Decide(r, what) ==
  /\ answer' = [answer EXCEPT ![r] = what]
  /\ UNCHANGED asked

(* Google vouches for the address, or a password needs no vouching.        *)
Trusted(r) == asked[r].kind = "oauth" => asked[r].verified

SameAddress(u, r) == Lower[u.email] = Lower[asked[r].email]

(* The request shows what opens account u.                                 *)
Opens(r, u) ==
  IF asked[r].kind = "oauth" THEN u.sub = asked[r].sub
  ELSE SameAddress(u, r) /\ u.password = asked[r].password

(* Nobody has the request's address or identity: it gets an account.       *)
Register(r) ==
  /\ Open(r, {"signup", "oauth"}) /\ Trusted(r)
  /\ \A u \in accounts :
       ~SameAddress(u, r) /\ (asked[r].sub # None => u.sub # asked[r].sub)
  /\ accounts' = accounts \union
       {[id |-> r, email |-> asked[r].email, password |-> asked[r].password,
         sub |-> asked[r].sub]}
  /\ Decide(r, [is |-> "ok", id |-> r]) \/ Decide(r, [is |-> "error"])

(* The request is let into the account it opens.                           *)
Enter(r) ==
  /\ Open(r, {"login", "oauth"}) /\ Trusted(r)
  /\ \E u \in accounts : Opens(r, u) /\ Decide(r, [is |-> "ok", id |-> u.id])
  /\ UNCHANGED accounts

(* The address is taken.                                                   *)
TurnAway(r) ==
  /\ Open(r, {"signup", "oauth"}) /\ Trusted(r)
  /\ \E u \in accounts : SameAddress(u, r)
  /\ Decide(r, [is |-> "conflict"])
  /\ UNCHANGED accounts

(* There is no such account or it has another password.                    *)
Reject(r) ==
  /\ Open(r, {"login"})
  /\ \A u \in accounts : ~Opens(r, u)
  /\ Decide(r, [is |-> "unauthorized"])
  /\ UNCHANGED accounts

Distrust(r) ==
  /\ Open(r, {"oauth"}) /\ ~Trusted(r)
  /\ Decide(r, [is |-> "badRequest"])
  /\ UNCHANGED accounts

Break(r) ==
  /\ answer[r] = None
  /\ Decide(r, [is |-> "error"])
  /\ UNCHANGED accounts

Next ==
  \E r \in Requests :
    Register(r) \/ Enter(r) \/ TurnAway(r) \/ Reject(r) \/ Distrust(r) \/ Break(r)

Spec == Init /\ [][Next]_vars
=============================================================================
