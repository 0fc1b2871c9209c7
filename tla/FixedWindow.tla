----------------------------- MODULE FixedWindow -----------------------------
(***************************************************************************)
(* What the limiters promise whoever is behind them: each identity (a      *)
(* client's address, a user, an address at one link) has a fixed window of *)
(* its own, as if one process counted in its memory and knew every client. *)
(* A request is decided in one instant by the window of its own identity,  *)
(* unless it is let through uncounted.  RateLimit.tla has the processes,   *)
(* proxies, scripts and outages that implement it.                         *)
(***************************************************************************)
EXTENDS Naturals

CONSTANTS
  Requests,
  Identities,  \* whom the limiters tell apart
  Limit,       \* how many requests of an identity pass in one of its windows
  Window,      \* how long its windows are
  None         \* nobody yet, no window yet

VARIABLES
  now,
  window,   \* the hits in the window of each identity, and when it ends
  payer,    \* whose budget each request is on
  verdict   \* "pending", "passed", "blocked" or "uncounted"

vars == <<now, window, payer, verdict>>

Init ==
  /\ now = 0
  /\ window = [k \in Identities |-> None]
  /\ payer = [r \in Requests |-> None]
  /\ verdict = [r \in Requests |-> "pending"]

Open(k) == window[k] # None /\ window[k].ends > now

\* The window of identity k after one more hit: the first one opens it.
Counted(k) ==
  IF Open(k) THEN [window[k] EXCEPT !.hits = @ + 1]
  ELSE [hits |-> 1, ends |-> now + Window[k]]

Pending(r) == payer[r] # None /\ verdict[r] = "pending"

Ask(r, k) ==
  /\ payer[r] = None
  /\ payer' = [payer EXCEPT ![r] = k]
  /\ UNCHANGED <<now, window, verdict>>

\* The request takes a hit of its own window, which decides it.
Decide(r) ==
  /\ Pending(r)
  /\ window' = [window EXCEPT ![payer[r]] = Counted(payer[r])]
  /\ verdict' = [verdict EXCEPT ![r] =
                   IF Counted(payer[r]).hits > Limit[payer[r]] THEN "blocked" ELSE "passed"]
  /\ UNCHANGED <<now, payer>>

\* A hit is taken and the request does not hear of it.
Waste(r) ==
  /\ Pending(r)
  /\ window' = [window EXCEPT ![payer[r]] = Counted(payer[r])]
  /\ UNCHANGED <<now, payer, verdict>>

\* The store fails: the request passes uncounted.
Skip(r) ==
  /\ Pending(r)
  /\ verdict' = [verdict EXCEPT ![r] = "uncounted"]
  /\ UNCHANGED <<now, window, payer>>

\* The store comes back empty.
Forget ==
  /\ window' = [k \in Identities |-> None]
  /\ UNCHANGED <<now, payer, verdict>>

Pass == now' = now + 1 /\ UNCHANGED <<window, payer, verdict>>

Next ==
  \/ \E r \in Requests :
       (\E k \in Identities : Ask(r, k)) \/ Decide(r) \/ Waste(r) \/ Skip(r)
  \/ Forget
  \/ Pass

Spec == Init /\ [][Next]_vars
==============================================================================
