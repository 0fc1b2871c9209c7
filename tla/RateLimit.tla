------------------------------ MODULE RateLimit ------------------------------
(***************************************************************************)
(* The four rate limiters (middleware/rateLimit.ts) of several API         *)
(* processes that share one Redis: fixed windows kept by a script that     *)
(* Redis runs atomically (rate-limit-redis, external), keys derived from   *)
(* the client's address behind TRUST_PROXY proxies (app.ts:39) or from the *)
(* user's id, requests that pass uncounted when the store fails            *)
(* (passOnStoreError), a script that is loaded once at the start of a      *)
(* process, and commands that ioredis sends again after a lost connection. *)
(*                                                                         *)
(* Redis's clock is the only clock.  Validation, the handlers behind the   *)
(* limiter and the headers of the answer change no state of it.            *)
(***************************************************************************)
EXTENDS Integers, Sequences, FiniteSets

CONSTANTS
  Requests,     \* requests to routes that have a limiter
  Processes,    \* API processes, each with its own connection and script
  Addresses,    \* clients', proxies', and those a header claims; an IPv6 one is
                \* its subnet, as ipKeyGenerator makes of it
  Users,        \* subjects of session tokens
  Codes,        \* path segments of POST /:shortCode/unlock, cut to the length
                \* of an alias
  Arrivals,     \* the requests that may come in, see ArrivalsAssumption
  Proxies,      \* the addresses of the proxies in front of the API, in order
  TrustProxy,   \* config.TRUST_PROXY
  Limit,        \* the max of each limiter
  Window,       \* the windowSeconds of each limiter
  MaxRetries,   \* maxRetriesPerRequest of the connection
  MaxOutages,   \* bound: outages of Redis and connections lost with a reply
  MaxTime,      \* bound: the last instant
  None          \* no user, no code, no counter

Limiters == {"auth-signup", "auth-login", "redirect-unlock", "links-create"}

ASSUME ArrivalsAssumption ==
  Arrivals \subseteq [process: Processes, limiter: Limiters,
                      client: Addresses, header: Seq(Addresses),
                      user: Users \cup {None}, code: Codes \cup {None}]

ASSUME LimitAssumption ==
  /\ Limit \in [Limiters -> Nat \ {0}]
  /\ Window \in [Limiters -> Nat \ {0}]
  /\ {MaxRetries, MaxOutages, MaxTime} \subseteq Nat

\* TRUST_PROXY is the number of proxies, as app.ts:41-57 asks of a deployment.
ASSUME DeploymentAssumption ==
  /\ Proxies \in Seq(Addresses)
  /\ TrustProxy = Len(Proxies)
  /\ None \notin Users \cup Addresses \cup Codes
  /\ None \notin [hits: Nat, ends: Nat] \cup Arrivals
  /\ None \notin Limiters \X (Users \cup Addresses) \X (Codes \cup {None})

VARIABLES
  now,       \* Redis's clock
  up,        \* Redis answers
  cached,    \* Redis knows the script (it forgets it when it restarts)
  outages,   \* outages and lost connections so far (for the bound)
  gen,       \* how often Redis came back without the counters (history)
  store,     \* the counter of each key, or None
  script,    \* of each process: the cached promise of its script load
  pc,        \* where each request is
  arg,       \* the arrival it came in as
  runs,      \* the runs of the script for it, the last one answered
  outage     \* requests and loads that met an outage (history)

vars == <<now, up, cached, outages, gen, store, script, pc, arg, runs, outage>>

\* What only an outage changes.
redis == <<up, outages, gen>>

(***************************************************************************)
(* Keys                                                                    *)
(***************************************************************************)

\* Mutant: 'trust proxy' true believes the leftmost address of the header.
AddressClaimed(a) == (a.header \o <<a.client>>)[1]

\* Mutant: 'trust proxy' 0 behind proxies takes the address of the socket.
AddressOfSocket(a) == (<<a.client>> \o Proxies)[1 + Len(Proxies)]

\* req.ip: each proxy appends the address it was called from to
\* X-Forwarded-For, and Express walks back TRUST_PROXY hops from the socket.
Address(a) ==
  LET seen == a.header \o <<a.client>> \o Proxies
  IN seen[IF Len(seen) > TrustProxy THEN Len(seen) - TrustProxy ELSE 1]

\* The identity a limiter means to bound: the user of a link creation, the
\* address and the link of an unlock, the address otherwise.
Identity(a, address) ==
  << a.limiter,
     IF a.limiter = "links-create" /\ a.user # None THEN a.user ELSE address,
     IF a.limiter = "redirect-unlock" THEN a.code ELSE None >>

\* The key of a request in Redis, and the identity it should stand for.
Key(a) == Identity(a, Address(a))
Payer(a) == Identity(a, a.client)

Keys == {Key(a) : a \in Arrivals}

(***************************************************************************)
(* The script                                                              *)
(***************************************************************************)

\* Mutant: windowMs is given the seconds.
HitUnscaled(k) ==
  IF store[k] = None \/ store[k].ends <= now
  THEN [hits |-> 1, ends |-> now + 1]
  ELSE [store[k] EXCEPT !.hits = @ + 1]

\* Mutant: every hit moves the end of its window.
HitSliding(k) ==
  [hits |-> IF store[k] = None \/ store[k].ends <= now THEN 1 ELSE store[k].hits + 1,
   ends |-> now + Window[k[1]]]

\* The counter of key k after a hit: a new window if there is none or its
\* time is over, else one more; the end of a window is never moved.
Hit(k) ==
  IF store[k] = None \/ store[k].ends <= now
  THEN [hits |-> 1, ends |-> now + Window[k[1]]]
  ELSE [store[k] EXCEPT !.hits = @ + 1]

\* The script runs for request r.
RunScript(r) ==
  LET k == Key(arg[r]) IN
  /\ store' = [store EXCEPT ![k] = Hit(k)]
  /\ runs' = [runs EXCEPT ![r] = Append(@,
                [at |-> now, gen |-> gen, hits |-> Hit(k).hits, ends |-> Hit(k).ends])]

\* Mutant: the limit itself is refused.
VerdictEarly(limiter, hits) == IF hits >= Limit[limiter] THEN "blocked" ELSE "passed"

\* What express-rate-limit makes of the number of hits it is told.
Verdict(limiter, hits) == IF hits > Limit[limiter] THEN "blocked" ELSE "passed"

LastRun(r) == runs[r][Len(runs[r])]

(***************************************************************************)
(* Steps                                                                   *)
(***************************************************************************)

\* The processes are new, or have loaded the script into a Redis that was
\* restarted since.
Init ==
  /\ now = 0
  /\ up = TRUE
  /\ cached = FALSE
  /\ outages = 0
  /\ gen = 0
  /\ store = [k \in Keys |-> None]
  /\ script \in {[p \in Processes |-> s] : s \in {"loading", "loaded"}}
  /\ pc = [r \in Requests |-> "new"]
  /\ arg = [r \in Requests |-> None]
  /\ runs = [r \in Requests |-> <<>>]
  /\ outage = {}

\* A request reaches its limiter, which asks the store to count it.
Arrive(r, a) ==
  /\ pc[r] = "new"
  /\ arg' = [arg EXCEPT ![r] = a]
  /\ pc' = [pc EXCEPT ![r] = "sent"]
  /\ outage' = IF up THEN outage ELSE outage \cup {r}
  /\ UNCHANGED <<now, redis, cached, store, script, runs>>

\* The first command of a process: it waits for the connection.
LoadScript(p) ==
  /\ script[p] = "loading"
  /\ up
  /\ script' = [script EXCEPT ![p] = "loaded"]
  /\ cached' = TRUE
  /\ UNCHANGED <<now, redis, store, pc, arg, runs, outage>>

\* Mutant: without the offline queue the first command of a lazy connection
\* always fails.
LoadFailsAtOnce(p) ==
  /\ script[p] = "loading"
  /\ script' = [script EXCEPT ![p] = "failed"]
  /\ UNCHANGED <<now, redis, cached, store, pc, arg, runs, outage>>

\* It is given up when Redis cannot be reached; nothing tries it again.
LoadFails(p) ==
  /\ script[p] = "loading"
  /\ ~up
  /\ script' = [script EXCEPT ![p] = "failed"]
  /\ UNCHANGED <<now, redis, cached, store, pc, arg, runs, outage>>

\* The EVALSHA of a request is on its way and Redis can run it.
Ready(r) ==
  /\ pc[r] = "sent"
  /\ script[arg[r].process] = "loaded"
  /\ up

\* The script runs and its reply decides: the request goes on, or the handler
\* answers 429.
Increment(r) ==
  /\ Ready(r)
  /\ cached
  /\ RunScript(r)
  /\ pc' = [pc EXCEPT ![r] = Verdict(arg[r].limiter, Hit(Key(arg[r])).hits)]
  /\ UNCHANGED <<now, redis, cached, script, arg, outage>>

\* The connection breaks before the reply: ioredis sends the command again.
IncrementUnheard(r) ==
  /\ Ready(r)
  /\ cached
  /\ Len(runs[r]) < MaxRetries
  /\ outages < MaxOutages
  /\ outages' = outages + 1
  /\ RunScript(r)
  /\ outage' = outage \cup {r}
  /\ UNCHANGED <<now, up, cached, gen, script, pc, arg>>

\* NOSCRIPT: the store loads the script again and repeats the command.
NoScript(r) ==
  /\ Ready(r)
  /\ ~cached
  /\ pc' = [pc EXCEPT ![r] = "reload"]
  /\ UNCHANGED <<now, redis, cached, store, script, arg, runs, outage>>

Reload(r) ==
  /\ pc[r] = "reload"
  /\ up
  /\ cached' = TRUE
  /\ pc' = [pc EXCEPT ![r] = "sent"]
  /\ UNCHANGED <<now, redis, store, script, arg, runs, outage>>

\* The reload fails. Whether the failed promise replaces the one that is
\* kept is the library's affair: both are possible.
ReloadFails(r) ==
  /\ pc[r] = "reload"
  /\ ~up
  /\ pc' = [pc EXCEPT ![r] = "uncounted"]
  /\ \/ UNCHANGED <<script, outage>>
     \/ /\ script' = [script EXCEPT ![arg[r].process] = "failed"]
        /\ outage' = outage \cup {arg[r].process}
  /\ UNCHANGED <<now, redis, cached, store, arg, runs>>

\* The store throws: passOnStoreError lets the request through uncounted.
PassOnStoreError(r) ==
  /\ pc[r] = "sent"
  /\ \/ script[arg[r].process] = "failed"
     \/ script[arg[r].process] = "loaded" /\ ~up
  /\ pc' = [pc EXCEPT ![r] = "uncounted"]
  /\ UNCHANGED <<now, redis, cached, store, script, arg, runs, outage>>

\* What meets the outage: requests under way, and loads that have no answer.
GoDown ==
  /\ up
  /\ outages < MaxOutages
  /\ outages' = outages + 1
  /\ up' = FALSE
  /\ outage' = outage \cup {r \in Requests : pc[r] \in {"sent", "reload"}}
                      \cup {p \in Processes : script[p] = "loading"}
  /\ UNCHANGED <<now, cached, gen, store, script, pc, arg, runs>>

\* Redis is back: the network was away, or Redis was, which loses the script
\* and, for what its snapshot did not hold, the counters.
ComeBack ==
  /\ ~up
  /\ up' = TRUE
  /\ \/ UNCHANGED <<cached, gen, store>>
     \/ cached' = FALSE /\ UNCHANGED <<gen, store>>
     \/ /\ cached' = FALSE
        /\ gen' = gen + 1
        /\ store' = [k \in Keys |-> None]
  /\ UNCHANGED <<now, outages, script, pc, arg, runs, outage>>

Tick ==
  /\ now < MaxTime
  /\ now' = now + 1
  /\ UNCHANGED <<redis, cached, store, script, pc, arg, runs, outage>>

Next ==
  \/ \E r \in Requests :
       \/ \E a \in Arrivals : Arrive(r, a)
       \/ Increment(r) \/ IncrementUnheard(r) \/ NoScript(r)
       \/ Reload(r) \/ ReloadFails(r) \/ PassOnStoreError(r)
  \/ \E p \in Processes : LoadScript(p) \/ LoadFails(p)
  \/ GoDown \/ ComeBack \/ Tick

Spec == Init /\ [][Next]_vars

(***************************************************************************)
(* Properties                                                              *)
(***************************************************************************)

Run == [at: Nat, gen: Nat, hits: Nat \ {0}, ends: Nat]

TypeOK ==
  /\ now \in Nat /\ outages \in Nat /\ gen \in Nat
  /\ up \in BOOLEAN /\ cached \in BOOLEAN
  /\ store \in [Keys -> [hits: Nat \ {0}, ends: Nat] \cup {None}]
  /\ script \in [Processes -> {"loading", "loaded", "failed"}]
  /\ pc \in [Requests -> {"new", "sent", "reload", "passed", "blocked",
                          "uncounted"}]
  /\ arg \in [Requests -> Arrivals \cup {None}]
  /\ runs \in [Requests -> Seq(Run)]
  /\ outage \subseteq Requests \cup Processes
  /\ \A r \in Requests : pc[r] # "new" => arg[r] \in Arrivals

\* Requests that were counted and let through.
Passed == {r \in Requests : pc[r] = "passed"}

\* In one window of one identity, whatever processes the requests went to
\* and whatever a header claims, no two requests pass on the same hit, and
\* none on a hit beyond the limit: so at most Limit pass. (rateLimit.ts:48-57;
\* in-memory counters let Limit pass per process.)
LimitPerWindow ==
  \A r \in Passed :
    /\ LastRun(r).hits \in 1..Limit[arg[r].limiter]
    /\ \A s \in Passed \ {r} :
         /\ Payer(arg[s]) = Payer(arg[r])
         /\ LastRun(s).gen = LastRun(r).gen
         /\ LastRun(s).ends = LastRun(r).ends
         => LastRun(s).hits # LastRun(r).hits

\* Around the boundary of two windows less than twice the limit passes in a
\* span as long as a window, unless Redis lost its counters in between: a
\* span that reaches the second window lies after the hit that opened the
\* first (rateLimit.ts:59-66: a fixed window that begins with a hit).
BurstBound ==
  \A r \in Passed :
    LET first == LastRun(r)
        span == {s \in Passed :
                   /\ Payer(arg[s]) = Payer(arg[r])
                   /\ LastRun(s).gen = first.gen
                   /\ LastRun(s).at - first.at \in 0..Window[arg[r].limiter] - 1}
    IN Cardinality(span) <= 2 * Limit[arg[r].limiter] - 1

\* A 429 is earned: each of the first Limit hits was made in the last window's
\* length by a request of the same identity. Nobody pays for another client,
\* user, link or route, and a client that keeps trying is let in again.
EarnedBlock ==
  \A r \in Requests : pc[r] = "blocked" =>
    \A j \in 1..Limit[arg[r].limiter] :
      \E s \in Requests : \E i \in 1..Len(runs[s]) :
        /\ Payer(arg[s]) = Payer(arg[r])
        /\ runs[s][i].gen = LastRun(r).gen
        /\ runs[s][i].hits = j
        /\ runs[s][i].at > LastRun(r).at - Window[arg[r].limiter]

\* A request passes uncounted only if it met an outage, or if its process did
\* when it loaded the script (lib/rateLimitRedis.ts:22-38: a load that failed
\* for any other reason would switch every limiter off for good).
EnforcedWhenHealthy ==
  \A r \in Requests : pc[r] = "uncounted" =>
    r \in outage \/ arg[r].process \in outage

(***************************************************************************)
(* The inductive invariant                                                 *)
(***************************************************************************)

\* Runs a and b are of one window of one key.
SameWindow(r, i, s, m) ==
  /\ Key(arg[s]) = Key(arg[r])
  /\ runs[s][m].gen = runs[r][i].gen
  /\ runs[s][m].ends = runs[r][i].ends

\* A run lies in its window, and the counter of its key is not behind it.
RunsInWindow ==
  \A r \in Requests : \A i \in 1..Len(runs[r]) :
    LET x == runs[r][i]
        row == store[Key(arg[r])]
    IN /\ x.gen <= gen
       /\ x.at <= now
       /\ x.at < x.ends
       /\ x.ends <= x.at + Window[arg[r].limiter]
       /\ x.gen = gen =>
            /\ row # None
            /\ x.ends <= row.ends
            /\ x.ends = row.ends => x.hits <= row.hits

\* A window is as long as it should be: its first hit opens it.
FirstHitOpens ==
  \A r \in Requests : \A i \in 1..Len(runs[r]) :
    runs[r][i].hits = 1 => runs[r][i].ends = runs[r][i].at + Window[arg[r].limiter]

\* The hits of a window are numbered without a gap and without a repetition.
NoGaps ==
  \A r \in Requests : \A i \in 1..Len(runs[r]) : \A j \in 1..runs[r][i].hits :
    \E s \in Requests : \E m \in 1..Len(runs[s]) :
      SameWindow(r, i, s, m) /\ runs[s][m].hits = j

NoRepetition ==
  \A r, s \in Requests : \A i \in 1..Len(runs[r]) : \A m \in 1..Len(runs[s]) :
    SameWindow(r, i, s, m) /\ runs[s][m].hits = runs[r][i].hits => r = s /\ i = m

\* A window begins when the one before it is over.
WindowsApart ==
  \A r, s \in Requests : \A i \in 1..Len(runs[r]) : \A m \in 1..Len(runs[s]) :
    /\ Key(arg[s]) = Key(arg[r])
    /\ runs[s][m].gen = runs[r][i].gen
    /\ runs[r][i].ends < runs[s][m].ends
    => runs[r][i].ends + Window[arg[r].limiter] <= runs[s][m].ends

\* The counter of a key is what the last run of the key left.
StoreIsLastRun ==
  \A k \in Keys : store[k] # None =>
    \E r \in Requests : \E i \in 1..Len(runs[r]) :
      /\ Key(arg[r]) = k
      /\ runs[r][i].gen = gen
      /\ runs[r][i].ends = store[k].ends
      /\ runs[r][i].hits = store[k].hits

\* A verdict is what the last run says.
VerdictsFollowRuns ==
  \A r \in Requests :
    /\ pc[r] = "new" => runs[r] = <<>>
    /\ pc[r] \in {"passed", "blocked"} => runs[r] # <<>>
    /\ pc[r] = "passed" => LastRun(r).hits <= Limit[arg[r].limiter]
    /\ pc[r] = "blocked" => LastRun(r).hits > Limit[arg[r].limiter]

\* Whatever waits or has failed while Redis is away is noted.
OutagesNoted ==
  /\ \A p \in Processes : script[p] = "failed" => p \in outage
  /\ ~up => /\ \A p \in Processes : script[p] = "loading" => p \in outage
            /\ \A r \in Requests : pc[r] \in {"sent", "reload"} => r \in outage

Inv ==
  /\ TypeOK
  /\ RunsInWindow
  /\ FirstHitOpens
  /\ NoGaps
  /\ NoRepetition
  /\ WindowsApart
  /\ StoreIsLastRun
  /\ VerdictsFollowRuns
  /\ OutagesNoted
  /\ EnforcedWhenHealthy

(***************************************************************************)
(* Refinement                                                              *)
(***************************************************************************)

Payers == {Payer(a) : a \in Arrivals}

FW == INSTANCE FixedWindow WITH
  Identities <- Payers,
  Limit <- [k \in Payers |-> Limit[k[1]]],
  Window <- [k \in Payers |-> Window[k[1]]],
  window <- [k \in Payers |-> IF k \in Keys THEN store[k] ELSE None],
  payer <- [r \in Requests |-> IF pc[r] = "new" THEN None ELSE Payer(arg[r])],
  verdict <- [r \in Requests |->
                IF pc[r] \in {"passed", "blocked", "uncounted"} THEN pc[r] ELSE "pending"]

\* All processes together are one limiter that knows the true client: the
\* shared store and the derived keys do what a single process's memory did
\* (rateLimit.ts:32-37, 49-57).
ImplementsFixedWindow == FW!Spec
==============================================================================
