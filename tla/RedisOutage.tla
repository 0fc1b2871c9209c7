----------------------------- MODULE RedisOutage -----------------------------
(***************************************************************************)
(* What the API process answers while Redis comes and goes.  It has three  *)
(* Redis clients: the shared one (link cache, OAuth state, PING), the rate *)
(* limiters' and the queue's.  They differ in what becomes of a command    *)
(* when Redis is down: maxRetriesPerRequest makes the first two reject it, *)
(* the queue's client keeps it until Redis is back.                        *)
(*                                                                         *)
(* A request is the set of calls it awaits.  Which link it finds, and what *)
(* that link and the visitor's password make of it, is left open here: a   *)
(* reply can lead to every answer that the handler has for it.             *)
(***************************************************************************)
EXTENDS Naturals

CONSTANTS
  Requests,  \* the requests, each handled once
  States,    \* OAuth state tokens
  None       \* no answer yet, no state, and `maxRetriesPerRequest: null'

Kinds == {"visit", "unlock", "health", "google", "callback"}

Answers == {"200", "302", "400", "401", "404", "409", "410", "429", "500", "503"}

ASSUME RedisOutageAssumption == None \notin States \union Nat \union Kinds \union Answers

CacheCalls == {"get", "set", "ping", "store", "consume"}
QueueCalls == {"add", "depth"}
RedisCalls == CacheCalls \union {"limit"} \union QueueCalls
OtherCalls == {"select", "db", "signin"}
HealthCalls == {"db", "ping", "depth"}
Calls      == RedisCalls \union OtherCalls

(* What the first await of each handler is; the health checks run at once. *)
FirstCalls == [visit |-> {"get"}, unlock |-> {"limit"}, google |-> {"store"},
               callback |-> {"consume"}, health |-> {"db", "ping", "depth"}]

(* Mutant: the shared client is set up like the queue's. *)
PatientRetries(c) == IF c = "limit" THEN 1 ELSE None

(* maxRetriesPerRequest of the client that call c goes through.            *)
MaxRetries(c) == IF c \in QueueCalls THEN None ELSE 1

VARIABLES
  redis,   \* whether Redis is reachable
  kind,    \* what each request is
  at,      \* the calls each request awaits
  answer,  \* the status each request was answered with
  failed,  \* the requests that had a call to Postgres or Google, or a health
           \* check, fail
  token,   \* the state a Google sign-in stores, or a callback brings
  issued,  \* the states generated so far
  stored,  \* the oauth:state: keys in Redis
  passed   \* the callbacks whose state was accepted

reqVars   == <<kind, at, answer, token>>
stateVars == <<issued, stored, passed>>
vars      == <<redis, reqVars, failed, stateVars>>

TypeOK ==
  /\ redis \in {"up", "down"}
  /\ kind \in [Requests -> Kinds \union {None}]
  /\ at \in [Requests -> SUBSET Calls]
  /\ answer \in [Requests -> Answers \union {None}]
  /\ failed \in SUBSET Requests
  /\ token \in [Requests -> States \union {None}]
  /\ issued \in SUBSET States
  /\ stored \in SUBSET States
  /\ passed \in SUBSET Requests

Init ==
  /\ redis = "up"
  /\ kind = [r \in Requests |-> None]
  /\ at = [r \in Requests |-> {}]
  /\ answer = [r \in Requests |-> None]
  /\ failed = {}
  /\ token = [r \in Requests |-> None]
  /\ issued = {}
  /\ stored = {}
  /\ passed = {}

-----------------------------------------------------------------------------
(* Calls and their outcomes. *)

(* The command of call c was carried out and its reply is here.            *)
Reply(r, c) == c \in at[r] /\ redis = "up" /\ UNCHANGED redis

(* Redis answers with an error, or the client has used up its retries on a *)
(* connection that is down.                                                *)
Reject(r, c) == c \in at[r] /\ (redis = "up" \/ MaxRetries(c) # None) /\ UNCHANGED redis

(* The same for Postgres and Google, which do not depend on Redis.         *)
OtherReply(r, c)  == c \in at[r] /\ UNCHANGED <<redis, failed>>
OtherReject(r, c) == c \in at[r] /\ failed' = failed \union {r} /\ UNCHANGED redis

Await(r, c) == at' = [at EXCEPT ![r] = {c}] /\ UNCHANGED <<kind, answer, token>>

Send(r, status) == /\ at' = [at EXCEPT ![r] = {}]
                   /\ answer' = [answer EXCEPT ![r] = status]
                   /\ UNCHANGED <<kind, token>>

(* A request arrives; /google draws a fresh state, a callback may bring    *)
(* any.                                                                    *)
Start(r, k) ==
  /\ kind[r] = None
  /\ kind' = [kind EXCEPT ![r] = k]
  /\ at' = [at EXCEPT ![r] = FirstCalls[k]]
  /\ \/ /\ k = "google"
        /\ \E s \in States \ issued : /\ token' = [token EXCEPT ![r] = s]
                                      /\ issued' = issued \union {s}
     \/ /\ k = "callback"
        /\ \E s \in States : token' = [token EXCEPT ![r] = s]
        /\ UNCHANGED issued
     \/ k \notin {"google", "callback"} /\ UNCHANGED <<token, issued>>
  /\ UNCHANGED <<redis, answer, failed, stored, passed>>

-----------------------------------------------------------------------------
(* GET /:shortCode and POST /:shortCode/unlock. *)

(* The lookup is done.  No link: 404.  A dead one: 410.  A visit gets the  *)
(* interstitial or goes on to enqueue its click; an unlock is refused or   *)
(* sent back to the link.                                                  *)
Judge(r) ==
  \/ Send(r, "404")
  \/ Send(r, "410")
  \/ kind[r] = "visit" /\ Send(r, "200")
  \/ kind[r] = "visit" /\ Await(r, "add")
  \/ kind[r] = "unlock" /\ Send(r, "401")
  \/ kind[r] = "unlock" /\ Send(r, "302")

(* Past the limiter, an unlock without a valid password field ends.        *)
Validate(r)     == Await(r, "get") \/ Send(r, "400")

LimitCounts(r)  == Reply(r, "limit") /\ (Validate(r) \/ Send(r, "429"))

(* passOnStoreError: an uncounted request goes on.                         *)
LimitFails(r)   == Reject(r, "limit") /\ Validate(r)

GetHit(r)       == Reply(r, "get") /\ Judge(r)
GetMiss(r)      == Reply(r, "get") /\ Await(r, "select")
GetFails(r)     == Reject(r, "get") /\ Await(r, "select")
Select(r)       == OtherReply(r, "select") /\ Await(r, "set")
SelectFails(r)  == OtherReject(r, "select") /\ Send(r, "500")
Set(r)          == Reply(r, "set") /\ Judge(r)

(* Mutant: setCachedLink lets the error out. *)
SetThrows(r)    == Reject(r, "set") /\ Send(r, "500")

SetFails(r)     == Reject(r, "set") /\ Judge(r)

(* enqueueClick; an error costs the click, not the redirect.               *)
Add(r)          == Reply(r, "add") /\ Send(r, "302")

(* Mutant: a failed enqueue looks the link up again. *)
AddTriesAgain(r) == Reject(r, "add") /\ Await(r, "get")

AddFails(r)     == Reject(r, "add") /\ Send(r, "302")

Lookup(r) ==
  /\ \/ /\ \/ LimitCounts(r) \/ LimitFails(r) \/ GetHit(r) \/ GetMiss(r) \/ GetFails(r)
           \/ Set(r) \/ SetFails(r) \/ Add(r) \/ AddFails(r)
        /\ UNCHANGED failed
     \/ Select(r) \/ SelectFails(r)
  /\ UNCHANGED stateVars

-----------------------------------------------------------------------------
(* GET /health: Promise.all of three checks that turn errors into results. *)

(* Mutant: a failing check rejects, and Promise.all with it, at once. *)
CheckedEagerly(r, c) ==
  /\ at' = [at EXCEPT ![r] = @ \ {c}]
  /\ IF at[r] # {c} /\ r \notin failed' THEN UNCHANGED answer
     ELSE \E status \in IF r \in failed' THEN {"503"} ELSE {"200", "503"} :
            answer' = [answer EXCEPT ![r] = status]
  /\ UNCHANGED <<kind, token, stateVars>>

(* The last result decides the status; with no failure it may still be 503 *)
(* as a queue that is too deep is `degraded'.                              *)
Checked(r, c) ==
  /\ at' = [at EXCEPT ![r] = @ \ {c}]
  /\ IF at[r] # {c} THEN UNCHANGED answer
     ELSE \E status \in IF r \in failed' THEN {"503"} ELSE {"200", "503"} :
            answer' = [answer EXCEPT ![r] = status]
  /\ UNCHANGED <<kind, token, stateVars>>

CheckDb(r)        == (OtherReply(r, "db") \/ OtherReject(r, "db")) /\ Checked(r, "db")
CheckRedis(r, c)  == Reply(r, c) /\ UNCHANGED failed /\ Checked(r, c)
CheckFails(r, c)  == Reject(r, c) /\ failed' = failed \union {r} /\ Checked(r, c)

Health(r) == CheckDb(r) \/ \E c \in {"ping", "depth"} : CheckRedis(r, c) \/ CheckFails(r, c)

-----------------------------------------------------------------------------
(* GET /google and its callback: oauthState.ts lets errors propagate. *)

Store(r) ==
  /\ Reply(r, "store")
  /\ Send(r, "302")
  /\ stored' = stored \union {token[r]}
  /\ UNCHANGED <<failed, issued, passed>>

(* The SET may have been carried out; nobody learns the state.             *)
StoreFails(r) ==
  /\ Reject(r, "store")
  /\ Send(r, "500")
  /\ stored' \in {stored, stored \union {token[r]}}
  /\ UNCHANGED <<failed, issued, passed>>

(* Mutant: GET, and DEL only after the reply. *)
ConsumeReadsOnly(r) ==
  /\ Reply(r, "consume")
  /\ token[r] \in stored
  /\ Await(r, "signin")
  /\ passed' = passed \union {r}
  /\ UNCHANGED <<failed, issued, stored>>

(* The reply of GETDEL holds the state.  A denied consent or a missing     *)
(* code ends the request here; else the code is exchanged.                 *)
Consume(r) ==
  /\ Reply(r, "consume")
  /\ token[r] \in stored
  /\ Await(r, "signin") \/ Send(r, "302") \/ Send(r, "400")
  /\ stored' = stored \ {token[r]}
  /\ passed' = passed \union {r}
  /\ UNCHANGED <<failed, issued>>

(* Mutant: the callback goes on without looking at the result. *)
ConsumeIgnored(r) ==
  /\ Reply(r, "consume")
  /\ token[r] \notin stored
  /\ Await(r, "signin")
  /\ UNCHANGED <<failed, stateVars>>

ConsumeNull(r) ==
  /\ Reply(r, "consume")
  /\ token[r] \notin stored
  /\ Send(r, "400")
  /\ UNCHANGED <<failed, stateVars>>

(* GETDEL is carried out and its reply lost: the client sends it again.    *)
ConsumeUnheard(r) ==
  /\ "consume" \in at[r]
  /\ redis = "up"
  /\ token[r] \in stored
  /\ stored' = stored \ {token[r]}
  /\ UNCHANGED <<redis, reqVars, failed, issued, passed>>

ConsumeFails(r) ==
  /\ Reject(r, "consume")
  /\ Send(r, "500")
  /\ UNCHANGED <<failed, stateVars>>

(* exchangeCodeForIdentity and findOrCreateOAuthUser.                      *)
SignIn(r) ==
  /\ \/ OtherReply(r, "signin") /\ (Send(r, "302") \/ Send(r, "400") \/ Send(r, "409"))
     \/ OtherReject(r, "signin") /\ Send(r, "500")
  /\ UNCHANGED stateVars

OAuth(r) == \/ Store(r) \/ StoreFails(r)
            \/ Consume(r) \/ ConsumeNull(r) \/ ConsumeFails(r) \/ SignIn(r)

-----------------------------------------------------------------------------
(* Redis goes away, perhaps with some of its keys, and comes back; a state *)
(* lives for STATE_TTL_SECONDS.                                            *)
GoDown ==
  /\ redis = "up"
  /\ redis' = "down"
  /\ \E kept \in SUBSET stored : stored' = kept
  /\ UNCHANGED <<reqVars, failed, issued, passed>>

ComeBack == redis = "down" /\ redis' = "up" /\ UNCHANGED <<reqVars, failed, stateVars>>

ExpireState(s) ==
  /\ s \in stored
  /\ stored' = stored \ {s}
  /\ UNCHANGED <<redis, reqVars, failed, issued, passed>>

Handle(r) == Lookup(r) \/ Health(r) \/ OAuth(r)

Next ==
  \/ \E r \in Requests : Handle(r) \/ ConsumeUnheard(r) \/ \E k \in Kinds : Start(r, k)
  \/ \E s \in States : ExpireState(s)
  \/ GoDown
  \/ ComeBack

Spec == Init /\ [][Next]_vars

(* A call whose outcome is there is followed by the handler's next step.   *)
(* Redis need not come back.                                               *)
FairSpec == Spec /\ \A r \in Requests : WF_vars(Handle(r))

(* More than the code needs: when Redis keeps coming back, each request    *)
(* gets its reply in the end, as ioredis sends again what it has queued.   *)
PatientSpec == Spec /\ \A r \in Requests : SF_vars(Handle(r))

-----------------------------------------------------------------------------
(* A state lets one callback pass, and only one that the API issued, also  *)
(* when replies are lost and Redis forgets keys (oauthState.ts:29-36).     *)
StatesSingleUse ==
  /\ \A r \in passed : token[r] \in issued /\ token[r] \notin stored
  /\ \A q, r \in passed : token[q] = token[r] => q = r

(* Redis is optional on every path but the Google sign-in: any other       *)
(* request answered 500 had Postgres fail it (linkService.ts:370-379,      *)
(* rateLimit.ts:71, redirect.ts:129-144).                                  *)
OnlyOthersFail ==
  \A r \in Requests : answer[r] = "500" =>
    kind[r] \in {"google", "callback"} \/ r \in failed

(* A sign-in is only tried after its state was accepted.                   *)
SignInsPassed == \A r \in Requests : "signin" \in at[r] => r \in passed

(* States that were never generated are not stored; one that is still to   *)
(* be stored is no other request's, and has let nobody pass.               *)
StatesFresh ==
  /\ stored \subseteq issued
  /\ \A r \in Requests : "consume" \in at[r] => token[r] \in States /\ r \notin passed
  /\ \A r \in Requests : "store" \in at[r] =>
       /\ token[r] \in issued \ stored
       /\ \A q \in passed : token[q] # token[r]
       /\ \A q \in Requests : "store" \in at[q] /\ token[q] = token[r] => q = r

(* The calls of the Google sign-in and of the health checks are made by    *)
(* the handlers they belong to, and nothing is known of a request that has *)
(* not arrived.                                                            *)
CallsMatchKind ==
  /\ \A r \in Requests : /\ "store" \in at[r] => kind[r] = "google"
                         /\ "consume" \in at[r] => kind[r] = "callback"
                         /\ at[r] \intersect HealthCalls # {} => kind[r] = "health"
                         /\ kind[r] = None => at[r] = {} /\ answer[r] = None
  /\ \A r \in passed : kind[r] = "callback"

(* A request that arrived is answered exactly when it awaits nothing any   *)
(* more: never while one of its calls, or health checks, is still out, and *)
(* never left without an answer by a call that failed (health.ts:98-115,   *)
(* redirect.ts:129-151).                                                   *)
AnsweredAtTheEnd ==
  \A r \in Requests : kind[r] # None => (answer[r] # None <=> at[r] = {})

(* Only /health awaits several calls at once.                              *)
OneCallAtATime ==
  \A r \in Requests : at[r] \subseteq HealthCalls \/ \E c \in Calls : at[r] = {c}

(* What is known of the requests and their states together.                *)
Inv == /\ TypeOK
       /\ OnlyOthersFail
       /\ SignInsPassed
       /\ StatesFresh
       /\ CallsMatchKind
       /\ StatesSingleUse
       /\ AnsweredAtTheEnd
       /\ OneCallAtATime

(* Where the calls stand in the handlers.                                  *)
Position == [c \in Calls |->
  CASE c = "get" -> 2 [] c = "select" -> 3 [] c = "set" -> 4 [] c = "add" -> 5
    [] c = "signin" -> 2 [] OTHER -> 1]

(* A handler never goes back: what it awaits next comes later than what it *)
(* awaited, or is what is left of that, and once it has answered it is     *)
(* done.  So no outage, however often Redis comes and goes, makes a        *)
(* request go round (linkService.ts:370-379, redirect.ts:129-144).         *)
HandlersAdvance ==
  [][\A r \in Requests :
       /\ kind[r] # None /\ at'[r] # at[r] =>
            \/ at'[r] \subseteq at[r]
            \/ \A c \in at[r], d \in at'[r] : Position[c] < Position[d]
       /\ answer[r] # None => UNCHANGED <<at[r], answer[r]>>]_vars

(* With Redis down for good, every request still ends, or gets as far as   *)
(* the queue's client (redis.ts:30-37, rateLimitRedis.ts:15-20).           *)
Tolerates(r) == at[r] # {} ~> at[r] \subseteq QueueCalls

(* "an enqueue failure (e.g. Redis down) does not fail the redirect"       *)
(* (redirect.test.ts:183): a visit that gets to the enqueue is redirected. *)
RedirectSurvivesOutage ==
  \A r \in Requests : "add" \in at[r] ~> answer[r] = "302"

(* "Returns 503 ... when a dependency is down" (routes/health.ts:8): every *)
(* readiness probe is answered.                                            *)
HealthSurvivesOutage ==
  \A r \in Requests : kind[r] = "health" ~> answer[r] \in {"200", "503"}

(* At least one of the two promises is kept: a behaviour that violates     *)
(* this breaks both (redirect.ts:129-144, routes/health.ts:8).             *)
OutageIsAnswered == RedirectSurvivesOutage \/ HealthSurvivesOutage
=============================================================================
