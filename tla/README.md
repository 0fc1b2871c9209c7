# ClickScope API: TLA+ models, checks and proofs

ClickScope is a URL shortener: an Express API process, a BullMQ worker process,
Postgres as the record and Redis as cache, OAuth state store, rate-limit store
and job queue. This directory holds TLA+ modules that model the parts of it
where several requests, jobs or failures meet, TLC configurations that check
them on small instances, and proofs, checked by TLAPS, that the main safety
properties hold for every value of the constants.

`PROJECT.json` maps every definition to the lines it models, and lists runs,
mutants (a plausible bug for each property, which TLC finds), findings, hazards
and theorems. File names below are relative to the repository (`src/...` is the
API, `worker/...` the worker).

    tlc -workers 2 -config MC_LinkCache.cfg MC_LinkCache.tla
    tlapm LinkCacheProofs.tla

## 1. The system

| Component | State | Operations | Interacts with |
|---|---|---|---|
| Link cache (`src/services/linkService.ts`) | Redis keys `link:<code>`: a link or `__MISS__`, TTL 300 s (5 s with a click cap, 30 s for a miss) | GET, SELECT, SET in a lookup; DEL after a write | link writes, the worker's writes (which send no DEL) |
| Link writes (same file, `routes/links.ts`) | table `links` | create (alias: SELECT, INSERT; generated code: up to five INSERTs), update, delete | the cache; the `short_code` unique index |
| Link reads (same files) | none | one link; its statistics (two statements); pages of links (two statements in parallel each) | table `links`, `clicks` |
| Redirect and unlock (`routes/redirect.ts`) | none of its own; an unlock cookie at the visitor | look up, judge dead states, check the cookie, enqueue the click, redirect | cache, queue, limiter |
| Click queue (`queues/clickQueue.ts`) | BullMQ jobs in Redis, `jobId` = click id | add; retries with backoff, stall recovery, removal after completion | redirect, worker, health |
| Click processor (`worker/processors/clickProcessor.ts`, `worker/db/pool.ts`) | tables `clicks`, `links.click_count` | BEGIN, INSERT ... ON CONFLICT DO NOTHING, UPDATE, COMMIT / ROLLBACK | queue, link deletion (foreign key, row locks) |
| Sweep (`worker/processors/linkCleanupProcessor.ts`, `worker/scheduler.ts`) | `links.is_active` | one UPDATE every 60 s | cache (no DEL), owner's PATCH |
| Accounts (`services/authService.ts`) | table `users`, two unique indexes | signup, login, find-or-create for Google | session tokens, OAuth routes |
| OAuth routes and state (`routes/auth.ts`, `lib/oauthState.ts`) | Redis keys `oauth:state:<s>`, 600 s | store on `/google`, GETDEL on the callback | accounts, Google |
| Redis clients (`lib/redis.ts`, `lib/rateLimitRedis.ts`, `queues/connection.ts`) | one connection each, offline queues | commands are answered, rejected after `maxRetriesPerRequest`, or wait | everything above |
| Rate limits (`middleware/rateLimit.ts`, `app.ts`) | counters in Redis per window; one cached script load per process | count, reject with 429, pass on a store error | unlock, auth, link creation; the proxies in front |
| Health (`services/health.ts`) | none | three checks in `Promise.all` | pool, cache client, queue client |
| Shutdown (`src/server.ts`, `worker/shutdown.ts`) | open connections and their requests, active jobs, a 10 s timer | drain, close, exit | everything above |
| Tokens, validation, errors, headers, config, logging, OpenAPI, scripts | none that is shared | pure or per request | |

### What is hard about it

- Each `await` of a request is a point where any other request, job or failure
  may come in: a fill of the cache spans three awaits, a write two, a Google
  sign-in up to four statements without a transaction.
- The queue delivers at least once, in three ways: an add sent again, a lock
  that runs out under a slow processor, a COMMIT whose reply is lost.
- Two failure rules meet in one handler: cache and limiter turn an outage into
  an error that is swallowed; the queue's client turns it into waiting.
- Pre-checks (alias, address, subject id) are not the guarantee, the unique
  indexes are, and the handler must tell which index refused.
- Several numbers are read long before they are used: the cached counter, the
  cached expiry, attempts and stalls.

### What makes each component correct

- Cache: an entry that disagrees with the row has a reason that will pass, and
  the TTL ends it.
- Clicks: `click_count` equals the rows; a click is recorded at most once, and
  exactly once unless its link is deleted or its job ends in the failed set. No
  job goes round for ever.
- Accounts: one account per address and per identity; a token only for the
  account of the identity that was shown; whatever statements of other requests
  come between its own, a request is as if it were decided in one instant.
- OAuth state: one callback per state, and only a state the API issued.
- Outage: Redis is optional everywhere except for the Google sign-in; no handler
  answers before its calls have settled, or goes back to an earlier one.
- Links: one that died is served no longer than the TTL of its copy and two
  requests; one that is protected needs a token of its own once no older copy
  can be left.
- Shutdown: nothing is closed under a job, or under a request whose client
  waits for it; queues close before their connection; the process ends.
- Rate limits: no window lets through more than its limit, no span as long as a
  window twice that; a 429 was earned by its own client; only an outage lets a
  request pass uncounted. All processes together are one limiter.
- `/api/links`: every request but a listing is as if it were decided in one
  instant, whatever statements of others come between its own; a creation leaves
  at most one link; listings miss nothing that was there all along; no link is
  behind another route.

## 2. The modules

| Module | Models | Extends / instantiates |
|---|---|---|
| `LinkCache` | lookup and writes of one short code | |
| `MC_LinkCache`, `MC_LinkCacheClaim` | instance; instance with a counter of stale reads | `LinkCache` |
| `LinkCacheProofs` | proofs | `LinkCache`, `TLAPS` |
| `ClickLedger` | abstract: clicks recorded once, with their count | |
| `ClickPipeline` | redirect, queue, slots, transactions | instantiates `ClickLedger` |
| `MC_ClickPipeline` | instance | `ClickPipeline` |
| `ClickPipelineProofs` | proofs, refinement included | `ClickPipeline`, `TLAPS` |
| `Directory` | abstract: accounts, requests decided in one instant | |
| `Accounts` | signup, login, Google sign-in on `users`, statement by statement | instantiates `Directory` |
| `MC_Accounts` | instance | `Accounts` |
| `AccountsProofs` | proofs, refinement included | `Accounts`, `TLAPS` |
| `RedisOutage`, `MC_RedisOutage`, `RedisOutageProofs` | the handlers' awaits on three Redis clients, OAuth states | |
| `LinkLifetime` | expiry, cap, password and edits of a link, seen through copies that age | |
| `LinkLifetimeProofs` | proofs | `LinkLifetime`, `TLAPS` |
| `Shutdown`, `ShutdownProofs` | the end of either process after a signal | |
| `FixedWindow` | abstract: one limiter that knows every client | |
| `RateLimit` | limiters of several processes on one Redis | instantiates `FixedWindow` |
| `MC_RateLimit` | instance | `RateLimit` |
| `RateLimitProofs` | proofs, refinement included | `RateLimit`, `TLAPS` |
| `LinkRegistry` | abstract: the links of each user, requests decided in one instant | |
| `LinkStore`, `MC_LinkStore` | the statements of `/api/links` | instantiates `LinkRegistry` |
| `LinkStoreProofs` | proofs, refinement included | `LinkStore`, `TLAPS` |

The configurations of `LinkLifetime` and `Shutdown` need no operators, so they
name the module itself.

### LinkCache

One short code: every statement and key names exactly one, so codes do not
interact. `row` is the committed row as a version number that is fresh at each
committed write, `entry` the Redis value, `rpc`/`snap` where each lookup is and
what it holds, `wpc` where each write is. `GetHit`, `GetMiss`, `Select`, `Set`,
`SetFails`, `EndLookup` are the awaits of `getLinkByShortCode`; `PreCheck`,
`InsertAlias`, `LoseInsertRace`, `Update`, `Delete`, then `Del` or `LoseDel`,
those of the writes; `InsertGenerated` and `WorkerWrite` are the writes that
send no DEL; `Expire` is the TTL. `causes` and `overlapped` are history
variables: they record why an entry may be stale and enable nothing.
Abstracted: the columns of the link (two versions are two different rows), and
requests that change nothing (a PATCH or DELETE that matches no row).

### ClickPipeline and ClickLedger

`visit` is each visit's handler up to its redirect, `adds` the deliveries of its add, `job`, `attempts`, `stalls`,
`owner` the BullMQ job, `pc`/`on` what each of the worker's slots is doing,
`recorded`, `count`, `links` the tables. `Visit`, `Add`, `Redirect` are the
handler; `Take`, `InsertNew`, `InsertDuplicate`, `InsertRejected`,
`UpdateCount`, `CommitNew`, `CommitUnheard`, `CommitDuplicate`, `Throw` the
processor with its transaction; `Complete`, `Fail`, `Crash`, `Promote`, `Stall`
are external (BullMQ and the process), `Evict` and `DeleteLink` the rest.
An INSERT waits for the open INSERT of the same click, an UPDATE for the row
lock of the link, a DELETE for open inserts, as Postgres makes them. The
abstract `ClickLedger` knows three things only: a click is recorded together
with its increment, a link is removed with its clicks, or neither changes.

### Accounts and Directory

`users` is the table, `arg` what a request was given, `pc` which statement comes
next, `session` the account its token names. Each SELECT and INSERT is a step;
`Violates` is what the two unique indexes refuse. Email addresses are model
values with a function `Lower`, as the index is on `lower(email)`. The order of
a login's SELECT and its slow comparison is kept; hashing is not. `Fail` is a
statement without effect that ends the request with a 500, `InsertUnheard` an
INSERT whose row stays and whose reply is lost.

`Directory` knows the accounts, what each request brings and what it is
answered; it has no statements. `Register` and `Enter` give a new or an existing
account, and each refusal is given for a reason that holds in that instant:
`TurnAway` an account in the way, `Reject` no account with this password,
`Distrust` an address Google has not verified, `Break` a failure. The refinement
is what all the re-reads of `authService.ts` are for: what a request concludes
from rows it read one to three statements ago can still be said in one instant.
It allows two things a reader may not expect: a request that ends in an error
may have made its account, and a Google sign-in may be turned away by an account
of its own identity (finding 2).

### RedisOutage

`redis` is up or down; a request is the set of calls it awaits (`at`), its
answer, and, for the sign-in, its state. `MaxRetries` is the option in which the
three clients differ: a call through the queue's client can only be replied to,
any other call can also be rejected. `Judge` leaves open which link was found:
every answer the handler has may follow. `Health` awaits three calls at once.
`ConsumeUnheard` is a GETDEL whose reply is lost and which ioredis sends again.
`Position` is where a call stands in its handler, for `HandlersAdvance`: what is
awaited next comes later, or some of several calls have settled, and an answer
stays.
A 400 for malformed input is left out where nothing is awaited before it. The
unlock's body is checked after its limiter, by `Validate`.

### LinkLifetime

`LinkCache` has the races of one key and no time; here the same awaits meet a
clock. `row` holds the columns a verdict depends on, `entry` a copy of it with
the end of its TTL, `held` the copy a request works with. `CreateLink`,
`UpdateLink`, `DeleteLink`, each followed by `Invalidate`, are the owner's
writes; the insert of a generated code, which sends no DEL, is one whose DEL
fails. `Sweep` and `CountClick` are the worker's writes. `Begin`, `GetHit`,
`GetMiss`, `Select`, `Set` are the lookup, `Refuse`, `Pass` and `Unlock` the
verdicts of GET and of POST `/unlock`; `Dead` is `deadStateError`, `Unlocked`
the check of the cookie. `Tick` moves the clock, but not past `MaxLag` of a
request's life. Copies carry the time of their SELECT, tokens the password they
were given for, and `deadSince`, `gatedSince`, `hadPassword` remember the row:
history that enables nothing. Both processes and the database read one clock;
the hash comparison takes no time of its own (it is before `Unlock`, inside the
request's lag).

### Shutdown

A behaviour is of the API or of the worker, as `Init` chooses: they do the same
with other `Stages`. A unit of work is a job, or a connection with the requests
that come on it: `Accept` takes either, `Request` begins a request, `Call`,
`Return` and `Finish` run it. `Disconnect` is a client that leaves: the handler
of its request runs on, `"alone"`. `Signal` is one delivery of SIGTERM or SIGINT,
each running the handler from its start; Node closes the connections it finds
idle then, but one on which a request is about to come may get it, and one that
was busy may be kept alive. `Drained` is the callback of `server.close`, or the
end of `Worker.close`: the first waits for connections and not for handlers, so
one that is alone may lose what it awaits (`"lost"`) or be cut off by exit 0.
`Close` settles one `quit`, `end` or `close`; `Advance` enters the next stage;
`Timer` is the ten seconds. The limiter's own Redis connection is among the
`Resources` and in no stage. A second signal matters: the API's `server.close`
calls back the second handler with an error, which exits with 1, and the worker's
second `pool.end` rejects. A close that is rejected ends the process, or, if
something listens for unhandled rejections, leaves the timer alone to end it.
`Worker.close` does not reject (BullMQ emits its errors), so only resources do.

### RateLimit

`store` is the counter of each key in Redis, `script` each process's cached
promise of its script load, `pc` where a request is, `runs` what the script said
for it (more than once if a reply was lost). `Arrive` is the middleware up to
the store; `Increment` the script and its verdict; `IncrementUnheard` a run whose
reply is lost and which ioredis sends again; `NoScript`, `Reload`,
`ReloadFails` what rate-limit-redis does when Redis has forgotten the script;
`PassOnStoreError` the request that goes on uncounted; `LoadScript`, `LoadFails`
the first command of a process. `Address` is `req.ip`: the proxies append to
`X-Forwarded-For` and Express walks `TRUST_PROXY` hops back. `GoDown`,
`ComeBack`, `Tick` are Redis and its clock. `gen`, `outage` and `runs` are
history. The script itself is the library's: a fixed window per key whose end
never moves (external). Whether a failed reload replaces the cached promise is
the library's affair too, so both are possible. At the start Redis is up and
either all processes are new, or all have loaded the script into a Redis that
was restarted since and has forgotten it.

`FixedWindow` has no Redis, processes, scripts or proxies: each identity has a
window, which its first hit opens, and a request is decided in one instant by
the window of its own identity (`Decide`), or let through uncounted (`Skip`); a
hit may be wasted (`Waste`: a lost reply), and all windows forgotten (`Forget`:
Redis lost its data). The mapping takes the window of an identity from the
counter at its key, the payer of a request from its true client, and the verdict
from `pc`; it is what the derived keys, the shared store, the reloads and the
repeated runs must add up to.

### LinkStore and LinkRegistry

One step per SQL statement, no transaction around two of them. `rows` is the
table, by ids in the order of `(created_at, id)`, so that a new row may come in
below others, as `created_at` is taken at the start of a statement; `pc` is the
statement a request is at, `attempts` the codes that were taken. `Ask` is the
request with its schema; `Check`, `Insert`, `Collide` are `createLink`;
`Select`, `Aggregate` are `getLink` and `getLinkClickStats`; `Update`, `Delete`,
`WriteNothing` the scoped writes; `ReadPage`, `CountRows` the two statements of
`Promise.all` in `listLinks`, in either order, and `Show` the page with
`hasMore`, after which the client asks for the next offset. `Fail` is a
statement without effect, `heard = FALSE` one whose effect stays and whose
reply is lost. `content` is the request that wrote a row last, which stands for
all its columns; `clicked` is whether it has clicks in the days asked for.

`LinkRegistry` knows each user's links and nothing of statements. A request is
decided in one instant: a creation takes effect with its answer or, if the
answer is an error, with or without one; a 404 is given when the link is not
the user's. The refinement says that pre-check, unique index, scoped WHERE and
retry loop add up to that. It allows one thing a reader may not expect:
statistics of a link that is deleted between the two statements are an empty
list, not a 404, but only after a `Find` at an instant at which the link was the
user's (`found`); without one the answer is 404. Listings are not promised to be one instant, and are specified
by `ScanComplete` in `LinkStore` itself.

## 3. The runs

| Run | Instance | Shows |
|---|---|---|
| `LinkCache` | 2 lookups, 2 writers, 3 writes; 208 539 states | `StaleEntryExplained`: a stale entry has a DEL on its way, a DEL that was lost or never sent, or a fill that a write overtook. `AnswersExplained`: so has a stale answer. `AgreementLasts`: a cache with none of these stays fresh until the next write. `StalenessEnds`. |
| `LinkCacheClaim` | 2 lookups, 1 writer, 2 writes, no failures | violates `SingleStaleRead` (finding 1) |
| `ClickPipeline` | 2 clicks on one link, 2 slots, 2 attempts, 1 recovery, one add sent twice; 698 636 states | `CountMatchesRows`, `CompletedIsRecorded`, the refinement `ImplementsLedger`, `JobsWearOut`: whatever happens to a job leaves less of it, `EveryJobSettles` |
| `Accounts` | 3 requests, 3 addresses (two spellings of one), 2 passwords, 2 subjects; 98 200 states | `IdentitiesUnique`, `SessionsMatchIdentity`, `OneSignupWins`, the refinement `ImplementsDirectory` |
| `AccountsClaim` | as above | violates `OAuthConflictIsForeign` (finding 2) |
| `RedisOutage` | 3 requests of any kinds, 2 states; 294 374 states | `StatesSingleUse`, `OnlyOthersFail`: a 500 outside the sign-in is Postgres's, `AnsweredAtTheEnd`, `HandlersAdvance`, `OutageTolerated`: with Redis down for good a request ends, or gets as far as the queue |
| `RedisOutageClaim` | 2 requests | violates `OutageIsAnswered`: one behaviour breaks `RedirectSurvivesOutage` and `HealthSurvivesOutage` (findings 3, 4) |
| `LinkLifetime` | 1 visitor, 2 expiries, a cap of 1, TTLs 2 and 1, lag 1, 3 edits, 6 instants; 1 594 179 states | `DeadBriefly`: from a copy with a cap a dead link is served less than the short TTL and two lags after its end, from any other less than the long one |
| `LinkGate` | 2 passwords, 3 edits, 5 instants; 2 323 155 states | `GateHolds`: then nobody passes without a valid token of this link |
| `Shutdown` | 3 connections or jobs, 3 signals, both processes; 679 730 states | `WorkCutOnlyByTimer`, `ConnectionsOutliveQueues`, `Ends` |
| `RateLimit` | 3 requests, 2 processes, 2 clients behind one proxy, limit 1, window 2, 4 instants, 1 outage; 393 565 states | `LimitPerWindow`, `BurstBound`: less than twice the limit in any span of a window, `EarnedBlock`, `EnforcedWhenHealthy`, the refinement `ImplementsFixedWindow` |
| `LinkStore` | 3 requests of 2 users, 4 ids (2 rows at the start), 5 codes, pages of 1, 2 attempts; 375 235 states | `ScanComplete`, `EveryLinkReachable`, the refinement `ImplementsRegistry` |

Each `Inv` is the inductive invariant of the proofs, so TLC checks on the small
instance what TLAPS proves in general.

### Bounds, and why they are enough

- `MaxVersion` = 3: one write can overtake a fill while a second one's DEL is on
  its way and a third commits. It also is what "the writes stop" means in
  `StalenessEnds`: the bound ends them, after every behaviour of three writes.
- Two clicks, two slots: the same job in both slots, or both clicks' increments
  waiting for one row. `MaxAttempts` and `MaxStalls` are 5 and 1 in the code;
  2 and 1 make every counter reach its limit. The add that is sent twice is one
  of the two, to see it come back after its job was completed and removed.
- Three requests on `users`: two that race and one that sees the outcome.
- Three requests with Redis: a sign-in and two callbacks that bring its state.
- `EveryJobSettles` is checked of the click whose add is sent twice; less can
  happen to the other, which competes with it. `OutageTolerated` is checked of
  one request: requests are interchangeable.
- One visitor in `LinkLifetime`: requests meet only in the entry, and two
  requests in a row already make the longest path a copy can take: read late in
  one request, set at its end, found at the end of the TTL by another that
  judges late. TTLs 2 and 1 with lag 1 tell the bounds of the two kinds of copy
  apart, and either bound, if it is shortened by one instant, is violated. Three edits are a
  creation, a deletion and a new link of the same code; one click fills the cap.
- Three limited requests with limit 1: two that compete for the last place and
  one that finds the window full, or opens the next. A window of 2 and 4
  instants let a window end between any two requests, and two windows fall into
  one span. One outage or lost reply each way: what it causes does not depend on
  a second one. The limiters of link creation (by user) and of unlocking (by
  address and link) are in the proofs only: their keys have other parts, and no
  other difference.
- Three requests of `LinkStore`: a listing of three pages between two writes, or
  two creations of one alias and a third request that changes or shows it. Two
  attempts, of five, make the loop of generated codes go on once and end; one of
  its two codes is taken at the start, and one of the rows has clicks. Pages of 1 make every boundary one
  between pages. Requests are interchangeable: symmetry.
- Three units of work and three signals: a handler whose client waits, one whose
  client has left and a connection kept alive for another request; and a third
  signal handler behind two that wait for one another.

The proofs do without these bounds.

### Fairness

- `LinkCache`: Redis expires keys, and a request that is past its SQL statement
  runs to its end, as an event loop does not drop a continuation. Nobody has to
  begin a lookup or a write.
- `ClickPipeline`: the worker keeps running (a dead one is restarted), takes
  waiting jobs, and BullMQ promotes delayed jobs and looks for stalled ones.
  Clicks, crashes, evictions and deletions need never happen.
- `RedisOutage`: a handler whose call has settled goes on. Redis need not come
  back. The two violated properties are checked under the stronger
  `PatientSpec`, in which a call that Redis could answer again and again is
  answered: their counterexamples are a Redis that stays down.

- `Shutdown`: a timer that is set goes off. Nothing else is assumed to go on,
  neither requests nor closes: this is what the timer is for.

Runs without liveness use `Spec`. `Accounts`, `LinkStore`, `RateLimit` and
`ClickPipeline` may stop when every request is answered and every job ended,
`Shutdown` when the process has exited, `LinkLifetime` when the clock and the
edits are at their bounds: deadlock is not checked there.

## 4. The proofs

| Module | Theorems | Assumptions on the constants |
|---|---|---|
| `LinkCacheProofs` | `TypeCorrect`, `StaleEntriesExplained`, `OutdatedAnswersExplained`, `SettledCachesStayFresh`, `InvHolds` | `NoRow` and `Absent` are not versions |
| `ClickPipelineProofs` | `TypeCorrect`, `RetriesCorrect`, `CountCorrect`, `CompletedCorrect`, `JobsAreFinite`, `InvHolds`, `PipelineImplementsLedger`, `LedgerCounts` | every click has a link, the markers are no slot or click, at least one attempt |
| `AccountsProofs` | `TypeCorrect`, `IdentitiesCorrect`, `SessionsCorrect`, `SignupsCorrect`, `ConflictsCorrect`, `AccountsImplementDirectory`, `DirectoryKeepsAccountsApart`, `InvHolds` | `None` is not a password or subject |
| `RedisOutageProofs` | `StatesCorrect`, `RedisIsOptional`, `AnswersComeLast`, `HandlersDoAdvance`, `InvHolds` | `None` is not a state, number, kind or status |
| `LinkLifetimeProofs` | `DeadLinksServedBriefly`, `ProtectedLinksNeedTheirToken`, `InvHolds` | TTLs, lag and bounds are natural numbers, `0 < CappedTTL <= LongTTL`, `0 < MissTTL <= LongTTL`, caps are positive, `None` is not a number or password |
| `ShutdownProofs` | `WorkIsNotCut`, `QueuesCloseFirst`, `ZeroMeansClosed`, `InvHolds` | `None` is not a signal or number |
| `RateLimitProofs` | `KeysAreIdentities`, `LimitHolds`, `BurstsAreBounded`, `BlocksAreEarned`, `EnforcementHolds`, `RateLimitImplementsFixedWindow`, `InvHolds` | `TRUST_PROXY` is the number of proxies; limits and windows are positive; `None` is no user, address, code, counter or arrival, and no triple of a limiter, a client and a code |
| `LinkStoreProofs` | `StoreImplementsRegistry`, `ListingsShowAll`, `LinksAreReachable`, `RegistryKeepsLinksApart`, `InvHolds` | the rows at the start have different codes, none reserved; generated codes are not reserved words; finitely many ids; `None` and `Gone` are nothing else |

All follow one scheme: `Init => Inv`, `Inv /\ [Next]_vars => Inv'`, and the
property from `Inv`. What the invariants add:

- `LinkCache`: `FillIsCurrent`. That a stale entry is explained is not inductive:
  the SET of a fill brings in whatever its SELECT read, so one must know that a
  fill nobody overtook still holds the row.
- `LinkCache`, answers: a lookup answers with the entry, whose staleness `Inv`
  explains, or with its own SELECT, which `FillIsCurrent` says is the row unless
  a write came after it. `AgreementLasts` is the safety half of `StalenessEnds`:
  fairness only has to bring a state that is settled.
- `ClickPipeline`: `OpenInsertsExclusive` (an uncommitted insert is the only one
  of its click, the click is not yet recorded, its link cannot go away) and
  `SuccessIsRecorded` (a slot about to report success has its click on record).
  Without the first, two commits could record one click; without the second, a
  duplicate's success could complete a job whose row is nowhere. The refinement
  uses the same invariant: only a COMMIT records, and only with the increment.
  `JobsWearOut` needs only `RetriesBounded`: `Left`, four times the attempts and
  recoveries left plus the place in the queue, is a natural number that every
  step of an unfinished job makes smaller. It is the safety half of
  `EveryJobSettles`; fairness only has to say that some step is taken.
- `Accounts`: `PathOfKind`, `PasswordXorOAuth`, `RacesLeaveRows`: a request that
  retries has lost to a row that exists, and an account has a password or a
  subject id but not both, which is why a password cannot open a Google account.
  The refinement maps each step that answers to one action of `Directory` and
  every other step to a stutter. `PathOfKind` says which answers a statement can
  lead to, `RacesLeaveRows` that the refusing row is there when the refusal is
  told.
- `RedisOutage`: `StatesFresh`: a state still to be stored is no other request's
  and has let nobody pass, so storing it cannot revive a used one. Most actions
  touch no state; `Quiet` says what they have in common and one lemma covers
  them all. `OneCallAtATime` and `CallsMatchKind` (which calls a kind of request
  makes) give `AnsweredAtTheEnd` and `HandlersAdvance`, with one lemma,
  `Progress`, for a call that settles. The latter is the safety half of
  `OutageTolerated`: a handler has finitely many positions.

- `LinkLifetime`: `CopyOK`, `EntryOK`, `RequestOK` bound the age of a copy at
  each stage (in a request, in the entry, in the request that finds it there),
  and say that a copy that still looks alive was read before the row died. The
  two action properties follow by arithmetic from what a request holds when it
  passes.
- `Shutdown`: `StagesOK`: a handler past stage 0 saw no connection open and no
  job active, the earlier stages are closed, and whatever is not open was closed
  by such a handler. As none is taken after a signal, what still runs when
  something is closed has no client; `JobsHaveNoClient` says it is no job.

- `RateLimit`: `NoGaps`, `NoRepetition` (the hits of a window are numbered 1, 2,
  ... by different runs), `WindowsApart` (windows of one key do not overlap) and
  `StoreIsLastRun`, which ties the counter to the runs. `BurstBound` then
  follows by counting: requests passed in a span hold different pairs of a
  window and a hit, a span as long as a window meets at most two windows, and
  `FirstHitOpens` (the first hit of a window is at its beginning) leaves one
  place of the earlier one outside: twice the limit less one. The refinement has
  one step per action; `KeysAreIdentities` makes the counter of a key the window
  of a client.
- `LinkStore`: `CodesOfRows` is the unique index and the reserved words,
  `ScanSoFar` what an unfinished listing owes. A page is read by offset from the
  newest row: an insertion moves rows only to higher offsets, so what was before
  the offset and there at the start has been shown (`RanksGrow`). The refinement
  has one step per action; `OneRow` says how a change of one row changes the
  users' links, `Unseen` which steps the registry does not see.

A refinement is worth what the abstract specification says. `LedgerCounts`,
`DirectoryKeepsAccountsApart` and `RegistryKeepsLinksApart` are proved of
`ClickLedger`, `Directory` and `LinkRegistry` alone, of every behaviour they
allow and not only of those the code has: counters equal rows, an address and
an identity have one account, a code has one link and a link one user.

A leaf of these proofs needs well under a second of either prover, so that a
slower machine does not turn a proof into a timeout.

Only model-checked: `StalenessEnds`, `EveryJobSettles`, `OutageTolerated`, `Ends`
(liveness under fairness is beyond TLAPS), and the three violated claims.

## 5. Findings

1. `linkService.ts:449-451` says invalidation after the write bounds the race to
   "a single stale read". SELECT, UPDATE, DEL, SET puts the old row back for a
   full TTL (300 s); every lookup until then is stale. With the INSERT of an alias
   for the write, which is the run's shortest trace, it is a miss (30 s).
2. `authService.ts:144-146` says a match on the address is a password account,
   and 211-216 that a second concurrent Google sign-in gets the winner's row. If
   the first INSERT falls between the second sign-in's two SELECTs, the second
   gets the 409 meant for password accounts.
3. `redirect.ts:129-144` and its test say a Redis outage costs the click, not
   the redirect. The queue's client has `maxRetriesPerRequest: null`
   (`queues/connection.ts:29`): the add waits, and the redirect with it.
4. `routes/health.ts:8-10` says 503 when a dependency is down. For the same
   reason `/health` is not answered at all while Redis is down.

Read off the code, and of no run:

- `Notes.md:5866-5869` says that extending `expiresAt` reverses an expiry. The
  sweep has cleared `is_active` by then (`linkCleanupProcessor.ts:35-39`), which
  such a PATCH leaves false (`linkService.ts:262-274`): the link stays dead until
  `isActive` is set too.
- `server.ts:31-33` and `54-58` say in-flight requests finish before their pool
  and Redis are closed. `server.close` (48) waits for connections: when a client
  leaves while its handler awaits, the resources may be closed under the handler,
  and the process exits with 0. `Shutdown` has these behaviours and promises the
  rest. The limiter's connection (`rateLimitRedis.ts:40`) is never closed.
- `clickQueue.ts:8-10` promises some 30 s of retries including a 16 s delay, but
  five attempts have four delays, 1+2+4+8 = 15 s.

## 6. Plan

The order was: the data every request depends on (cache), the data that must not
be lost (clicks), the data that must not be mixed up (accounts), the failure
that crosses all of them (outage), time (lifetime), the end (shutdown), then the
counters that bound the load (rate limits) and the whole of `/api/links` with
its abstract specification (link store). Next:

1. In `LinkLifetime`: how far a cap is overshot, as a function of what was queued
   at the fill and served from it; a second clock, for the sweep and the copies
   read by another host than the one that judges them.
2. In `Shutdown`: the waiting calls of `RedisOutage` as what a unit of work hangs
   on.
3. Composition: the cache and the click pipeline on one row, so that
   `click_count` in a cached copy is tied to the ledger's count.
4. Proofs: the safety properties of the above.

## 7. Not modelled

`PROJECT.json` lists every component with the reason. In short: hashing, signing,
parsing, validation (but for the refusal of reserved aliases), headers, logging,
configuration and OpenAPI have no shared state; migrations and scripts are not
part of the running system. Postgres, Redis, BullMQ and Google are
external and modelled from how the code uses them.
