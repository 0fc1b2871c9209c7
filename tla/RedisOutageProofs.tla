-------------------------- MODULE RedisOutageProofs --------------------------
(***************************************************************************)
(* The safety part of RedisOutage for any number of requests and states.   *)
(*                                                                         *)
(* Most steps concern one request and no OAuth state: Quiet says what they *)
(* have in common, and one lemma shows that Inv outlives it.  What is left *)
(* are the arrival of a request and the steps that touch a state.          *)
(***************************************************************************)
EXTENDS RedisOutage, TLAPS

USE DEF HealthCalls

(* The part of Inv that concerns states, kinds and excuses.                *)
StatesInv == /\ TypeOK
             /\ OnlyOthersFail
             /\ SignInsPassed
             /\ StatesFresh
             /\ CallsMatchKind
             /\ StatesSingleUse

(* A step of request r after which r awaits the calls S: none of them for  *)
(* an OAuth state, and no health check that it did not await before.       *)
QuietCalls == Calls \ {"store", "consume", "signin"}

Quiet(r) ==
  /\ UNCHANGED <<redis, kind, token, stateVars>>
  /\ failed' \in {failed, failed \union {r}}
  /\ \E S \in SUBSET QuietCalls : /\ at' = [at EXCEPT ![r] = S]
                                 /\ S \intersect HealthCalls \subseteq at[r]
  /\ \/ UNCHANGED answer
     \/ \E status \in Answers :
          /\ answer' = [answer EXCEPT ![r] = status]
          /\ status = "500" => kind[r] \in {"google", "callback"} \/ r \in failed'

(* A quiet step preserves it.                                              *)
LEMMA QuietPreserves ==
  ASSUME Inv, NEW r \in Requests, kind[r] # None, Quiet(r)
  PROVE  StatesInv'
<1> USE DEF Inv, StatesInv, TypeOK, QuietCalls, stateVars
<1>1. TypeOK'
  BY DEF Quiet
<1>2. OnlyOthersFail'
  BY DEF Quiet, OnlyOthersFail
<1>3. SignInsPassed' /\ StatesFresh'
  BY DEF Quiet, SignInsPassed, StatesFresh
<1>4. CallsMatchKind'
  BY DEF Quiet, CallsMatchKind
<1>5. StatesSingleUse'
  BY DEF Quiet, StatesSingleUse
<1> QED BY <1>1, <1>2, <1>3, <1>4, <1>5

(* Sending an answer is quiet; a 500 needs its excuse.                     *)
LEMMA SendQuiet ==
  ASSUME NEW r \in Requests, NEW status \in Answers, Send(r, status),
         UNCHANGED <<redis, stateVars>>, failed' \in {failed, failed \union {r}},
         status = "500" => kind[r] \in {"google", "callback"} \/ r \in failed'
  PROVE  Quiet(r)
<1>1. {} \in SUBSET QuietCalls /\ {} \intersect HealthCalls \subseteq at[r]
  OBVIOUS
<1> QED BY <1>1 DEF Send, Quiet

(* So is going on to a call that is not for an OAuth state.                *)
LEMMA AwaitQuiet ==
  ASSUME NEW r \in Requests, NEW c \in {"get", "select", "set", "add"}, Await(r, c),
         UNCHANGED <<redis, failed, stateVars>>
  PROVE  Quiet(r)
BY DEF Await, Quiet, QuietCalls, Calls, RedisCalls, CacheCalls, QueueCalls, OtherCalls

(* A request that awaits a call has arrived.                               *)
LEMMA Arrived ==
  ASSUME Inv, NEW r \in Requests, NEW c \in at[r]
  PROVE  kind[r] # None
BY DEF Inv, CallsMatchKind

(* The steps of the redirect, the unlock and their link lookup are quiet.  *)
LEMMA LookupQuiet ==
  ASSUME Inv, NEW r \in Requests, Lookup(r)
  PROVE  kind[r] # None /\ Quiet(r)
<1>1. {"200", "302", "400", "401", "404", "410", "429", "500"} \subseteq Answers
  BY DEF Answers
<1>2. UNCHANGED stateVars
  BY DEF Lookup
<1>3. ASSUME Judge(r), UNCHANGED <<redis, failed>>
      PROVE  Quiet(r)
  BY <1>1, <1>2, <1>3, SendQuiet, AwaitQuiet DEF Judge
<1>4. CASE (LimitCounts(r) \/ LimitFails(r)) /\ UNCHANGED failed
  BY <1>1, <1>2, <1>4, Arrived, SendQuiet, AwaitQuiet
     DEF LimitCounts, LimitFails, Validate, Reply, Reject
<1>5. CASE (GetMiss(r) \/ GetFails(r)) /\ UNCHANGED failed
  BY <1>2, <1>5, Arrived, AwaitQuiet DEF GetMiss, GetFails, Reply, Reject
<1>6. CASE (GetHit(r) \/ Set(r) \/ SetFails(r)) /\ UNCHANGED failed
  BY <1>3, <1>6, Arrived DEF GetHit, Set, SetFails, Reply, Reject
<1>7. CASE (Add(r) \/ AddFails(r)) /\ UNCHANGED failed
  BY <1>1, <1>2, <1>7, Arrived, SendQuiet DEF Add, AddFails, Reply, Reject
<1>8. CASE Select(r)
  BY <1>2, <1>8, Arrived, AwaitQuiet DEF Select, OtherReply
<1>9. CASE SelectFails(r)
  BY <1>1, <1>2, <1>9, Arrived, SendQuiet DEF SelectFails, OtherReject
<1> QED BY <1>4, <1>5, <1>6, <1>7, <1>8, <1>9 DEF Lookup

(* The three checks of /health are quiet: they answer 200 or 503.          *)
LEMMA HealthQuiet ==
  ASSUME Inv, NEW r \in Requests, Health(r)
  PROVE  kind[r] # None /\ Quiet(r)
<1>1. ASSUME NEW c \in HealthCalls, c \in at[r], Checked(r, c),
             UNCHANGED redis, failed' \in {failed, failed \union {r}},
             at[r] \intersect {"store", "consume", "signin"} = {}
      PROVE  Quiet(r)
  <2>1. at' = [at EXCEPT ![r] = at[r] \ {c}] /\ at[r] \ {c} \in SUBSET QuietCalls
    BY <1>1 DEF Checked, QuietCalls, Inv, TypeOK
  <2>2. \/ UNCHANGED answer
        \/ \E status \in {"200", "503"} : answer' = [answer EXCEPT ![r] = status]
    BY <1>1 DEF Checked
  <2> QED BY <1>1, <2>1, <2>2 DEF Quiet, Checked, Answers
<1>2. at[r] \intersect HealthCalls # {}
  BY DEF Health, CheckDb, CheckRedis, CheckFails, OtherReply, OtherReject, Reply, Reject
<1>3. at[r] \intersect {"store", "consume", "signin"} = {} /\ kind[r] # None
  BY <1>2, RedisOutageAssumption
     DEF Inv, SignInsPassed, CallsMatchKind, Kinds
<1>4. CASE CheckDb(r)
  BY <1>1, <1>3, <1>4 DEF CheckDb, OtherReply, OtherReject
<1>5. CASE \E c \in {"ping", "depth"} : CheckRedis(r, c) \/ CheckFails(r, c)
  BY <1>1, <1>3, <1>5 DEF CheckRedis, CheckFails, Reply, Reject
<1> QED BY <1>3, <1>4, <1>5 DEF Health

(* So are the steps of the callback that leave its state alone.            *)
LEMMA SignInQuiet ==
  ASSUME Inv, NEW r \in Requests, ConsumeNull(r) \/ ConsumeFails(r) \/ SignIn(r)
  PROVE  kind[r] # None /\ Quiet(r)
<1>1. {"302", "400", "409", "500"} \subseteq Answers
  BY DEF Answers
<1>2. kind[r] = "callback" /\ kind[r] # None
  BY RedisOutageAssumption
     DEF ConsumeNull, ConsumeFails, SignIn, Reply, Reject, OtherReply, OtherReject,
         Inv, SignInsPassed, CallsMatchKind, Kinds
<1>3. CASE ConsumeNull(r)
  BY <1>1, <1>2, <1>3, SendQuiet DEF ConsumeNull, Reply
<1>4. CASE ConsumeFails(r)
  BY <1>1, <1>2, <1>4, SendQuiet DEF ConsumeFails, Reject
<1>5. CASE SignIn(r)
  BY <1>1, <1>2, <1>5, SendQuiet DEF SignIn, OtherReply, OtherReject
<1> QED BY <1>2, <1>3, <1>4, <1>5

-----------------------------------------------------------------------------
(* The arrival of a request preserves Inv: the state that /google draws is *)
(* nobody else's.                                                          *)
LEMMA StartPreserves ==
  ASSUME Inv, NEW r \in Requests, NEW k \in Kinds, Start(r, k)
  PROVE  StatesInv'
<1> USE DEF Inv, StatesInv, TypeOK
<1>1. /\ kind[r] = None /\ at[r] = {} /\ answer[r] = None /\ r \notin passed
      /\ kind' = [kind EXCEPT ![r] = k] /\ at' = [at EXCEPT ![r] = FirstCalls[k]]
      /\ UNCHANGED <<redis, answer, failed, stored, passed>>
  BY RedisOutageAssumption DEF Start, CallsMatchKind, Kinds
<1>2. /\ issued \subseteq issued' /\ issued' \subseteq States
      /\ token' \in [Requests -> States \union {None}]
      /\ \A q \in Requests \ {r} : token'[q] = token[q]
      /\ k \in {"google", "callback"} => token'[r] \in States
      /\ k = "google" => token'[r] \in issued' \ issued
  BY DEF Start
<1>3. FirstCalls[k] \in SUBSET Calls
  BY DEF FirstCalls, Kinds, Calls, RedisCalls, CacheCalls, QueueCalls, OtherCalls
<1>4. TypeOK'
  BY <1>1, <1>2, <1>3
<1>5. OnlyOthersFail' /\ SignInsPassed'
  BY <1>1, RedisOutageAssumption DEF OnlyOthersFail, SignInsPassed, FirstCalls, Kinds, Answers
<1>6. StatesSingleUse'
  BY <1>1, <1>2 DEF StatesSingleUse
<1>7. StatesFresh'
  BY <1>1, <1>2, <1>6 DEF StatesFresh, StatesSingleUse, FirstCalls, Kinds
<1>8. CallsMatchKind'
  BY <1>1, RedisOutageAssumption DEF CallsMatchKind, FirstCalls, Kinds
<1> QED BY <1>4, <1>5, <1>6, <1>7, <1>8

(* Storing a state, or failing to be told that it is stored.               *)
LEMMA StorePreserves ==
  ASSUME Inv, NEW r \in Requests, Store(r) \/ StoreFails(r)
  PROVE  StatesInv'
<1> USE DEF Inv, StatesInv, TypeOK
<1>1. /\ kind[r] = "google" /\ token[r] \in issued
      /\ \A q \in passed : token[q] # token[r]
      /\ \A q \in Requests \ {r} : "store" \in at[q] => token[q] # token[r]
  BY DEF Store, StoreFails, Reply, Reject, StatesFresh, CallsMatchKind
<1>2. /\ at' = [at EXCEPT ![r] = {}]
      /\ \E status \in Answers : answer' = [answer EXCEPT ![r] = status]
      /\ stored' \in {stored, stored \union {token[r]}}
      /\ UNCHANGED <<redis, kind, token, failed, issued, passed>>
  BY DEF Store, StoreFails, Reply, Reject, Send, Answers
<1>3. TypeOK'
  BY <1>1, <1>2
<1>4. OnlyOthersFail' /\ SignInsPassed' /\ CallsMatchKind'
  BY <1>1, <1>2, RedisOutageAssumption
     DEF OnlyOthersFail, SignInsPassed, CallsMatchKind, Kinds
<1>5. StatesFresh' /\ StatesSingleUse'
  BY <1>1, <1>2 DEF StatesFresh, StatesSingleUse
<1> QED BY <1>3, <1>4, <1>5

(* Accepting a state: it was stored, so nobody passed with it before.      *)
LEMMA ConsumePreserves ==
  ASSUME Inv, NEW r \in Requests, Consume(r)
  PROVE  StatesInv'
<1> USE DEF Inv, StatesInv, TypeOK
<1>1. /\ kind[r] = "callback" /\ token[r] \in stored /\ token[r] \in States
      /\ \A q \in passed : token[q] # token[r]
  BY DEF Consume, Reply, StatesFresh, StatesSingleUse, CallsMatchKind
<1>2. /\ \E S \in {{}, {"signin"}} : at' = [at EXCEPT ![r] = S]
      /\ \/ UNCHANGED answer
         \/ \E status \in {"302", "400"} : answer' = [answer EXCEPT ![r] = status]
      /\ stored' = stored \ {token[r]}
      /\ passed' = passed \union {r}
      /\ UNCHANGED <<redis, kind, token, failed, issued>>
  BY DEF Consume, Reply, Send, Await
<1>3. TypeOK'
  BY <1>1, <1>2 DEF Answers, Calls, OtherCalls
<1>4. OnlyOthersFail' /\ SignInsPassed' /\ CallsMatchKind'
  BY <1>1, <1>2, RedisOutageAssumption
     DEF OnlyOthersFail, SignInsPassed, CallsMatchKind, Kinds
<1>5. StatesFresh' /\ StatesSingleUse'
  BY <1>1, <1>2 DEF StatesFresh, StatesSingleUse
<1> QED BY <1>3, <1>4, <1>5

(* Redis may lose states at any time.                                      *)
LEMMA LossPreserves ==
  ASSUME Inv, stored' \in SUBSET stored, redis' \in {"up", "down"},
         UNCHANGED <<reqVars, failed, issued, passed>>
  PROVE  StatesInv'
BY DEF Inv, StatesInv, TypeOK, OnlyOthersFail, SignInsPassed, StatesFresh, CallsMatchKind,
       StatesSingleUse, reqVars

-----------------------------------------------------------------------------
(* Handlers advance. *)

(* From what request r awaits, S is a step forward.                        *)
Forward(r, S) ==
  \/ S \subseteq at[r]
  \/ \A c \in at[r], d \in S : Position[c] < Position[d]

(* What every step of a handler does to the calls and the answer of its    *)
(* request: on to later calls or fewer, and an answer with the last.       *)
Progress(r) ==
  /\ kind[r] # None /\ at[r] # {}
  /\ UNCHANGED kind
  /\ \E S \in SUBSET Calls :
       /\ at' = [at EXCEPT ![r] = S]
       /\ Forward(r, S)
       /\ S \subseteq HealthCalls \/ \E c \in Calls : S = {c}
       /\ IF S = {} THEN \E status \in Answers : answer' = [answer EXCEPT ![r] = status]
          ELSE UNCHANGED answer

(* Where the calls stand.                                                  *)
LEMMA Positions ==
  /\ {"limit", "get", "select", "set", "add", "consume", "signin", "store"} \union HealthCalls
       \subseteq Calls
  /\ Position["limit"] = 1 /\ Position["get"] = 2 /\ Position["select"] = 3
  /\ Position["set"] = 4 /\ Position["add"] = 5
  /\ Position["consume"] = 1 /\ Position["signin"] = 2
BY DEF Position, Calls, RedisCalls, CacheCalls, QueueCalls, OtherCalls, HealthCalls

(* An answer leaves nothing awaited.                                       *)
LEMMA SendProgress ==
  ASSUME Inv, NEW r \in Requests, NEW c \in at[r],
         NEW status \in Answers, Send(r, status)
  PROVE  Progress(r)
<1>1. {} \in SUBSET Calls /\ {} \subseteq HealthCalls /\ Forward(r, {})
  BY DEF Forward
<1> QED BY <1>1, Arrived DEF Send, Progress

(* A call awaited alone is followed by a later one.                        *)
LEMMA AwaitProgress ==
  ASSUME Inv, NEW r \in Requests, NEW c \in at[r] \ HealthCalls,
         NEW d \in Calls, Await(r, d), Position[c] < Position[d]
  PROVE  Progress(r)
<1>1. at[r] = {c}
  BY DEF Inv, OneCallAtATime
<1>2. {d} \in SUBSET Calls /\ Forward(r, {d}) /\ {d} # {}
  BY <1>1 DEF Forward
<1> QED BY <1>1, <1>2, Arrived DEF Await, Progress

(* The verdict on a link is an answer or the enqueue.                      *)
LEMMA JudgeProgress ==
  ASSUME Inv, NEW r \in Requests, NEW c \in {"get", "set"}, c \in at[r], Judge(r)
  PROVE  Progress(r)
<1>1. {"200", "302", "401", "404", "410"} \subseteq Answers
  BY DEF Answers
<1>2. c \notin HealthCalls /\ Position[c] < Position["add"] /\ "add" \in Calls
  BY Positions DEF HealthCalls
<1> QED BY <1>1, <1>2, SendProgress, AwaitProgress DEF Judge

(* The redirect, the unlock and the lookup advance.                        *)
LEMMA LookupProgress ==
  ASSUME Inv, NEW r \in Requests, Lookup(r)
  PROVE  Progress(r)
<1>1. {"302", "400", "429", "500"} \subseteq Answers
  BY DEF Answers
<1>2. {"limit", "get", "select", "set", "add"} \intersect HealthCalls = {}
  BY DEF HealthCalls
<1>3. CASE LimitCounts(r) \/ LimitFails(r)
  <2>1. "limit" \in at[r] /\ (Await(r, "get") \/ Send(r, "400") \/ Send(r, "429"))
    BY <1>3 DEF LimitCounts, LimitFails, Validate, Reply, Reject
  <2> QED BY <1>1, <1>2, <2>1, Positions, SendProgress, AwaitProgress
<1>4. CASE GetMiss(r) \/ GetFails(r)
  <2>1. "get" \in at[r] /\ Await(r, "select")
    BY <1>4 DEF GetMiss, GetFails, Reply, Reject
  <2> QED BY <1>2, <2>1, Positions, AwaitProgress
<1>5. CASE GetHit(r) \/ Set(r) \/ SetFails(r)
  BY <1>5, JudgeProgress DEF GetHit, Set, SetFails, Reply, Reject
<1>6. CASE Add(r) \/ AddFails(r)
  BY <1>1, <1>6, SendProgress DEF Add, AddFails, Reply, Reject
<1>7. CASE Select(r)
  <2>1. "select" \in at[r] /\ Await(r, "set")
    BY <1>7 DEF Select, OtherReply
  <2> QED BY <1>2, <2>1, Positions, AwaitProgress
<1>8. CASE SelectFails(r)
  BY <1>1, <1>8, SendProgress DEF SelectFails, OtherReject
<1> QED BY <1>3, <1>4, <1>5, <1>6, <1>7, <1>8 DEF Lookup

(* A health check leaves the others to wait for, the last one an answer.   *)
LEMMA HealthProgress ==
  ASSUME Inv, NEW r \in Requests, Health(r)
  PROVE  Progress(r)
<1> PICK c \in HealthCalls : c \in at[r] /\ Checked(r, c)
  BY DEF Health, CheckDb, CheckRedis, CheckFails, OtherReply, OtherReject, Reply,
     Reject, HealthCalls
<1> DEFINE S == at[r] \ {c}
<1>1. at[r] \subseteq HealthCalls /\ at[r] \subseteq Calls
  BY DEF Inv, TypeOK, OneCallAtATime
<1>2. S \in SUBSET Calls /\ S \subseteq HealthCalls /\ Forward(r, S)
  BY <1>1 DEF Forward
<1>3. S = {} <=> at[r] = {c}
  OBVIOUS
<1>4. IF S = {} THEN \E status \in Answers : answer' = [answer EXCEPT ![r] = status]
      ELSE UNCHANGED answer
  BY <1>3 DEF Checked, Answers
<1>5. at' = [at EXCEPT ![r] = S] /\ UNCHANGED kind
  BY DEF Checked
<1> QED BY <1>2, <1>4, <1>5, Arrived DEF Progress

(* The Google sign-in advances.                                            *)
LEMMA OAuthProgress ==
  ASSUME Inv, NEW r \in Requests, OAuth(r)
  PROVE  Progress(r)
<1>1. {"302", "400", "409", "500"} \subseteq Answers
  BY DEF Answers
<1>2. CASE Store(r) \/ StoreFails(r)
  BY <1>1, <1>2, SendProgress DEF Store, StoreFails, Reply, Reject
<1>3. CASE Consume(r)
  <2>1. "consume" \in at[r] /\ (Await(r, "signin") \/ Send(r, "302") \/ Send(r, "400"))
    BY <1>3 DEF Consume, Reply
  <2> QED BY <1>1, <2>1, Positions, SendProgress, AwaitProgress DEF HealthCalls
<1>4. CASE ConsumeNull(r) \/ ConsumeFails(r)
  BY <1>1, <1>4, SendProgress DEF ConsumeNull, ConsumeFails, Reply, Reject
<1>5. CASE SignIn(r)
  BY <1>1, <1>5, SendProgress DEF SignIn, OtherReply, OtherReject
<1> QED BY <1>2, <1>3, <1>4, <1>5 DEF OAuth

(* Every step of a handler advances its request.                           *)
LEMMA HandleProgress ==
  ASSUME Inv, NEW r \in Requests, Handle(r)
  PROVE  Progress(r)
BY LookupProgress, HealthProgress, OAuthProgress DEF Handle

(* Progress keeps requests answered exactly when they await nothing.       *)
LEMMA ProgressPreserves ==
  ASSUME Inv, NEW r \in Requests, Progress(r)
  PROVE  AnsweredAtTheEnd' /\ OneCallAtATime'
<1> USE DEF Inv, TypeOK
<1> PICK S \in SUBSET Calls :
       /\ at' = [at EXCEPT ![r] = S]
       /\ S \subseteq HealthCalls \/ \E c \in Calls : S = {c}
       /\ IF S = {} THEN \E status \in Answers : answer' = [answer EXCEPT ![r] = status]
          ELSE UNCHANGED answer
  BY DEF Progress
<1>1. OneCallAtATime'
  BY DEF OneCallAtATime
<1>2. answer[r] = None /\ UNCHANGED kind
  BY DEF Progress, AnsweredAtTheEnd
<1>3. AnsweredAtTheEnd'
  <2>1. CASE S = {}
    BY <1>2, <2>1, RedisOutageAssumption DEF AnsweredAtTheEnd
  <2>2. CASE S # {}
    BY <1>2, <2>2 DEF AnsweredAtTheEnd
  <2> QED BY <2>1, <2>2
<1> QED BY <1>1, <1>3

(* So does the arrival of a request.                                       *)
LEMMA StartAwaits ==
  ASSUME Inv, NEW r \in Requests, NEW k \in Kinds, Start(r, k)
  PROVE  AnsweredAtTheEnd' /\ OneCallAtATime'
<1> USE DEF Inv, TypeOK
<1>1. FirstCalls[k] # {} /\ (FirstCalls[k] \subseteq HealthCalls
                             \/ \E c \in Calls : FirstCalls[k] = {c})
  BY Positions DEF FirstCalls, Kinds, HealthCalls
<1>2. /\ answer[r] = None /\ UNCHANGED answer
      /\ kind' = [kind EXCEPT ![r] = k] /\ at' = [at EXCEPT ![r] = FirstCalls[k]]
  BY DEF Start, CallsMatchKind
<1> QED BY <1>1, <1>2 DEF AnsweredAtTheEnd, OneCallAtATime

-----------------------------------------------------------------------------
(* What is known of the requests and their states holds for any number of  *)
(* them.                                                                   *)
THEOREM InvHolds == Spec => []Inv
<1>1. Init => Inv
  BY RedisOutageAssumption
     DEF Init, Inv, TypeOK, Answers, OnlyOthersFail, SignInsPassed, StatesFresh, CallsMatchKind,
         StatesSingleUse, AnsweredAtTheEnd, OneCallAtATime, HealthCalls
<1>2. Inv /\ [Next]_vars => Inv'
  <2> SUFFICES ASSUME Inv, [Next]_vars PROVE Inv'
    OBVIOUS
  <2>1. ASSUME StatesInv', AnsweredAtTheEnd', OneCallAtATime' PROVE Inv'
    BY <2>1 DEF StatesInv, Inv
  <2>2. ASSUME UNCHANGED reqVars PROVE AnsweredAtTheEnd' /\ OneCallAtATime'
    BY <2>2 DEF Inv, reqVars, AnsweredAtTheEnd, OneCallAtATime
  <2>3. ASSUME NEW r \in Requests, Handle(r) PROVE Inv'
    BY <2>1, <2>3, LookupQuiet, HealthQuiet, SignInQuiet, QuietPreserves, StorePreserves,
       ConsumePreserves, HandleProgress, ProgressPreserves DEF Handle, OAuth
  <2>4. ASSUME NEW r \in Requests, ConsumeUnheard(r) PROVE Inv'
    BY <2>1, <2>2, <2>4, LossPreserves DEF ConsumeUnheard, reqVars, Inv, TypeOK
  <2>5. ASSUME NEW r \in Requests, NEW k \in Kinds, Start(r, k) PROVE Inv'
    BY <2>1, <2>5, StartPreserves, StartAwaits
  <2>6. ASSUME NEW s \in States, ExpireState(s) PROVE Inv'
    BY <2>1, <2>2, <2>6, LossPreserves DEF ExpireState, Inv, TypeOK
  <2>7. CASE GoDown \/ ComeBack
    BY <2>1, <2>2, <2>7, LossPreserves DEF GoDown, ComeBack, stateVars
  <2>8. CASE UNCHANGED vars
    BY <2>1, <2>2, <2>8, LossPreserves DEF vars, stateVars, Inv, TypeOK
  <2> QED BY <2>3, <2>4, <2>5, <2>6, <2>7, <2>8 DEF Next
<1> QED BY <1>1, <1>2, PTL DEF Spec

(* However many callbacks race on a state, and whatever Redis forgets or   *)
(* answers late, at most one of them passes, with a state the API issued   *)
(* (oauthState.ts:29-36).                                                  *)
THEOREM StatesCorrect == Spec => []StatesSingleUse
<1>1. Inv => StatesSingleUse
  BY DEF Inv
<1> QED BY <1>1, InvHolds, PTL

(* Redis alone makes no request fail but a Google sign-in.                 *)
THEOREM RedisIsOptional == Spec => []OnlyOthersFail
<1>1. Inv => OnlyOthersFail
  BY DEF Inv
<1> QED BY <1>1, InvHolds, PTL

(* A request is answered when, and only when, it awaits nothing any more.  *)
THEOREM AnswersComeLast == Spec => []AnsweredAtTheEnd
<1>1. Inv => AnsweredAtTheEnd
  BY DEF Inv
<1> QED BY <1>1, InvHolds, PTL

(* No handler goes back or answers twice, however Redis comes and goes:    *)
(* the safety half of OutageTolerated.                                     *)
THEOREM HandlersDoAdvance == Spec => HandlersAdvance
<1> DEFINE Advance(r) ==
      /\ kind[r] # None /\ at'[r] # at[r] => Forward(r, at'[r])
      /\ answer[r] # None => UNCHANGED <<at[r], answer[r]>>
<1>1. ASSUME Inv, [Next]_vars, NEW q \in Requests
      PROVE  Advance(q)
  <2>1. ASSUME NEW r \in Requests, Handle(r) PROVE Advance(q)
    <3>1. Progress(r)
      BY <1>1, <2>1, HandleProgress
    <3>2. answer[r] = None
      BY <1>1, <3>1 DEF Progress, Inv, AnsweredAtTheEnd
    <3>3. CASE q = r
      BY <1>1, <3>1, <3>2, <3>3 DEF Progress, Inv, TypeOK
    <3>4. CASE q # r
      BY <1>1, <3>1, <3>4 DEF Progress, Inv, TypeOK
    <3> QED BY <3>3, <3>4
  <2>2. ASSUME NEW r \in Requests, NEW k \in Kinds, Start(r, k) PROVE Advance(q)
    BY <1>1, <2>2 DEF Start, Inv, TypeOK, CallsMatchKind
  <2>3. CASE UNCHANGED reqVars
    BY <2>3 DEF reqVars
  <2>4. \/ \E r \in Requests : ConsumeUnheard(r)
        \/ (\E s \in States : ExpireState(s)) \/ GoDown \/ ComeBack \/ UNCHANGED vars
        => UNCHANGED reqVars
    BY DEF ConsumeUnheard, ExpireState, GoDown, ComeBack, vars
  <2> QED BY <1>1, <2>1, <2>2, <2>3, <2>4 DEF Next
<1>2. Inv /\ [Next]_vars => [\A r \in Requests : Advance(r)]_vars
  BY <1>1
<1> QED BY <1>2, InvHolds, PTL DEF Spec, HandlersAdvance, Forward
=============================================================================
