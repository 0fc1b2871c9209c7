------------------------------ MODULE Shutdown ------------------------------
(***************************************************************************)
(* How the API process and the worker process end after SIGTERM or SIGINT  *)
(* (server.ts, worker/index.ts, worker/shutdown.ts).                       *)
(*                                                                         *)
(* Both do the same in different orders: take no more work, wait for the   *)
(* work under way, close what it used, exit; ten seconds after the signal  *)
(* a timer exits in any case.  What the API waits for are connections: a   *)
(* handler whose client has left is not waited for.  A behaviour is of one *)
(* of the two; a unit of work is a connection with its requests, or a job. *)
(***************************************************************************)
EXTENDS Naturals, Sequences

CONSTANTS
  Units,    \* connections to the API, or jobs of the worker
  Signals,  \* SIGTERM and SIGINT, each delivery a signal of its own
  None

ASSUME ShutdownAssumption == None \notin Signals /\ None \notin Nat

Resources == {"pool", "redis", "rateLimitRedis", "clickQueue", "cleanupQueue",
              "queueConnection"}

Queues == {"clickQueue", "cleanupQueue"}

(* What a unit of work may be waiting for.                                 *)
Uses == [api    |-> {"pool", "redis", "rateLimitRedis", "clickQueue", "queueConnection"},
         worker |-> {"pool", "redis"}]

(* The Redis connection under each process's queues.                       *)
ConnectionOf == [api |-> "queueConnection", worker |-> "redis"]

(* Mutant: queueConnection quits together with the queues. *)
StagesAtOnce ==
  [api    |-> << {"pool", "redis", "clickQueue", "cleanupQueue", "queueConnection"} >>,
   worker |-> << {"clickQueue", "cleanupQueue"}, {"pool"}, {"redis"} >>]

(* What is closed, in turn; what is in one set is closed together.  The    *)
(* connection of the rate limiter is in no stage: it stays until the exit. *)
Stages ==
  [api    |-> << {"pool", "redis", "clickQueue", "cleanupQueue"}, {"queueConnection"} >>,
   worker |-> << {"clickQueue", "cleanupQueue"}, {"pool"}, {"redis"} >>]

VARIABLES
  process,  \* which of the two this is
  unit,     \* "new"; "idle", a connection without a request; "busy"; "alone", a
            \* request whose connection is gone; "done"; "broken" or "lost", ended
            \* by a closed resource while it was busy or alone
  call,     \* what each request or job awaits
  res,      \* "open", "closing" or "closed"
  first,    \* the signal that came first
  at,       \* each signal's handler: None, 0 (waiting for the work), or its stage
  exit,     \* the exit code; None while the process runs
  why       \* history: "stages", "again", "close" or "timer", what ended it

vars == <<process, unit, call, res, first, at, exit, why>>

TypeOK ==
  /\ process \in {"api", "worker"}
  /\ unit \in [Units -> {"new", "idle", "busy", "alone", "done", "broken", "lost"}]
  /\ call \in [Units -> Resources \union {None}]
  /\ res \in [Resources -> {"open", "closing", "closed"}]
  /\ first \in Signals \union {None}
  /\ at \in [Signals -> 0..3 \union {None}]
  /\ exit \in {0, 1, None}
  /\ why \in {None, "stages", "again", "close", "timer"}

Init ==
  /\ process \in {"api", "worker"}
  /\ unit = [u \in Units |-> "new"]
  /\ call = [u \in Units |-> None]
  /\ res = [x \in Resources |-> "open"]
  /\ first = None
  /\ at = [s \in Signals |-> None]
  /\ exit = None
  /\ why = None

(* A handler or a processor is running.                                    *)
Running(u) == unit[u] \in {"busy", "alone"}

(* A connection is open, or a job active: what the drain waits for.        *)
Open(u) == unit[u] \in {"idle", "busy"}

Become(u, what) == unit' = [unit EXCEPT ![u] = what]

-----------------------------------------------------------------------------
(* The work: connections to app with their requests, jobs of the Workers. *)

(* A connection or a job is taken; after a signal, none.                   *)
Accept(u) ==
  /\ exit = None
  /\ first = None
  /\ unit[u] = "new"
  /\ Become(u, IF process = "api" THEN "idle" ELSE "busy")
  /\ UNCHANGED <<process, call, res, first, at, exit, why>>

(* A request on an open connection, after a signal too.                    *)
Request(u) ==
  /\ exit = None
  /\ unit[u] = "idle"
  /\ Become(u, "busy")
  /\ UNCHANGED <<process, call, res, first, at, exit, why>>

(* The client leaves, or an idle connection times out; a handler runs on.  *)
Disconnect(u) ==
  /\ exit = None
  /\ process = "api"
  /\ Open(u)
  /\ Become(u, IF unit[u] = "busy" THEN "alone" ELSE "done")
  /\ UNCHANGED <<process, call, res, first, at, exit, why>>

Call(u, x) ==
  /\ exit = None
  /\ Running(u)
  /\ call[u] = None
  /\ call' = [call EXCEPT ![u] = x]
  /\ UNCHANGED <<process, unit, res, first, at, exit, why>>

(* The await is over.  If what is awaited is no longer open, it may be an  *)
(* error that is not the unit's own.                                       *)
Return(u) ==
  /\ exit = None
  /\ Running(u)
  /\ call[u] # None
  /\ call' = [call EXCEPT ![u] = None]
  /\ \/ UNCHANGED unit
     \/ /\ res[call[u]] # "open"
        /\ Become(u, IF unit[u] = "busy" THEN "broken" ELSE "lost")
  /\ UNCHANGED <<process, res, first, at, exit, why>>

(* The response is sent, and the connection may be kept alive; the job is  *)
(* completed or failed in Redis.                                           *)
Finish(u) ==
  /\ exit = None
  /\ Running(u)
  /\ call[u] = None
  /\ \/ Become(u, "done")
     \/ process = "api" /\ unit[u] = "busy" /\ Become(u, "idle")
  /\ UNCHANGED <<process, call, res, first, at, exit, why>>

Work(u) ==
  \/ Accept(u) \/ Request(u) \/ Disconnect(u)
  \/ (\E x \in Uses[process] : Call(u, x)) \/ Return(u) \/ Finish(u)

-----------------------------------------------------------------------------
(* The end. *)

(* process.exit.                                                           *)
Exit(code, reason) ==
  /\ exit' = code
  /\ why' = reason
  /\ UNCHANGED <<process, unit, call, res, first>>

(* shutdown(signal): server.close, or close of each Worker, and the timer. *)
(* server.close closes idle connections, but one on which a request is     *)
(* about to come, or none came yet, may stay open.                         *)
Signal(s) ==
  /\ exit = None
  /\ at[s] = None
  /\ at' = [at EXCEPT ![s] = 0]
  /\ first' = IF first = None THEN s ELSE first
  /\ \E closed \in SUBSET {u \in Units : unit[u] = "idle"} :
       unit' = [u \in Units |-> IF u \in closed THEN "done" ELSE unit[u]]
  /\ UNCHANGED <<process, call, res, exit, why>>

(* The stage that handler s enters, unless it was the last.                *)
Enter(s, k) ==
  /\ at' = [at EXCEPT ![s] = k]
  /\ res' = [x \in Resources |->
               IF x \in Stages[process][k] /\ res[x] = "open" THEN "closing" ELSE res[x]]
  /\ UNCHANGED <<process, unit, call, first, exit, why>>

(* pool.end rejects when it was called before.                             *)
EndedTwice(k) == process = "worker" /\ "pool" \in Stages[process][k] /\ res["pool"] # "open"

(* Mutant: what the work uses is closed without waiting for it. *)
DrainAtOnce(s) ==
  /\ exit = None
  /\ at[s] = 0
  /\ Enter(s, 1)

(* Mutant: requests are waited for, and not connections. *)
DrainRequests(s) ==
  /\ exit = None
  /\ at[s] = 0
  /\ \A u \in Units : unit[u] # "busy"
  /\ \/ (process = "worker" \/ s = first) /\ Enter(s, 1)
     \/ /\ process = "api" /\ s # first /\ at[first] # 0
        /\ Exit(1, "again") /\ UNCHANGED at

(* No connection is open, no job active; a handler without a client may be *)
(* running.  server.close calls back the first handler without an error    *)
(* and any other, which closed a server that was closing, with one.        *)
Drained(s) ==
  /\ exit = None
  /\ at[s] = 0
  /\ \A u \in Units : ~Open(u)
  /\ \/ (process = "worker" \/ s = first) /\ Enter(s, 1)
     \/ /\ process = "api" /\ s # first /\ at[first] # 0
        /\ Exit(1, "again") /\ UNCHANGED at

(* One close settles; a rejected one ends the process, or the handler: if  *)
(* something listens for unhandled rejections, only the timer is left.     *)
Close(x) ==
  /\ exit = None
  /\ res[x] = "closing"
  /\ \/ /\ res' = [res EXCEPT ![x] = "closed"]
        /\ UNCHANGED <<process, unit, call, first, at, exit, why>>
     \/ Exit(1, "close") /\ UNCHANGED at

(* All of the handler's stage is closed.                                   *)
Advance(s) ==
  /\ exit = None
  /\ at[s] \in 1..3
  /\ \A x \in Stages[process][at[s]] : res[x] = "closed"
  /\ \/ /\ at[s] = Len(Stages[process])
        /\ Exit(0, "stages") /\ UNCHANGED at
     \/ /\ at[s] < Len(Stages[process])
        /\ IF EndedTwice(at[s] + 1) THEN Exit(1, "again") /\ UNCHANGED at
           ELSE Enter(s, at[s] + 1)

(* Mutant: the timer waits for the work as the handlers do. *)
PatientTimer(s) ==
  /\ exit = None
  /\ at[s] # None
  /\ \A u \in Units : ~Open(u)
  /\ Exit(1, "timer")
  /\ UNCHANGED at

(* Ten seconds after the signal.                                           *)
Timer(s) ==
  /\ exit = None
  /\ at[s] # None
  /\ Exit(1, "timer")
  /\ UNCHANGED at

Next ==
  \/ \E u \in Units : Work(u)
  \/ \E s \in Signals : Signal(s) \/ Drained(s) \/ Advance(s) \/ Timer(s)
  \/ \E x \in Resources : Close(x)

Spec == Init /\ [][Next]_vars

(* A timer that is set goes off.                                           *)
FairSpec == Spec /\ \A s \in Signals : WF_vars(Timer(s))

-----------------------------------------------------------------------------
(* A job that was taken, and a request whose client waits for it, are      *)
(* carried out: no resource is closed under them, and only the timer ends  *)
(* the process before them, however many signals come, whatever requests   *)
(* come after them on connections that are kept alive, and whatever fails  *)
(* to close (server.ts:53-61, shutdown.ts:15-18).  A request whose client  *)
(* has left may lose what it awaits, or be cut off by an exit with 0.      *)
WorkCutOnlyByTimer ==
  \A u \in Units :
    /\ unit[u] # "broken"
    /\ unit[u] = "busy" /\ exit # None => why = "timer"

(* A queue finishes closing on an open connection (server.ts:58-60).       *)
ConnectionsOutliveQueues ==
  \A q \in Queues : res[q] # "open" /\ res[ConnectionOf[process]] # "open" => res[q] = "closed"

(* Exit code 0 means that no client is waiting, every job that was taken   *)
(* is done, and all that the stages name is closed: not that every handler *)
(* has returned, or that the limiter's connection is closed                *)
(* (server.ts:48-65, worker/index.ts:128-131).                             *)
CleanExit ==
  exit = 0 => /\ \A u \in Units :
                   \/ unit[u] \in {"new", "done"}
                   \/ process = "api" /\ unit[u] \in {"alone", "lost"}
              /\ \A k \in 1..Len(Stages[process]) :
                   \A x \in Stages[process][k] : res[x] = "closed"

(* Only the API has clients.                                               *)
JobsHaveNoClient ==
  process = "worker" => \A u \in Units : unit[u] \notin {"idle", "alone", "lost"}

(* How far the handlers are and what is closed by then.                    *)
StagesOK ==
  /\ \A s \in Signals : at[s] # None => first # None
  /\ \A s \in Signals : at[s] # None /\ at[s] > 0 =>
       /\ at[s] <= Len(Stages[process])
       /\ \A u \in Units : ~Open(u)
       /\ \A k \in 1..Len(Stages[process]) : k < at[s] =>
            \A x \in Stages[process][k] : res[x] = "closed"
  /\ \A x \in Resources : res[x] # "open" =>
       \E s \in Signals : \E k \in 1..Len(Stages[process]) :
         at[s] # None /\ at[s] >= k /\ x \in Stages[process][k]

Inv ==
  /\ TypeOK
  /\ WorkCutOnlyByTimer
  /\ ConnectionsOutliveQueues
  /\ CleanExit
  /\ JobsHaveNoClient
  /\ StagesOK

(* After a signal the process ends, also when a request waits for a Redis  *)
(* that is away or a socket never closes (server.ts:67-71).                *)
Ends == first # None ~> exit # None
=============================================================================
