--------------------------- MODULE ShutdownProofs ---------------------------
(***************************************************************************)
(* The order of closing, for any number of connections, jobs and signals.  *)
(*                                                                         *)
(* That no work is cut is not inductive: a close that is rejected ends the *)
(* process.  StagesOK says that nothing is closed before a handler has     *)
(* seen all connections closed and all jobs ended, after which there is    *)
(* none of either, as none is taken: what still runs has no client.        *)
(***************************************************************************)
EXTENDS Shutdown, TLAPS

USE ShutdownAssumption

(* There are two or three stages.                                          *)
LEMMA StageCount ==
  ASSUME NEW p \in {"api", "worker"}
  PROVE  Len(Stages[p]) \in 1..3
<1>1. Len(Stages["api"]) = 2 /\ Len(Stages["worker"]) = 3
  BY DEF Stages
<1>2. QED
  BY <1>1

(* The queues are closed at an earlier stage than their connection.        *)
LEMMA QueuesFirst ==
  ASSUME NEW p \in {"api", "worker"}, NEW q \in Queues, NEW k \in 1..Len(Stages[p]),
         ConnectionOf[p] \in Stages[p][k]
  PROVE  q \in Stages[p][1] /\ 1 < k
<1>1. CASE p = "api"
  <2>1. /\ Len(Stages[p]) = 2
        /\ Stages[p][1] = {"pool", "redis", "clickQueue", "cleanupQueue"}
    BY <1>1 DEF Stages
  <2>2. QED
    BY <1>1, <2>1 DEF Queues, ConnectionOf
<1>2. CASE p = "worker"
  <2>1. /\ Len(Stages[p]) = 3
        /\ Stages[p][1] = {"clickQueue", "cleanupQueue"}
    BY <1>2 DEF Stages
  <2>2. QED
    BY <1>2, <2>1 DEF Queues, ConnectionOf
<1>3. QED
  BY <1>1, <1>2

-----------------------------------------------------------------------------
(* The inductive part; ConnectionsOutliveQueues follows from it.           *)
Core == TypeOK /\ WorkCutOnlyByTimer /\ CleanExit /\ JobsHaveNoClient /\ StagesOK

(* The initial state satisfies it.                                         *)
LEMMA InitCore == Init => Core
<1> SUFFICES ASSUME Init PROVE Core
  OBVIOUS
<1>1. TypeOK
  BY DEF Init, TypeOK
<1>2. WorkCutOnlyByTimer /\ CleanExit /\ JobsHaveNoClient /\ StagesOK
  BY DEF Init, WorkCutOnlyByTimer, CleanExit, JobsHaveNoClient, StagesOK
<1>3. QED
  BY <1>1, <1>2 DEF Core

(* No client waits and no job is active once a resource is not open.       *)
LEMMA ClosedMeansDrained ==
  ASSUME Core, NEW x \in Resources, res[x] # "open"
  PROVE  \A u \in Units : ~Open(u)
<1>1. PICK s \in Signals, k \in 1..Len(Stages[process]) : at[s] # None /\ at[s] >= k
  BY DEF Core, StagesOK
<1>2. at[s] \in 0..3
  BY <1>1 DEF Core, TypeOK
<1>3. at[s] > 0
  BY <1>1, <1>2, StageCount DEF Core, TypeOK
<1>4. QED
  BY <1>1, <1>3 DEF Core, StagesOK

(* A step of a unit of work preserves it.                                  *)
LEMMA WorkCore ==
  ASSUME Core, NEW u \in Units, Work(u)
  PROVE  Core'
<1>1. /\ exit = None
      /\ UNCHANGED <<process, res, first, at, exit, why>>
  BY DEF Work, Accept, Request, Disconnect, Call, Return, Finish
<1>2. TypeOK'
  <2>1. Uses[process] \subseteq Resources
    BY DEF Core, TypeOK, Uses, Resources
  <2>2. CASE Accept(u) \/ Request(u) \/ Disconnect(u)
    BY <2>2 DEF Accept, Request, Disconnect, Become, Core, TypeOK
  <2>3. ASSUME NEW x \in Uses[process], Call(u, x) PROVE TypeOK'
    BY <2>1, <2>3 DEF Call, Core, TypeOK
  <2>4. CASE Return(u) \/ Finish(u)
    BY <2>4 DEF Return, Finish, Become, Core, TypeOK
  <2>5. QED
    BY <2>2, <2>3, <2>4 DEF Work
<1>3. \A w \in Units \ {u} : unit'[w] = unit[w]
  BY DEF Work, Accept, Request, Disconnect, Call, Return, Finish, Become, Core, TypeOK
<1>4. unit'[u] # "broken"
  <2>1. CASE Return(u)
    <3>1. CASE res[call[u]] # "open"
      <4>1. call[u] \in Resources
        BY <2>1 DEF Return, Core, TypeOK
      <4>2. ~Open(u)
        BY <3>1, <4>1, ClosedMeansDrained
      <4>3. QED
        BY <2>1, <4>2 DEF Return, Running, Open, Become, Core, TypeOK, WorkCutOnlyByTimer
    <3>2. CASE res[call[u]] = "open"
      BY <2>1, <3>2 DEF Return, Core, WorkCutOnlyByTimer
    <3>3. QED
      BY <3>1, <3>2
  <2>2. QED
    BY <2>1 DEF Work, Accept, Request, Disconnect, Call, Finish, Become, Core, TypeOK,
                WorkCutOnlyByTimer
<1>5. first # None /\ ~Open(u) => ~Open(u)'
  BY DEF Work, Accept, Request, Disconnect, Call, Return, Finish, Running, Open, Become,
         Core, TypeOK
<1>6. JobsHaveNoClient'
  <2>1. process = "worker" => unit'[u] \notin {"idle", "alone", "lost"}
    BY <1>1 DEF Work, Accept, Request, Disconnect, Call, Return, Finish, Running, Become,
                Core, TypeOK, JobsHaveNoClient
  <2>2. QED
    BY <1>1, <1>3, <2>1 DEF Core, JobsHaveNoClient
<1>7. WorkCutOnlyByTimer' /\ CleanExit'
  BY <1>1, <1>3, <1>4, ShutdownAssumption DEF Core, WorkCutOnlyByTimer, CleanExit
<1>8. StagesOK'
  <2>1. \A s \in Signals : at[s] # None /\ at[s] > 0 => \A w \in Units : ~Open(w)'
    BY <1>3, <1>5 DEF Core, StagesOK, Open
  <2>2. QED
    BY <1>1, <2>1 DEF Core, StagesOK
<1>9. QED
  BY <1>2, <1>6, <1>7, <1>8 DEF Core

(* Ending the process preserves it, if the reason is in order.             *)
LEMMA ExitCore ==
  ASSUME Core, NEW code \in {0, 1}, NEW reason \in {"stages", "again", "close", "timer"},
         Exit(code, reason), UNCHANGED at,
         reason # "timer" => \A u \in Units : ~Open(u),
         code = 0 => /\ \A u \in Units : ~Open(u)
                     /\ \A k \in 1..Len(Stages[process]) :
                          \A x \in Stages[process][k] : res[x] = "closed"
  PROVE  Core'
<1>1. TypeOK'
  BY DEF Exit, Core, TypeOK
<1>2. WorkCutOnlyByTimer' /\ JobsHaveNoClient'
  BY DEF Exit, Core, WorkCutOnlyByTimer, JobsHaveNoClient, Open
<1>3. CleanExit'
  <2>1. \A u \in Units : ~Open(u) =>
          \/ unit[u] \in {"new", "done"}
          \/ process = "api" /\ unit[u] \in {"alone", "lost"}
    BY DEF Core, TypeOK, WorkCutOnlyByTimer, JobsHaveNoClient, Open
  <2>2. QED
    BY <2>1 DEF Exit, CleanExit
<1>4. StagesOK'
  BY DEF Exit, Core, StagesOK, Open
<1>5. QED
  BY <1>1, <1>2, <1>3, <1>4 DEF Core

(* So does entering a stage when nothing is open any more and the stages   *)
(* before it are closed.                                                   *)
LEMMA EnterCore ==
  ASSUME Core, exit = None, NEW s \in Signals, at[s] # None,
         NEW k \in 1..Len(Stages[process]), Enter(s, k),
         \A u \in Units : ~Open(u),
         \A j \in 1..Len(Stages[process]) : j < k =>
           \A x \in Stages[process][j] : res[x] = "closed",
         at[s] <= k
  PROVE  Core'
<1>1. k \in 1..3 /\ k # None /\ Len(Stages[process]) \in 1..3
  <2>1. process \in {"api", "worker"}
    BY DEF Core, TypeOK
  <2>2. Len(Stages[process]) \in 1..3
    BY <2>1, StageCount
  <2>3. \A n \in 1..3 : \A i \in 1..n : i \in 1..3 /\ i # None
    OBVIOUS
  <2>4. QED
    BY <2>2, <2>3, Zenon
<1>2. TypeOK'
  BY <1>1 DEF Enter, Core, TypeOK
<1>3. WorkCutOnlyByTimer' /\ CleanExit' /\ JobsHaveNoClient'
  BY DEF Enter, Core, WorkCutOnlyByTimer, CleanExit, JobsHaveNoClient
<1>4. \A x \in Resources : res[x] = "closed" => res'[x] = "closed"
  BY DEF Enter
<1>5. /\ at'[s] = k
      /\ \A t \in Signals \ {s} : at'[t] = at[t]
  BY DEF Enter, Core, TypeOK
<1>6. \A j \in 1..Len(Stages[process]) : Stages[process][j] \subseteq Resources
  <2>1. Len(Stages["api"]) = 2 /\ Len(Stages["worker"]) = 3
    BY DEF Stages
  <2>2. /\ Stages["api"][1] \subseteq Resources /\ Stages["api"][2] \subseteq Resources
        /\ Stages["worker"][1] \subseteq Resources /\ Stages["worker"][2] \subseteq Resources
        /\ Stages["worker"][3] \subseteq Resources
    BY DEF Stages, Resources
  <2>3. QED
    BY <2>1, <2>2 DEF Core, TypeOK
<1>7. StagesOK'
  <2>1. \A t \in Signals : at'[t] # None => first' # None
    BY <1>5 DEF Enter, Core, StagesOK
  <2>2. ASSUME NEW t \in Signals, at'[t] # None, at'[t] > 0
        PROVE  /\ at'[t] <= Len(Stages[process])
               /\ \A u \in Units : ~Open(u)'
               /\ \A j \in 1..Len(Stages[process]) : j < at'[t] =>
                    \A x \in Stages[process][j] : res'[x] = "closed"
    <3>1. CASE t = s
      BY <1>1, <1>4, <1>5, <1>6, <3>1 DEF Enter, Open
    <3>2. CASE t # s
      BY <1>4, <1>5, <1>6, <2>2, <3>2 DEF Enter, Core, StagesOK, Open
    <3>3. QED
      BY <3>1, <3>2
  <2>3. ASSUME NEW x \in Resources, res'[x] # "open"
        PROVE  \E t \in Signals : \E j \in 1..Len(Stages[process]) :
                 at'[t] # None /\ at'[t] >= j /\ x \in Stages[process][j]
    <3>1. CASE res[x] = "open"
      <4>1. x \in Stages[process][k]
        BY <2>3, <3>1 DEF Enter
      <4>2. QED
        BY <1>1, <1>5, <4>1
    <3>2. CASE res[x] # "open"
      <4>1. PICK t \in Signals, j \in 1..Len(Stages[process]) :
              at[t] # None /\ at[t] >= j /\ x \in Stages[process][j]
        BY <3>2 DEF Core, StagesOK
      <4>2. at[t] \in 0..3 /\ j \in 1..3
        BY <1>1, <4>1 DEF Core, TypeOK
      <4>3. at'[t] # None /\ at'[t] >= j
        BY <1>1, <1>5, <4>1, <4>2
      <4>4. QED
        BY <4>1, <4>3
    <3>3. QED
      BY <3>1, <3>2
  <2>4. process' = process
    BY DEF Enter
  <2>5. QED
    BY <2>1, <2>2, <2>3, <2>4 DEF StagesOK
<1>8. QED
  BY <1>2, <1>3, <1>7 DEF Core

(* The end's steps preserve it.                                            *)
LEMMA EndCore ==
  ASSUME Core,
         \/ \E s \in Signals : Signal(s) \/ Drained(s) \/ Advance(s) \/ Timer(s)
         \/ \E x \in Resources : Close(x)
  PROVE  Core'
<1>1. ASSUME NEW s \in Signals, Signal(s) PROVE Core'
  <2>0. PICK closed \in SUBSET {u \in Units : unit[u] = "idle"} :
          unit' = [u \in Units |-> IF u \in closed THEN "done" ELSE unit[u]]
    BY <1>1 DEF Signal
  <2>1. TypeOK'
    BY <1>1, <2>0 DEF Signal, Core, TypeOK
  <2>2. WorkCutOnlyByTimer' /\ CleanExit' /\ JobsHaveNoClient'
    BY <1>1, <2>0, ShutdownAssumption
       DEF Signal, Core, WorkCutOnlyByTimer, CleanExit, JobsHaveNoClient
  <2>3. first' # None
    BY <1>1 DEF Signal
  <2>4. at'[s] = 0 /\ \A t \in Signals \ {s} : at'[t] = at[t]
    BY <1>1 DEF Signal, Core, TypeOK
  <2>5. \A x \in Resources : res'[x] # "open" =>
          \E t \in Signals : \E k \in 1..Len(Stages[process]) :
            at'[t] # None /\ at'[t] >= k /\ x \in Stages[process][k]
    BY <1>1, <2>4 DEF Signal, Core, StagesOK
  <2>6. StagesOK'
    <3>1. \A u \in Units : ~Open(u) => ~Open(u)'
      BY <2>0 DEF Open
    <3>2. QED
      BY <1>1, <2>3, <2>4, <2>5, <3>1 DEF Signal, Core, StagesOK
  <2>7. QED
    BY <2>1, <2>2, <2>6 DEF Core
<1>2. ASSUME NEW s \in Signals, Drained(s) PROVE Core'
  <2>1. CASE Enter(s, 1)
    <3>1. process \in {"api", "worker"}
      BY DEF Core, TypeOK
    <3>2. Len(Stages[process]) \in 1..3
      BY <3>1, StageCount
    <3>3. \A n \in 1..3 : 1 \in 1..n
      OBVIOUS
    <3>4. 1 \in 1..Len(Stages[process])
      BY <3>2, <3>3, Zenon
    <3>5. QED
      BY <1>2, <2>1, <3>4, EnterCore DEF Drained
  <2>2. CASE Exit(1, "again") /\ UNCHANGED at
    BY <1>2, <2>2, ExitCore DEF Drained
  <2>3. QED
    BY <1>2, <2>1, <2>2 DEF Drained
<1>3. ASSUME NEW s \in Signals, Advance(s) PROVE Core'
  <2>1. /\ exit = None /\ at[s] \in 1..3 /\ at[s] # None
        /\ at[s] <= Len(Stages[process])
        /\ \A u \in Units : ~Open(u)
        /\ \A k \in 1..Len(Stages[process]) : k <= at[s] =>
             \A x \in Stages[process][k] : res[x] = "closed"
    BY <1>3 DEF Advance, Core, StagesOK
  <2>2. Len(Stages[process]) \in 1..3
    BY StageCount DEF Core, TypeOK
  <2>3. CASE at[s] = Len(Stages[process]) /\ Exit(0, "stages") /\ UNCHANGED at
    BY <2>1, <2>2, <2>3, ExitCore
  <2>4. CASE Exit(1, "again") /\ UNCHANGED at
    BY <2>1, <2>4, ExitCore
  <2>5. CASE at[s] < Len(Stages[process]) /\ Enter(s, at[s] + 1)
    BY <2>1, <2>2, <2>5, EnterCore
  <2>6. QED
    BY <1>3, <2>3, <2>4, <2>5 DEF Advance
<1>4. ASSUME NEW s \in Signals, Timer(s) PROVE Core'
  BY <1>4, ExitCore DEF Timer
<1>5. ASSUME NEW x \in Resources, Close(x) PROVE Core'
  <2>1. \A u \in Units : ~Open(u)
    BY <1>5, ClosedMeansDrained DEF Close
  <2>2. CASE Exit(1, "close") /\ UNCHANGED at
    BY <2>1, <2>2, ExitCore
  <2>3. CASE /\ res' = [res EXCEPT ![x] = "closed"]
             /\ UNCHANGED <<process, unit, call, first, at, exit, why>>
    <3>1. TypeOK'
      BY <2>3 DEF Core, TypeOK
    <3>2. \A y \in Resources : /\ res[y] = "closed" => res'[y] = "closed"
                               /\ res[y] = "open" /\ y # x => res'[y] = "open"
      BY <2>3 DEF Core, TypeOK
    <3>3. WorkCutOnlyByTimer' /\ CleanExit' /\ JobsHaveNoClient'
      BY <1>5, <2>3 DEF Close, Core, WorkCutOnlyByTimer, CleanExit, JobsHaveNoClient
    <3>4. \A k \in 1..Len(Stages[process]) : \A y \in Stages[process][k] :
            res[y] = "closed" => res'[y] = "closed"
      BY <2>3 DEF Core, TypeOK
    <3>5. \A y \in Resources : res'[y] # "open" => res[y] # "open"
      BY <1>5, <2>3 DEF Close, Core, TypeOK
    <3>6. StagesOK'
      BY <2>3, <3>4, <3>5 DEF Core, StagesOK, Open
    <3>7. QED
      BY <3>1, <3>3, <3>6 DEF Core
  <2>4. QED
    BY <1>5, <2>2, <2>3 DEF Close
<1>6. QED
  BY <1>1, <1>2, <1>3, <1>4, <1>5

(* Every step preserves it.                                                *)
LEMMA NextCore == Core /\ [Next]_vars => Core'
<1> SUFFICES ASSUME Core, [Next]_vars PROVE Core'
  OBVIOUS
<1>1. CASE Next
  BY <1>1, WorkCore, EndCore DEF Next
<1>2. CASE UNCHANGED vars
  <2>1. TypeOK' /\ WorkCutOnlyByTimer'
    BY <1>2 DEF vars, Core, TypeOK, WorkCutOnlyByTimer
  <2>2. CleanExit' /\ JobsHaveNoClient'
    BY <1>2 DEF vars, Core, CleanExit, JobsHaveNoClient
  <2>3. StagesOK'
    BY <1>2 DEF vars, Core, StagesOK, Open
  <2>4. QED
    BY <2>1, <2>2, <2>3 DEF Core
<1>3. QED
  BY <1>1, <1>2

(* A connection is closed at a later stage than the queues on it.          *)
LEMMA CoreOutlives == Core => ConnectionsOutliveQueues
<1> SUFFICES ASSUME Core, NEW q \in Queues, res[ConnectionOf[process]] # "open"
             PROVE  res[q] = "closed"
  BY DEF ConnectionsOutliveQueues
<1>1. process \in {"api", "worker"} /\ ConnectionOf[process] \in Resources
  BY DEF Core, TypeOK, ConnectionOf, Resources
<1>2. PICK s \in Signals, k \in 1..Len(Stages[process]) :
        at[s] # None /\ at[s] >= k /\ ConnectionOf[process] \in Stages[process][k]
  BY <1>1 DEF Core, StagesOK
<1>3. q \in Stages[process][1] /\ 1 < k
  BY <1>1, <1>2, QueuesFirst
<1>4. at[s] \in 0..3 /\ 1 \in 1..Len(Stages[process]) /\ 1 < at[s] /\ at[s] > 0
  BY <1>1, <1>2, <1>3, StageCount DEF Core, TypeOK
<1>5. QED
  BY <1>2, <1>3, <1>4 DEF Core, StagesOK

(* The inductive invariant holds in every reachable state.                 *)
THEOREM InvHolds == Spec => []Inv
<1>1. Init => Core
  BY InitCore
<1>2. Core /\ [Next]_vars => Core'
  BY NextCore
<1>3. Core => Inv
  BY CoreOutlives DEF Core, Inv
<1>4. QED
  BY <1>1, <1>2, <1>3, PTL DEF Spec

(* A job that was taken, and a request whose client waits, also one that   *)
(* came after the signal, is carried out, unless the timer ends the        *)
(* process, whatever signals come and whatever fails to close              *)
(* (server.ts:53-61, shutdown.ts:15-18).                                   *)
THEOREM WorkIsNotCut == Spec => []WorkCutOnlyByTimer
<1>1. Inv => WorkCutOnlyByTimer
  BY DEF Inv
<1>2. QED
  BY <1>1, InvHolds, PTL

(* No queue is left closing on a connection that is gone                   *)
(* (server.ts:58-60).                                                      *)
THEOREM QueuesCloseFirst == Spec => []ConnectionsOutliveQueues
<1>1. Inv => ConnectionsOutliveQueues
  BY DEF Inv
<1>2. QED
  BY <1>1, InvHolds, PTL

(* Exit code 0 means that no client is waiting, no job is under way, and   *)
(* all that the stages name is closed, however the stages of several       *)
(* handlers mix (server.ts:53-64, shutdown.ts:34-40).                      *)
THEOREM ZeroMeansClosed == Spec => []CleanExit
<1>1. Inv => CleanExit
  BY DEF Inv
<1>2. QED
  BY <1>1, InvHolds, PTL
=============================================================================
