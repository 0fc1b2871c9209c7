--------------------------- MODULE RateLimitProofs ---------------------------
(***************************************************************************)
(* The limits of RateLimit for any number of requests, processes, clients  *)
(* and proxies, any limits and windows.                                    *)
(*                                                                         *)
(* Counted covers the two steps in which the script runs; the other steps  *)
(* leave the counters and the runs alone, except for the loss of the       *)
(* counters, after which no run is of the current generation.              *)
(***************************************************************************)
EXTENDS RateLimit, FiniteSetTheorems, TLAPS

USE DEF Limiters

(* The address Express derives is the client's, whatever the header says.  *)
LEMMA AddressIsClient ==
  ASSUME NEW a \in Arrivals
  PROVE  Address(a) = a.client
<1> DEFINE seen == a.header \o <<a.client>> \o Proxies
<1>1. a.header \in Seq(Addresses) /\ a.client \in Addresses
  BY ArrivalsAssumption
<1>2. Proxies \in Seq(Addresses) /\ TrustProxy = Len(Proxies)
  BY DeploymentAssumption
<1>3. Len(seen) = Len(a.header) + 1 + Len(Proxies)
  BY <1>1, <1>2
<1>4. Len(seen) > TrustProxy /\ Len(seen) - TrustProxy = Len(a.header) + 1
  BY <1>1, <1>2, <1>3
<1>5. seen[Len(a.header) + 1] = a.client
  BY <1>1, <1>2
<1> QED BY <1>4, <1>5 DEF Address

(* So the key of a request is the identity it should be bounded by.        *)
THEOREM KeysAreIdentities ==
  \A a \in Arrivals : Key(a) = Payer(a)
BY AddressIsClient DEF Key, Payer

LEMMA KeyFacts ==
  ASSUME NEW a \in Arrivals
  PROVE  Key(a) \in Keys /\ Key(a)[1] = a.limiter /\ a.limiter \in Limiters
BY ArrivalsAssumption DEF Key, Keys, Identity

(* The counter after a hit.                                                *)
LEMMA HitFacts ==
  ASSUME TypeOK, NEW k \in Keys
  PROVE  /\ Hit(k) \in [hits: Nat \ {0}, ends: Nat]
         /\ Hit(k).ends > now
         /\ \/ /\ store[k] = None \/ store[k].ends <= now
               /\ Hit(k).hits = 1 /\ Hit(k).ends = now + Window[k[1]]
            \/ /\ store[k] # None
               /\ Hit(k).hits = store[k].hits + 1 /\ Hit(k).ends = store[k].ends
<1>1. PICK a \in Arrivals : k = Key(a)
  BY DEF Keys
<1>2. Window[k[1]] \in Nat \ {0}
  BY <1>1, KeyFacts, LimitAssumption
<1>3. CASE store[k] = None \/ store[k].ends <= now
  <2>1. Hit(k) = [hits |-> 1, ends |-> now + Window[k[1]]]
    BY <1>3 DEF Hit
  <2> QED BY <1>2, <1>3, <2>1 DEF TypeOK
<1>4. CASE ~(store[k] = None \/ store[k].ends <= now)
  <2>1. store[k] \in [hits: Nat \ {0}, ends: Nat]
    BY <1>4 DEF TypeOK
  <2>2. Hit(k) = [store[k] EXCEPT !.hits = store[k].hits + 1]
    BY <1>4 DEF Hit
  <2> QED BY <1>4, <2>1, <2>2 DEF TypeOK
<1> QED BY <1>3, <1>4

(* The six parts that speak of runs and counters.                         *)
CountersOK ==
  /\ RunsInWindow /\ FirstHitOpens /\ NoGaps
  /\ NoRepetition /\ WindowsApart /\ StoreIsLastRun

(* A request that has runs came in as an arrival.                          *)
LEMMA RunnerArrived ==
  ASSUME TypeOK, VerdictsFollowRuns, NEW r \in Requests, NEW i \in 1..Len(runs[r])
  PROVE  /\ arg[r] \in Arrivals /\ pc[r] # "new"
         /\ runs[r][i] \in Run
         /\ Window[arg[r].limiter] \in Nat
<1>1. runs[r] \in Seq(Run) /\ runs[r] # <<>>
  BY DEF TypeOK
<1>2. pc[r] # "new"
  BY <1>1 DEF VerdictsFollowRuns
<1>3. arg[r] \in Arrivals
  BY <1>2 DEF TypeOK
<1>4. runs[r][i] \in Run
  BY <1>1
<1>5. arg[r].limiter \in Limiters
  BY <1>3, KeyFacts
<1>6. Window[arg[r].limiter] \in Nat
  BY <1>5, LimitAssumption
<1> QED BY <1>2, <1>3, <1>4, <1>6

(* A step in which the script runs for a request.                          *)
Counted(r) ==
  /\ pc[r] = "sent"
  /\ RunScript(r)
  /\ UNCHANGED <<now, gen, arg>>

LEMMA CountedPreserves ==
  ASSUME Inv, NEW r \in Requests, Counted(r)
  PROVE  CountersOK'
<1> DEFINE k == Key(arg[r])
           n == Len(runs[r]) + 1
           x == [at |-> now, gen |-> gen, hits |-> Hit(k).hits, ends |-> Hit(k).ends]
<1> USE DEF Inv
<1>1. arg[r] \in Arrivals /\ k \in Keys /\ k[1] = arg[r].limiter
  BY KeyFacts DEF Counted, TypeOK
<1>2. /\ Hit(k) \in [hits: Nat \ {0}, ends: Nat]
      /\ Hit(k).ends > now
      /\ \/ /\ store[k] = None \/ store[k].ends <= now
            /\ Hit(k).hits = 1 /\ Hit(k).ends = now + Window[k[1]]
         \/ /\ store[k] # None
            /\ Hit(k).hits = store[k].hits + 1 /\ Hit(k).ends = store[k].ends
  BY <1>1, HitFacts
<1>3. x \in Run
  BY <1>2 DEF TypeOK, Run
<1>4. /\ store' = [store EXCEPT ![k] = Hit(k)]
      /\ runs' = [runs EXCEPT ![r] = Append(runs[r], x)]
      /\ UNCHANGED <<now, gen, arg>>
  BY DEF Counted, RunScript
<1>5. \A s \in Requests : runs[s] \in Seq(Run)
  BY DEF TypeOK
<1>6. \A s \in Requests : \A i \in 1..Len(runs[s]) :
        i \in 1..Len(runs'[s]) /\ runs'[s][i] = runs[s][i]
  <2> TAKE s \in Requests
  <2> TAKE i \in 1..Len(runs[s])
  <2>1. CASE s = r
    BY <2>1, <1>3, <1>4, <1>5 DEF TypeOK
  <2>2. CASE s # r
    BY <2>2, <1>4 DEF TypeOK
  <2> QED BY <2>1, <2>2
<1>7. n \in 1..Len(runs'[r]) /\ runs'[r][n] = x
  BY <1>3, <1>4, <1>5 DEF TypeOK
<1>8. \A s \in Requests : \A i \in 1..Len(runs'[s]) :
        i \in 1..Len(runs[s]) \/ (s = r /\ i = n)
  <2> TAKE s \in Requests
  <2> TAKE i \in 1..Len(runs'[s])
  <2>1. CASE s = r
    BY <2>1, <1>3, <1>4, <1>5 DEF TypeOK
  <2>2. CASE s # r
    BY <2>2, <1>4 DEF TypeOK
  <2> QED BY <2>1, <2>2
<1>9. \A s \in Requests : \A i \in 1..Len(runs[s]) :
        /\ arg[s] \in Arrivals /\ Key(arg[s]) \in Keys
        /\ Key(arg[s])[1] = arg[s].limiter
        /\ runs[s][i] \in Run
        /\ Window[arg[s].limiter] \in Nat
  BY RunnerArrived, KeyFacts
<1>10. store'[k] = Hit(k) /\ \A l \in Keys \ {k} : store'[l] = store[l]
  BY <1>1, <1>4 DEF TypeOK
<1>11. Hit(k) # None /\ store[k] # None => store[k] \in [hits: Nat \ {0}, ends: Nat]
  BY <1>1 DEF TypeOK
<1>12. Hit(k) # None
  BY <1>2, DeploymentAssumption
<1>13. now \in Nat /\ gen \in Nat /\ Window[arg[r].limiter] \in Nat
  BY <1>1, KeyFacts, LimitAssumption DEF TypeOK
<1> HIDE DEF Inv, x, n, k
<1>14. x.at = now /\ x.gen = gen /\ x.hits = Hit(k).hits /\ x.ends = Hit(k).ends
  BY DEF x
<1>15. Hit(k).ends <= now + Window[arg[r].limiter]
  <2>1. CASE Hit(k).ends = now + Window[k[1]]
    BY <2>1, <1>1, <1>2, <1>13
  <2>2. CASE store[k] # None /\ Hit(k).ends = store[k].ends
    <3>1. PICK s \in Requests : \E i \in 1..Len(runs[s]) :
            Key(arg[s]) = k /\ runs[s][i].ends = store[k].ends
      BY <1>1, <2>2 DEF Inv, StoreIsLastRun
    <3>1a. PICK i \in 1..Len(runs[s]) :
            Key(arg[s]) = k /\ runs[s][i].ends = store[k].ends
      BY <3>1
    <3>2. arg[s].limiter = arg[r].limiter
      BY <3>1a, <1>1, <1>9 DEF k
    <3>3. runs[s][i].at <= now /\ runs[s][i].ends <= runs[s][i].at + Window[arg[s].limiter]
      BY DEF Inv, RunsInWindow
    <3>4. /\ runs[s][i].at \in Nat /\ runs[s][i].ends \in Nat
          /\ runs[s][i].ends = Hit(k).ends
      BY <2>2, <3>1a, <1>9 DEF Run
    <3>5. runs[s][i].at <= now /\ runs[s][i].ends <= runs[s][i].at + Window[arg[r].limiter]
      BY <3>2, <3>3
    <3> QED BY <3>4, <3>5, <1>13
  <2> QED BY <1>2, <2>1, <2>2
<1>16. RunsInWindow'
  <2> SUFFICES ASSUME NEW s \in Requests, NEW i \in 1..Len(runs'[s])
               PROVE  LET y == runs'[s][i]
                          row == store'[Key(arg[s])]
                      IN /\ y.gen <= gen
                         /\ y.at <= now
                         /\ y.at < y.ends
                         /\ y.ends <= y.at + Window[arg[s].limiter]
                         /\ y.gen = gen =>
                              /\ row # None
                              /\ y.ends <= row.ends
                              /\ y.ends = row.ends => y.hits <= row.hits
    BY <1>4 DEF RunsInWindow
  <2>1. CASE s = r /\ i = n
    BY <2>1, <1>2, <1>7, <1>10, <1>12, <1>13, <1>14, <1>15 DEF k
  <2>2. CASE i \in 1..Len(runs[s])
    <3>1. runs'[s][i] = runs[s][i]
      BY <1>6, <2>2
    <3>2. LET y == runs[s][i]
              row == store[Key(arg[s])]
          IN /\ y.gen <= gen
             /\ y.at <= now
             /\ y.at < y.ends
             /\ y.ends <= y.at + Window[arg[s].limiter]
             /\ y.gen = gen =>
                  /\ row # None
                  /\ y.ends <= row.ends
                  /\ y.ends = row.ends => y.hits <= row.hits
      BY <2>2 DEF Inv, RunsInWindow
    <3>3. CASE Key(arg[s]) # k
      BY <3>1, <3>2, <3>3, <1>9, <1>10, <2>2
    <3>4. CASE Key(arg[s]) = k
      <4>1. runs[s][i] \in Run
        BY <1>9, <2>2
      <4>2. runs[s][i].gen = gen =>
              /\ runs[s][i].ends <= Hit(k).ends
              /\ runs[s][i].ends = Hit(k).ends => runs[s][i].hits <= Hit(k).hits
        <5> DEFINE y == runs[s][i]
        <5>1. y.hits \in Nat /\ y.ends \in Nat
          BY <4>1 DEF Run
        <5>2. y.gen = gen =>
                /\ store[k] # None
                /\ y.ends <= store[k].ends
                /\ y.ends = store[k].ends => y.hits <= store[k].hits
          BY <3>2, <3>4
        <5>3. store[k] # None => store[k].hits \in Nat /\ store[k].ends \in Nat
          BY <1>11, <1>12
        <5>4. Hit(k).hits \in Nat /\ Hit(k).ends \in Nat
          BY <1>2
        <5> HIDE DEF y
        <5>5. CASE store[k] = None
          BY <5>2, <5>5 DEF y
        <5>6. CASE store[k] # None /\ store[k].ends <= now
          <6>1. y.gen = gen => y.ends < Hit(k).ends
            BY <5>1, <5>2, <5>3, <5>4, <5>6, <1>2, <1>13
          <6> QED BY <6>1, <5>1, <5>4 DEF y
        <5>7. CASE store[k] # None /\ Hit(k).ends = store[k].ends
                   /\ Hit(k).hits = store[k].hits + 1
          <6>1. y.gen = gen => y.ends <= Hit(k).ends
                               /\ (y.ends = Hit(k).ends => y.hits <= Hit(k).hits)
            BY <5>1, <5>2, <5>3, <5>4, <5>7
          <6> QED BY <6>1 DEF y
        <5> QED BY <5>5, <5>6, <5>7, <1>2
      <4> QED BY <3>1, <3>2, <3>4, <4>2, <1>10, <1>12
    <3> QED BY <3>3, <3>4
  <2> QED BY <1>8, <2>1, <2>2
<1>16a. FirstHitOpens'
  <2> SUFFICES ASSUME NEW s \in Requests, NEW i \in 1..Len(runs'[s]), runs'[s][i].hits = 1
               PROVE  runs'[s][i].ends = runs'[s][i].at + Window[arg[s].limiter]
    BY <1>4 DEF FirstHitOpens
  <2>1. CASE i \in 1..Len(runs[s])
    BY <2>1, <1>6 DEF Inv, FirstHitOpens
  <2>2. CASE s = r /\ i = n
    <3>1. runs'[s][i] = x /\ Hit(k).hits = 1
      BY <2>2, <1>7, <1>14
    <3>2. CASE store[k] # None /\ Hit(k).hits = store[k].hits + 1
      BY <3>1, <3>2, <1>11, <1>12
    <3>3. CASE Hit(k).ends = now + Window[k[1]]
      BY <2>2, <3>1, <3>3, <1>1, <1>14
    <3> QED BY <1>2, <3>2, <3>3
  <2> QED BY <1>8, <2>1, <2>2
<1>17. NoGaps'
  <2> SUFFICES ASSUME NEW s \in Requests, NEW i \in 1..Len(runs'[s]),
                      NEW j \in 1..runs'[s][i].hits
               PROVE  \E t \in Requests : \E m \in 1..Len(runs'[t]) :
                        SameWindow(s, i, t, m)' /\ runs'[t][m].hits = j
    BY DEF NoGaps
  <2>1. CASE i \in 1..Len(runs[s])
    <3>1. runs'[s][i] = runs[s][i]
      BY <1>6, <2>1
    <3>2. PICK t \in Requests : \E m \in 1..Len(runs[t]) :
            SameWindow(s, i, t, m) /\ runs[t][m].hits = j
      BY <2>1, <3>1 DEF Inv, NoGaps
    <3>2a. PICK m \in 1..Len(runs[t]) :
            SameWindow(s, i, t, m) /\ runs[t][m].hits = j
      BY <3>2
    <3> QED BY <3>1, <3>2a, <1>4, <1>6 DEF SameWindow
  <2>2. CASE s = r /\ i = n /\ j = x.hits
    BY <2>2, <1>4, <1>7 DEF SameWindow
  <2>3. CASE s = r /\ i = n /\ j # x.hits
    <3>1. /\ store[k] # None /\ j \in 1..store[k].hits
          /\ Hit(k).ends = store[k].ends
      BY <2>3, <1>2, <1>7, <1>11, <1>12, <1>14
    <3>2. PICK s1 \in Requests : \E i1 \in 1..Len(runs[s1]) :
            /\ Key(arg[s1]) = k /\ runs[s1][i1].gen = gen
            /\ runs[s1][i1].ends = store[k].ends /\ runs[s1][i1].hits = store[k].hits
      BY <3>1, <1>1 DEF Inv, StoreIsLastRun
    <3>2a. PICK i1 \in 1..Len(runs[s1]) :
            /\ Key(arg[s1]) = k /\ runs[s1][i1].gen = gen
            /\ runs[s1][i1].ends = store[k].ends /\ runs[s1][i1].hits = store[k].hits
      BY <3>2
    <3>3. PICK t \in Requests : \E m \in 1..Len(runs[t]) :
            SameWindow(s1, i1, t, m) /\ runs[t][m].hits = j
      BY <3>1, <3>2a DEF Inv, NoGaps
    <3>3a. PICK m \in 1..Len(runs[t]) :
            SameWindow(s1, i1, t, m) /\ runs[t][m].hits = j
      BY <3>3
    <3>4. /\ Key(arg[t]) = Key(arg[r]) /\ runs[t][m].gen = gen
          /\ runs[t][m].ends = Hit(k).ends /\ runs[t][m].hits = j
      BY <3>1, <3>2a, <3>3a DEF SameWindow, k
    <3>5. m \in 1..Len(runs'[t]) /\ runs'[t][m] = runs[t][m]
      BY <1>6
    <3>6. runs'[s][i] = x
      BY <2>3, <1>7
    <3> QED BY <2>3, <3>4, <3>5, <3>6, <1>4, <1>14 DEF SameWindow
  <2> QED BY <1>8, <2>1, <2>2, <2>3
<1>18. \A s \in Requests : \A i \in 1..Len(runs[s]) :
         Key(arg[s]) = k /\ runs[s][i].gen = gen /\ runs[s][i].ends = Hit(k).ends
           => runs[s][i].hits < Hit(k).hits
  <2> TAKE s \in Requests
  <2> TAKE i \in 1..Len(runs[s])
  <2>1. LET y == runs[s][i]
            row == store[Key(arg[s])]
        IN y.gen = gen => /\ row # None
                          /\ y.ends <= row.ends
                          /\ y.ends = row.ends => y.hits <= row.hits
    BY DEF Inv, RunsInWindow
  <2>2. runs[s][i] \in Run
    BY <1>9
  <2> QED BY <2>1, <2>2, <1>2, <1>11, <1>12, <1>13 DEF Run
<1>19. NoRepetition'
  <2> SUFFICES ASSUME NEW s \in Requests, NEW t \in Requests,
                      NEW i \in 1..Len(runs'[s]), NEW m \in 1..Len(runs'[t]),
                      Key(arg[t]) = Key(arg[s]),
                      runs'[t][m].gen = runs'[s][i].gen,
                      runs'[t][m].ends = runs'[s][i].ends,
                      runs'[t][m].hits = runs'[s][i].hits
               PROVE  s = t /\ i = m
    BY <1>4 DEF NoRepetition, SameWindow
  <2>1. CASE i \in 1..Len(runs[s]) /\ m \in 1..Len(runs[t])
    <3>1. SameWindow(s, i, t, m) /\ runs[t][m].hits = runs[s][i].hits
      BY <2>1, <1>6 DEF SameWindow
    <3> QED BY <3>1, <2>1 DEF Inv, NoRepetition
  <2>2. CASE s = r /\ i = n /\ m \in 1..Len(runs[t])
    <3>1. runs'[t][m] = runs[t][m] /\ runs[t][m] \in Run
      BY <2>2, <1>6, <1>9
    <3>2. Key(arg[t]) = k /\ runs[t][m].gen = gen /\ runs[t][m].ends = Hit(k).ends
          /\ runs[t][m].hits = Hit(k).hits
      BY <2>2, <3>1, <1>7, <1>14 DEF k
    <3> QED BY <3>1, <3>2, <1>2, <1>18, <2>2 DEF Run
  <2>3. CASE t = r /\ m = n /\ i \in 1..Len(runs[s])
    <3>1. runs'[s][i] = runs[s][i] /\ runs[s][i] \in Run
      BY <2>3, <1>6, <1>9
    <3>2. Key(arg[s]) = k /\ runs[s][i].gen = gen /\ runs[s][i].ends = Hit(k).ends
          /\ runs[s][i].hits = Hit(k).hits
      BY <2>3, <3>1, <1>7, <1>14 DEF k
    <3> QED BY <3>1, <3>2, <1>2, <1>18, <2>3 DEF Run
  <2> QED BY <1>8, <2>1, <2>2, <2>3
<1>21. \A s \in Requests : \A i \in 1..Len(runs[s]) :
         Key(arg[s]) = k /\ runs[s][i].gen = gen =>
           /\ runs[s][i].ends <= Hit(k).ends
           /\ runs[s][i].ends < Hit(k).ends =>
                runs[s][i].ends + Window[k[1]] <= Hit(k).ends
  <2> TAKE s \in Requests
  <2> TAKE i \in 1..Len(runs[s])
  <2> SUFFICES ASSUME Key(arg[s]) = k, runs[s][i].gen = gen
               PROVE  /\ runs[s][i].ends <= Hit(k).ends
                      /\ runs[s][i].ends < Hit(k).ends =>
                           runs[s][i].ends + Window[k[1]] <= Hit(k).ends
    OBVIOUS
  <2>1. runs[s][i] \in Run /\ arg[s].limiter = k[1] /\ Window[k[1]] \in Nat
    BY <1>9
  <2>2. store[k] # None /\ runs[s][i].ends <= store[k].ends
    BY DEF Inv, RunsInWindow
  <2>3. CASE store[k].ends <= now /\ Hit(k).ends = now + Window[k[1]]
    <3>1. runs[s][i].ends \in Nat /\ Window[k[1]] \in Nat
      BY <2>1 DEF Run
    <3>2. store[k].ends \in Nat /\ now \in Nat
      BY <2>2, <1>11, <1>12, <1>13
    <3>3. runs[s][i].ends <= now
      BY <2>2, <2>3, <3>1, <3>2
    <3> QED BY <2>3, <3>1, <3>2, <3>3
  <2>4. CASE Hit(k).ends = store[k].ends
    <3>1. PICK t \in Requests : \E m \in 1..Len(runs[t]) :
            /\ Key(arg[t]) = k /\ runs[t][m].gen = gen
            /\ runs[t][m].ends = store[k].ends
      BY <1>1, <2>2 DEF Inv, StoreIsLastRun
    <3>2. runs[s][i].ends < store[k].ends =>
            runs[s][i].ends + Window[k[1]] <= store[k].ends
      BY <3>1, <2>1 DEF Inv, WindowsApart
    <3> QED BY <3>2, <2>2, <2>4
  <2> QED BY <1>2, <2>2, <2>3, <2>4
<1>22. WindowsApart'
  <2> SUFFICES ASSUME NEW s \in Requests, NEW t \in Requests,
                      NEW i \in 1..Len(runs'[s]), NEW m \in 1..Len(runs'[t]),
                      Key(arg[t]) = Key(arg[s]),
                      runs'[t][m].gen = runs'[s][i].gen,
                      runs'[s][i].ends < runs'[t][m].ends
               PROVE  runs'[s][i].ends + Window[arg[s].limiter] <= runs'[t][m].ends
    BY <1>4 DEF WindowsApart
  <2>1. CASE i \in 1..Len(runs[s]) /\ m \in 1..Len(runs[t])
    <3>1. runs'[s][i] = runs[s][i] /\ runs'[t][m] = runs[t][m]
      BY <2>1, <1>6
    <3> QED BY <3>1, <2>1 DEF Inv, WindowsApart
  <2>2. CASE t = r /\ m = n /\ i \in 1..Len(runs[s])
    <3>1. runs'[s][i] = runs[s][i] /\ arg[s].limiter = k[1]
      BY <2>2, <1>6, <1>9 DEF k
    <3> QED BY <3>1, <2>2, <1>7, <1>14, <1>21 DEF k
  <2>3. CASE s = r /\ i = n /\ m \in 1..Len(runs[t])
    <3>1. runs'[t][m] = runs[t][m] /\ runs[t][m] \in Run
      BY <2>3, <1>6, <1>9
    <3>2. runs[t][m].ends <= Hit(k).ends
      BY <3>1, <2>3, <1>7, <1>14, <1>21 DEF k
    <3> QED BY <3>1, <3>2, <2>3, <1>2, <1>7, <1>14 DEF Run
  <2>4. CASE s = r /\ i = n /\ t = r /\ m = n
    BY <2>4, <1>2, <1>7, <1>14
  <2> QED BY <1>8, <2>1, <2>2, <2>3, <2>4
<1>20. StoreIsLastRun'
  <2> SUFFICES ASSUME NEW l \in Keys, store'[l] # None
               PROVE  \E s \in Requests : \E i \in 1..Len(runs'[s]) :
                        /\ Key(arg[s]) = l
                        /\ runs'[s][i].gen = gen
                        /\ runs'[s][i].ends = store'[l].ends
                        /\ runs'[s][i].hits = store'[l].hits
    BY <1>4 DEF StoreIsLastRun
  <2>1. CASE l = k
    BY <2>1, <1>7, <1>10, <1>14 DEF k
  <2>2. CASE l # k
    <3>1. store'[l] = store[l]
      BY <2>2, <1>10
    <3>2. PICK s \in Requests : \E i \in 1..Len(runs[s]) :
            /\ Key(arg[s]) = l /\ runs[s][i].gen = gen
            /\ runs[s][i].ends = store[l].ends /\ runs[s][i].hits = store[l].hits
      BY <3>1 DEF Inv, StoreIsLastRun
    <3>2a. PICK i \in 1..Len(runs[s]) :
            /\ Key(arg[s]) = l /\ runs[s][i].gen = gen
            /\ runs[s][i].ends = store[l].ends /\ runs[s][i].hits = store[l].hits
      BY <3>2
    <3> QED BY <3>1, <3>2a, <1>6
  <2> QED BY <2>1, <2>2
<1> QED BY <1>16, <1>16a, <1>17, <1>19, <1>20, <1>22 DEF CountersOK

(* A step in which it does not: at most time passes, a request that has no *)
(* run gets its arrival, or all counters are lost.                         *)
Uncounted ==
  /\ UNCHANGED runs
  /\ now' \in Nat /\ now <= now'
  /\ \A s \in Requests : runs[s] # <<>> => arg'[s] = arg[s]
  /\ \/ UNCHANGED <<gen, store>>
     \/ gen' = gen + 1 /\ store' = [k \in Keys |-> None]

LEMMA UncountedPreserves ==
  ASSUME Inv, Uncounted
  PROVE  CountersOK'
<1> USE DEF Inv
<1>1. \A s \in Requests : \A i \in 1..Len(runs[s]) :
        /\ runs'[s] = runs[s] /\ runs[s][i] \in Run
        /\ arg'[s] = arg[s] /\ Key(arg[s]) \in Keys
        /\ Window[arg[s].limiter] \in Nat
  <2> SUFFICES ASSUME NEW s \in Requests, NEW i \in 1..Len(runs[s])
               PROVE  /\ runs'[s] = runs[s] /\ runs[s][i] \in Run
                      /\ arg'[s] = arg[s] /\ Key(arg[s]) \in Keys
                      /\ Window[arg[s].limiter] \in Nat
    OBVIOUS
  <2>1. runs[s] # <<>>
    BY DEF TypeOK
  <2> QED BY <2>1, RunnerArrived, KeyFacts DEF Uncounted
<1>2. now \in Nat /\ gen \in Nat /\ now' \in Nat /\ now <= now'
  BY DEF TypeOK, Uncounted
<1>3. RunsInWindow'
  <2> SUFFICES ASSUME NEW s \in Requests, NEW i \in 1..Len(runs'[s])
               PROVE  LET y == runs'[s][i]
                          row == store'[Key(arg'[s])]
                      IN /\ y.gen <= gen'
                         /\ y.at <= now'
                         /\ y.at < y.ends
                         /\ y.ends <= y.at + Window[arg'[s].limiter]
                         /\ y.gen = gen' =>
                              /\ row # None
                              /\ y.ends <= row.ends
                              /\ y.ends = row.ends => y.hits <= row.hits
    BY DEF RunsInWindow
  <2>1. LET y == runs[s][i]
            row == store[Key(arg[s])]
        IN /\ y.gen <= gen
           /\ y.at <= now
           /\ y.at < y.ends
           /\ y.ends <= y.at + Window[arg[s].limiter]
           /\ y.gen = gen =>
                /\ row # None
                /\ y.ends <= row.ends
                /\ y.ends = row.ends => y.hits <= row.hits
    BY DEF RunsInWindow, Uncounted
  <2>2. /\ runs'[s] = runs[s] /\ runs[s][i] \in Run
        /\ arg'[s] = arg[s] /\ Key(arg[s]) \in Keys
        /\ Window[arg[s].limiter] \in Nat
    BY <1>1 DEF Uncounted
  <2>3. CASE UNCHANGED <<gen, store>>
    <3>1. runs[s][i].at \in Nat
      BY <2>2 DEF Run
    <3>2. runs[s][i].at <= now'
      BY <2>1, <3>1, <1>2
    <3> QED BY <2>1, <2>2, <2>3, <3>2
  <2>4. CASE gen' = gen + 1
    <3>1. runs[s][i].at \in Nat /\ runs[s][i].gen \in Nat
      BY <2>2 DEF Run
    <3>2. runs[s][i].at <= now' /\ runs[s][i].gen < gen'
      BY <2>1, <2>4, <3>1, <1>2
    <3>3. runs[s][i].gen <= gen' /\ runs[s][i].gen # gen'
      BY <2>4, <3>1, <3>2, <1>2
    <3> QED BY <2>1, <2>2, <3>2, <3>3
  <2> QED BY <2>3, <2>4 DEF Uncounted
<1>3a. FirstHitOpens'
  BY <1>1 DEF FirstHitOpens, Uncounted
<1>4. \A s, t \in Requests : \A i \in 1..Len(runs[s]) : \A m \in 1..Len(runs[t]) :
        SameWindow(s, i, t, m)' <=> SameWindow(s, i, t, m)
  BY <1>1 DEF SameWindow
<1>5. NoGaps'
  <2> SUFFICES ASSUME NEW s \in Requests, NEW i \in 1..Len(runs'[s]),
                      NEW j \in 1..runs'[s][i].hits
               PROVE  \E t \in Requests : \E m \in 1..Len(runs'[t]) :
                        SameWindow(s, i, t, m)' /\ runs'[t][m].hits = j
    BY DEF NoGaps
  <2>1. PICK t \in Requests : \E m \in 1..Len(runs[t]) :
          SameWindow(s, i, t, m) /\ runs[t][m].hits = j
    BY DEF NoGaps, Uncounted
  <2> QED BY <2>1, <1>4 DEF Uncounted
<1>6. NoRepetition'
  BY <1>4 DEF NoRepetition, Uncounted
<1>8. WindowsApart'
  BY <1>1 DEF WindowsApart, Uncounted
<1>7. StoreIsLastRun'
  <2> SUFFICES ASSUME NEW l \in Keys, store'[l] # None
               PROVE  \E s \in Requests : \E i \in 1..Len(runs'[s]) :
                        /\ Key(arg'[s]) = l
                        /\ runs'[s][i].gen = gen'
                        /\ runs'[s][i].ends = store'[l].ends
                        /\ runs'[s][i].hits = store'[l].hits
    BY DEF StoreIsLastRun
  <2>1. UNCHANGED <<gen, store>>
    BY DEF Uncounted
  <2>2. PICK s \in Requests : \E i \in 1..Len(runs[s]) :
          /\ Key(arg[s]) = l /\ runs[s][i].gen = gen
          /\ runs[s][i].ends = store[l].ends /\ runs[s][i].hits = store[l].hits
    BY <2>1 DEF StoreIsLastRun
  <2> QED BY <2>1, <2>2, <1>1 DEF Uncounted
<1> QED BY <1>3, <1>3a, <1>5, <1>6, <1>7, <1>8 DEF CountersOK

LEMMA InitInv ==
  Init => Inv
<1> SUFFICES ASSUME Init PROVE Inv
  OBVIOUS
<1>1. TypeOK
  <2>1. <<>> \in Seq(Run)
    OBVIOUS
  <2>2. runs \in [Requests -> Seq(Run)]
    BY <2>1 DEF Init
  <2>3. outage \subseteq Requests \cup Processes
    BY DEF Init
  <2> QED BY <2>2, <2>3 DEF Init, TypeOK
<1>2. /\ RunsInWindow /\ FirstHitOpens /\ NoGaps
      /\ NoRepetition /\ WindowsApart /\ StoreIsLastRun
  BY DEF Init, RunsInWindow, FirstHitOpens, NoGaps, NoRepetition, WindowsApart, StoreIsLastRun
<1>3. VerdictsFollowRuns /\ OutagesNoted /\ EnforcedWhenHealthy
  BY DEF Init, VerdictsFollowRuns, OutagesNoted, EnforcedWhenHealthy
<1> QED BY <1>1, <1>2, <1>3 DEF Inv

(* The run that was appended is the last one.                              *)
LEMMA RunScriptFacts ==
  ASSUME TypeOK, NEW r \in Requests, pc[r] = "sent", RunScript(r)
  PROVE  LET k == Key(arg[r]) IN
         /\ store' \in [Keys -> [hits: Nat \ {0}, ends: Nat] \cup {None}]
         /\ runs' \in [Requests -> Seq(Run)]
         /\ \A s \in Requests \ {r} : runs'[s] = runs[s]
         /\ runs'[r] # <<>>
         /\ runs'[r][Len(runs'[r])].hits = Hit(k).hits
<1> DEFINE k == Key(arg[r])
           x == [at |-> now, gen |-> gen, hits |-> Hit(k).hits, ends |-> Hit(k).ends]
<1>1. arg[r] \in Arrivals /\ k \in Keys
  BY KeyFacts DEF TypeOK
<1>2. Hit(k) \in [hits: Nat \ {0}, ends: Nat]
  BY <1>1, HitFacts
<1>3. x \in Run
  BY <1>2 DEF TypeOK, Run
<1>4. store' = [store EXCEPT ![k] = Hit(k)] /\ runs' = [runs EXCEPT ![r] = Append(runs[r], x)]
  BY DEF RunScript
<1>5. runs[r] \in Seq(Run) /\ runs'[r] = Append(runs[r], x)
  BY <1>4 DEF TypeOK
<1> HIDE DEF x
<1>6. runs'[r] \in Seq(Run) /\ runs'[r] # <<>> /\ runs'[r][Len(runs'[r])] = x
  BY <1>3, <1>5
<1>7. x.hits = Hit(k).hits
  BY DEF x
<1>8. runs' \in [Requests -> Seq(Run)] /\ \A s \in Requests \ {r} : runs'[s] = runs[s]
  BY <1>4, <1>5, <1>6 DEF TypeOK
<1>9. store' \in [Keys -> [hits: Nat \ {0}, ends: Nat] \cup {None}]
  BY <1>1, <1>2, <1>4 DEF TypeOK
<1> QED BY <1>6, <1>7, <1>8, <1>9

(* A request in a given place came in as an arrival at some process.       *)
LEMMA UnderWay ==
  ASSUME TypeOK, NEW r \in Requests, pc[r] # "new"
  PROVE  /\ arg[r] \in Arrivals /\ arg[r].process \in Processes
         /\ arg[r].limiter \in Limiters /\ Limit[arg[r].limiter] \in Nat
BY ArrivalsAssumption, LimitAssumption DEF TypeOK

(* The two steps in which the script runs.                                 *)
LEMMA IncrementPreserves ==
  ASSUME Inv, NEW r \in Requests, Increment(r) \/ IncrementUnheard(r)
  PROVE  Inv'
<1> DEFINE k == Key(arg[r])
<1>1. pc[r] = "sent" /\ RunScript(r) /\ UNCHANGED <<now, gen, arg, up, script, cached>>
  BY DEF Increment, IncrementUnheard, Ready, redis
<1>2. CountersOK'
  BY <1>1, CountedPreserves DEF Counted
<1>3. /\ store' \in [Keys -> [hits: Nat \ {0}, ends: Nat] \cup {None}]
      /\ runs' \in [Requests -> Seq(Run)]
      /\ \A s \in Requests \ {r} : runs'[s] = runs[s]
      /\ runs'[r] # <<>>
      /\ runs'[r][Len(runs'[r])].hits = Hit(k).hits
  BY <1>1, RunScriptFacts DEF Inv
<1>4. /\ arg[r] \in Arrivals /\ arg[r].process \in Processes
      /\ arg[r].limiter \in Limiters /\ Limit[arg[r].limiter] \in Nat
      /\ Hit(k).hits \in Nat
  BY <1>1, UnderWay, KeyFacts, HitFacts DEF Inv
<1>5. CASE Increment(r)
  <2>1. /\ pc' = [pc EXCEPT ![r] = Verdict(arg[r].limiter, Hit(k).hits)]
        /\ UNCHANGED <<outages, outage>>
        /\ Verdict(arg[r].limiter, Hit(k).hits) \in {"blocked", "passed"}
    BY <1>5 DEF Increment, Verdict, redis
  <2>2. TypeOK'
    BY <1>1, <1>3, <1>4, <2>1 DEF Inv, TypeOK
  <2>3. VerdictsFollowRuns'
    <3> SUFFICES ASSUME NEW s \in Requests
                 PROVE  /\ pc'[s] = "new" => runs'[s] = <<>>
                        /\ pc'[s] \in {"passed", "blocked"} => runs'[s] # <<>>
                        /\ pc'[s] = "passed" =>
                             runs'[s][Len(runs'[s])].hits <= Limit[arg'[s].limiter]
                        /\ pc'[s] = "blocked" =>
                             runs'[s][Len(runs'[s])].hits > Limit[arg'[s].limiter]
      BY DEF VerdictsFollowRuns, LastRun
    <3>1. CASE s = r
      BY <3>1, <1>1, <1>3, <1>4, <2>1 DEF Inv, TypeOK, Verdict
    <3>2. CASE s # r
      BY <3>2, <1>1, <1>3, <2>1 DEF Inv, TypeOK, VerdictsFollowRuns, LastRun
    <3> QED BY <3>1, <3>2
  <2>4. OutagesNoted' /\ EnforcedWhenHealthy'
    BY <1>1, <2>1 DEF Inv, TypeOK, OutagesNoted, EnforcedWhenHealthy
  <2> QED BY <1>2, <2>2, <2>3, <2>4 DEF Inv, CountersOK
<1>6. CASE IncrementUnheard(r)
  <2>1. pc' = pc /\ outage' = outage \cup {r} /\ outages' = outages + 1
    BY <1>6 DEF IncrementUnheard
  <2>2. TypeOK'
    BY <1>1, <1>3, <1>4, <2>1 DEF Inv, TypeOK
  <2>3. VerdictsFollowRuns'
    BY <1>1, <1>3, <2>1 DEF Inv, TypeOK, VerdictsFollowRuns, LastRun
  <2>4. OutagesNoted' /\ EnforcedWhenHealthy'
    BY <1>1, <2>1 DEF Inv, TypeOK, OutagesNoted, EnforcedWhenHealthy
  <2> QED BY <1>2, <2>2, <2>3, <2>4 DEF Inv, CountersOK
<1> QED BY <1>5, <1>6

(* What the other steps must show.                                         *)
LEMMA OtherStep ==
  ASSUME Inv, Uncounted, TypeOK', VerdictsFollowRuns', OutagesNoted',
         EnforcedWhenHealthy'
  PROVE  Inv'
BY UncountedPreserves DEF Inv, CountersOK

LEMMA StepInv ==
  Inv /\ [Next]_vars => Inv'
<1> SUFFICES ASSUME Inv, [Next]_vars PROVE Inv'
  OBVIOUS
<1> USE DEF Inv, redis, VerdictsFollowRuns, OutagesNoted, EnforcedWhenHealthy,
            LastRun
<1>1. ASSUME NEW r \in Requests, NEW a \in Arrivals, Arrive(r, a)
      PROVE  Inv'
  <2>1. Uncounted
    BY <1>1 DEF Arrive, Uncounted, TypeOK
  <2>2. TypeOK'
    BY <1>1 DEF Arrive, TypeOK
  <2>3. VerdictsFollowRuns' /\ OutagesNoted' /\ EnforcedWhenHealthy'
    BY <1>1 DEF Arrive, TypeOK
  <2> QED BY <2>1, <2>2, <2>3, OtherStep
<1>2. ASSUME NEW r \in Requests, Increment(r) \/ IncrementUnheard(r)
      PROVE  Inv'
  BY <1>2, IncrementPreserves
<1>3. ASSUME NEW r \in Requests, NoScript(r) \/ Reload(r)
      PROVE  Inv'
  <2>1. Uncounted
    BY <1>3 DEF NoScript, Reload, Uncounted, TypeOK
  <2>2. TypeOK'
    BY <1>3 DEF NoScript, Reload, Ready, TypeOK
  <2>3. VerdictsFollowRuns' /\ OutagesNoted' /\ EnforcedWhenHealthy'
    BY <1>3 DEF NoScript, Reload, Ready, TypeOK
  <2> QED BY <2>1, <2>2, <2>3, OtherStep
<1>4. ASSUME NEW r \in Requests, ReloadFails(r) \/ PassOnStoreError(r)
      PROVE  Inv'
  <2>1. pc[r] \in {"sent", "reload"} /\ arg[r].process \in Processes
    BY <1>4, UnderWay DEF ReloadFails, PassOnStoreError
  <2>2. Uncounted
    BY <1>4 DEF ReloadFails, PassOnStoreError, Uncounted, TypeOK
  <2>3. TypeOK'
    BY <1>4, <2>1 DEF ReloadFails, PassOnStoreError, TypeOK
  <2>4. VerdictsFollowRuns' /\ OutagesNoted'
    BY <1>4, <2>1 DEF ReloadFails, PassOnStoreError, TypeOK
  <2>5. EnforcedWhenHealthy'
    BY <1>4, <2>1 DEF ReloadFails, PassOnStoreError, TypeOK
  <2> QED BY <2>2, <2>3, <2>4, <2>5, OtherStep
<1>5. ASSUME NEW p \in Processes, LoadScript(p) \/ LoadFails(p)
      PROVE  Inv'
  <2>1. Uncounted
    BY <1>5 DEF LoadScript, LoadFails, Uncounted, TypeOK
  <2>2. TypeOK'
    BY <1>5 DEF LoadScript, LoadFails, TypeOK
  <2>3. VerdictsFollowRuns' /\ OutagesNoted' /\ EnforcedWhenHealthy'
    BY <1>5 DEF LoadScript, LoadFails, TypeOK
  <2> QED BY <2>1, <2>2, <2>3, OtherStep
<1>6. CASE GoDown
  <2>1. Uncounted
    BY <1>6 DEF GoDown, Uncounted, TypeOK
  <2>2. TypeOK'
    <3>1. outage' \subseteq Requests \cup Processes
      BY <1>6 DEF GoDown, TypeOK
    <3>2. outages' \in Nat
      BY <1>6 DEF GoDown, TypeOK
    <3>2b. up' \in BOOLEAN
      BY <1>6, Zenon DEF GoDown
    <3>3. UNCHANGED <<now, cached, gen, store, script, pc, arg, runs>>
      BY <1>6 DEF GoDown
    <3> HIDE DEF Inv, OutagesNoted, EnforcedWhenHealthy, VerdictsFollowRuns
    <3>4. TypeOK
      BY DEF Inv
    <3> QED BY <3>1, <3>2, <3>2b, <3>3, <3>4 DEF TypeOK
  <2>3. VerdictsFollowRuns' /\ OutagesNoted' /\ EnforcedWhenHealthy'
    BY <1>6 DEF GoDown, TypeOK
  <2> QED BY <2>1, <2>2, <2>3, OtherStep
<1>7. CASE ComeBack
  <2>1. Uncounted
    BY <1>7 DEF ComeBack, Uncounted, TypeOK
  <2>2. TypeOK'
    <3>1. store' \in [Keys -> [hits: Nat \ {0}, ends: Nat] \cup {None}]
      BY <1>7 DEF ComeBack, TypeOK
    <3>2. gen' \in Nat
      BY <1>7 DEF ComeBack, TypeOK
    <3>2a. cached \in BOOLEAN
      BY Zenon DEF TypeOK
    <3>2b. up' \in BOOLEAN /\ cached' \in BOOLEAN
      BY <1>7, <3>2a, Zenon DEF ComeBack
    <3>3. UNCHANGED <<now, outages, script, pc, arg, runs, outage>>
      BY <1>7 DEF ComeBack
    <3> HIDE DEF Inv, OutagesNoted, EnforcedWhenHealthy, VerdictsFollowRuns
    <3>4. TypeOK
      BY DEF Inv
    <3> QED BY <3>1, <3>2, <3>2b, <3>3, <3>4 DEF TypeOK
  <2>3. VerdictsFollowRuns' /\ OutagesNoted' /\ EnforcedWhenHealthy'
    BY <1>7 DEF ComeBack, TypeOK
  <2> QED BY <2>1, <2>2, <2>3, OtherStep
<1>8. CASE Tick
  <2>1. Uncounted
    BY <1>8 DEF Tick, Uncounted, TypeOK
  <2>2. TypeOK'
    BY <1>8 DEF Tick, TypeOK
  <2>3. VerdictsFollowRuns' /\ OutagesNoted' /\ EnforcedWhenHealthy'
    BY <1>8 DEF Tick, TypeOK
  <2> QED BY <2>1, <2>2, <2>3, OtherStep
<1>9. CASE UNCHANGED vars
  <2>1. Uncounted
    BY <1>9 DEF vars, Uncounted, TypeOK
  <2>2. TypeOK'
    BY <1>9 DEF vars, TypeOK
  <2>3. VerdictsFollowRuns' /\ OutagesNoted' /\ EnforcedWhenHealthy'
    BY <1>9 DEF vars
  <2> QED BY <2>1, <2>2, <2>3, OtherStep
<1> QED BY <1>1, <1>2, <1>3, <1>4, <1>5, <1>6, <1>7, <1>8, <1>9 DEF Next

(* Inv is an invariant.                                                    *)
THEOREM InvHolds ==
  Spec => []Inv
<1>1. Init => Inv
  BY InitInv
<1>2. Inv /\ [Next]_vars => Inv'
  BY StepInv
<1> QED BY <1>1, <1>2, PTL DEF Spec

(* What is known of requests that passed.                                  *)
LEMMA PassedFacts ==
  ASSUME Inv, NEW s \in Passed
  PROVE  /\ s \in Requests /\ Len(runs[s]) \in 1..Len(runs[s])
         /\ arg[s] \in Arrivals /\ Payer(arg[s]) = Key(arg[s])
         /\ Payer(arg[s])[1] = arg[s].limiter
         /\ LastRun(s) \in Run
         /\ LastRun(s).hits <= Limit[arg[s].limiter]
         /\ Limit[arg[s].limiter] \in Nat /\ Window[arg[s].limiter] \in Nat
         /\ LastRun(s).at < LastRun(s).ends
         /\ LastRun(s).ends <= LastRun(s).at + Window[arg[s].limiter]
<1>1. s \in Requests /\ pc[s] = "passed" /\ runs[s] # <<>> /\ runs[s] \in Seq(Run)
  BY DEF Passed, Inv, VerdictsFollowRuns, TypeOK
<1>2. Len(runs[s]) \in 1..Len(runs[s]) /\ LastRun(s) \in Run
  BY <1>1 DEF LastRun
<1>3. /\ LastRun(s).at < LastRun(s).ends
      /\ LastRun(s).ends <= LastRun(s).at + Window[arg[s].limiter]
  BY <1>1, <1>2 DEF Inv, RunsInWindow, LastRun
<1>4. /\ arg[s] \in Arrivals /\ Payer(arg[s]) = Key(arg[s])
      /\ Payer(arg[s])[1] = arg[s].limiter
      /\ Limit[arg[s].limiter] \in Nat /\ Window[arg[s].limiter] \in Nat
  BY <1>1, UnderWay, KeysAreIdentities, KeyFacts, LimitAssumption DEF Inv
<1> QED BY <1>1, <1>2, <1>3, <1>4 DEF Inv, VerdictsFollowRuns

(* No two requests pass on the same hit of a window, and none beyond the   *)
(* limit, whatever the number of processes.                                *)
THEOREM LimitHolds ==
  Spec => []LimitPerWindow
<1>1. Inv => LimitPerWindow
  <2> SUFFICES ASSUME Inv, NEW r \in Passed
               PROVE  /\ LastRun(r).hits \in 1..Limit[arg[r].limiter]
                      /\ \A s \in Passed \ {r} :
                           /\ Payer(arg[s]) = Payer(arg[r])
                           /\ LastRun(s).gen = LastRun(r).gen
                           /\ LastRun(s).ends = LastRun(r).ends
                           => LastRun(s).hits # LastRun(r).hits
    BY DEF LimitPerWindow
  <2>1. \A s \in Passed :
          /\ s \in Requests /\ Len(runs[s]) \in 1..Len(runs[s])
          /\ Payer(arg[s]) = Key(arg[s]) /\ LastRun(s) \in Run
          /\ LastRun(s).hits <= Limit[arg[s].limiter]
          /\ Limit[arg[s].limiter] \in Nat
    BY PassedFacts
  <2>2. LastRun(r).hits \in 1..Limit[arg[r].limiter]
    BY <2>1 DEF Run
  <2>3. ASSUME NEW s \in Passed \ {r}, Payer(arg[s]) = Payer(arg[r]),
               LastRun(s).gen = LastRun(r).gen, LastRun(s).ends = LastRun(r).ends,
               LastRun(s).hits = LastRun(r).hits
        PROVE  FALSE
    <3>1. SameWindow(r, Len(runs[r]), s, Len(runs[s]))
      BY <2>1, <2>3 DEF SameWindow, LastRun
    <3> QED BY <2>1, <2>3, <3>1 DEF Inv, NoRepetition, LastRun
  <2> QED BY <2>2, <2>3
<1> QED BY <1>1, InvHolds, PTL

(* In a span as long as a window less than twice the limit passes.  There  *)
(* are hits of two windows in it at most.  If there are two, the hit that  *)
(* opened the first is not in it, so its other hits are numbered from 1 to *)
(* Limit - 1, and those of the second from Limit on.                       *)
THEOREM BurstsAreBounded ==
  Spec => []BurstBound
<1>1. Inv => BurstBound
  <2> SUFFICES ASSUME Inv, NEW r \in Passed
               PROVE  LET first == LastRun(r)
                          span == {s \in Passed :
                                     /\ Payer(arg[s]) = Payer(arg[r])
                                     /\ LastRun(s).gen = first.gen
                                     /\ LastRun(s).at - first.at
                                          \in 0..Window[arg[r].limiter] - 1}
                      IN Cardinality(span) <= 2 * Limit[arg[r].limiter] - 1
    BY DEF BurstBound
  <2> DEFINE L == Limit[arg[r].limiter]
             W == Window[arg[r].limiter]
             span == {s \in Passed : /\ Payer(arg[s]) = Payer(arg[r])
                                     /\ LastRun(s).gen = LastRun(r).gen
                                     /\ LastRun(s).at - LastRun(r).at \in 0..W - 1}
             older(s) == LastRun(s).ends = LastRun(r).ends
             number == [s \in span |-> IF \A t \in span : older(t) THEN LastRun(s).hits
                                       ELSE IF older(s) THEN LastRun(s).hits - 1
                                       ELSE L - 1 + LastRun(s).hits]
  <2>1. \A s \in span :
          /\ LastRun(s) \in Run /\ arg[s].limiter = arg[r].limiter
          /\ LastRun(s).hits \in 1..L
          /\ LastRun(s).at < LastRun(s).ends
          /\ LastRun(s).ends <= LastRun(s).at + W
          /\ LastRun(r).at <= LastRun(s).at /\ LastRun(s).at < LastRun(r).at + W
    <3> TAKE s \in span
    <3>1. LastRun(s) \in Run /\ LastRun(r) \in Run /\ W \in Nat
      BY PassedFacts
    <3>2. arg[s].limiter = arg[r].limiter
      BY PassedFacts
    <3>3. /\ LastRun(s).hits \in Nat \ {0}
          /\ LastRun(s).hits <= Limit[arg[s].limiter] /\ Limit[arg[s].limiter] \in Nat
      BY <3>1, PassedFacts DEF Run
    <3>4. LastRun(s).hits \in 1..L
      BY <3>2, <3>3
    <3>5. /\ LastRun(s).at < LastRun(s).ends
          /\ LastRun(s).ends <= LastRun(s).at + Window[arg[s].limiter]
      BY PassedFacts
    <3>6. LastRun(s).at - LastRun(r).at \in 0..W - 1
      OBVIOUS
    <3>7. LastRun(r).at <= LastRun(s).at /\ LastRun(s).at < LastRun(r).at + W
      BY <3>1, <3>6 DEF Run
    <3> QED BY <3>1, <3>2, <3>4, <3>5, <3>7
  <2>2. /\ LastRun(r) \in Run /\ W \in Nat /\ L \in Nat \ {0}
        /\ LastRun(r).at < LastRun(r).ends
        /\ LastRun(r).ends <= LastRun(r).at + W
    <3>1. arg[r].limiter \in Limiters
      BY PassedFacts, KeyFacts
    <3> QED BY <3>1, PassedFacts, LimitAssumption
  <2>2a. \A s \in span : LastRun(s).hits = 1 => LastRun(s).ends = LastRun(s).at + W
    <3> TAKE s \in span
    <3>1. s \in Requests /\ Len(runs[s]) \in 1..Len(runs[s]) /\ arg[s].limiter = arg[r].limiter
      BY PassedFacts
    <3> QED BY <3>1 DEF Inv, FirstHitOpens, LastRun
  <2>3. \A s, t \in Passed :
          Payer(arg[s]) = Payer(arg[t]) /\ LastRun(s).gen = LastRun(t).gen
            => /\ LastRun(s).ends < LastRun(t).ends =>
                    LastRun(s).ends + Window[arg[s].limiter] <= LastRun(t).ends
               /\ LastRun(s).ends = LastRun(t).ends /\ LastRun(s).hits = LastRun(t).hits
                    => s = t
    <3> TAKE s, t \in Passed
    <3>1. /\ s \in Requests /\ Len(runs[s]) \in 1..Len(runs[s])
          /\ t \in Requests /\ Len(runs[t]) \in 1..Len(runs[t])
          /\ Payer(arg[s]) = Key(arg[s]) /\ Payer(arg[t]) = Key(arg[t])
      BY PassedFacts
    <3>2. Payer(arg[s]) = Payer(arg[t]) /\ LastRun(s).gen = LastRun(t).gen
            => (LastRun(s).ends < LastRun(t).ends =>
                  LastRun(s).ends + Window[arg[s].limiter] <= LastRun(t).ends)
      BY <3>1 DEF Inv, WindowsApart, LastRun
    <3>3. ASSUME Payer(arg[s]) = Payer(arg[t]), LastRun(s).gen = LastRun(t).gen,
                 LastRun(s).ends = LastRun(t).ends, LastRun(s).hits = LastRun(t).hits
          PROVE  s = t
      <4>1. SameWindow(s, Len(runs[s]), t, Len(runs[t]))
        BY <3>1, <3>3 DEF SameWindow, LastRun
      <4>2. runs[t][Len(runs[t])].hits = runs[s][Len(runs[s])].hits
        BY <3>3 DEF LastRun
      <4>3. NoRepetition
        BY DEF Inv
      <4> QED BY <3>1, <4>1, <4>2, <4>3 DEF NoRepetition
    <3> QED BY <3>2, <3>3
  <2>4. \A s \in span : s \in Passed /\ Payer(arg[s]) = Payer(arg[r])
                        /\ LastRun(s).gen = LastRun(r).gen
    OBVIOUS
  <2> HIDE DEF span, L, W
  <2>5. \A s \in span : LastRun(s).ends >= LastRun(r).ends
    <3> SUFFICES ASSUME NEW s \in span, LastRun(s).ends < LastRun(r).ends
                 PROVE  FALSE
      BY <2>1, <2>2 DEF Run
    <3>1. LastRun(s).ends + W <= LastRun(r).ends
      BY <2>1, <2>3, <2>4 DEF W
    <3> QED BY <3>1, <2>1, <2>2 DEF Run
  <2>6. \A s, t \in span :
          LastRun(s).ends # LastRun(r).ends /\ LastRun(t).ends # LastRun(r).ends
            => ~(LastRun(s).ends < LastRun(t).ends)
    <3> SUFFICES ASSUME NEW s \in span, NEW t \in span,
                        LastRun(s).ends # LastRun(r).ends,
                        LastRun(s).ends < LastRun(t).ends
                 PROVE  FALSE
      OBVIOUS
    <3>1. LastRun(s).ends + W <= LastRun(t).ends
      BY <2>1, <2>3, <2>4 DEF W
    <3>2. LastRun(r).ends + W <= LastRun(s).ends
      BY <2>1, <2>2, <2>3, <2>4, <2>5 DEF Run, W
    <3> QED BY <3>1, <3>2, <2>1, <2>2 DEF Run
  <2>6a. ASSUME NEW s \in span, NEW t \in span, older(s), ~older(t)
         PROVE  LastRun(s).hits # 1
    <3>1. LastRun(s).ends + W <= LastRun(t).ends
      BY <2>1, <2>2, <2>3, <2>4, <2>5, <2>6a DEF Run, W
    <3>2. LastRun(s).at < LastRun(s).ends /\ LastRun(t).at < LastRun(r).at + W
          /\ LastRun(t).ends <= LastRun(t).at + W /\ LastRun(r).at <= LastRun(s).at
      BY <2>1
    <3>3. /\ LastRun(s).ends \in Nat /\ LastRun(s).at \in Nat /\ LastRun(t).ends \in Nat
          /\ LastRun(t).at \in Nat /\ LastRun(r).at \in Nat /\ W \in Nat
      BY <2>1, <2>2 DEF Run
    <3>4. LastRun(s).ends # LastRun(s).at + W
      BY <3>1, <3>2, <3>3
    <3> QED BY <3>4, <2>2a
  <2>7. number \in [span -> 1..2 * L - 1]
    <3> SUFFICES ASSUME NEW s \in span PROVE number[s] \in 1..2 * L - 1
      OBVIOUS
    <3>1. LastRun(s).hits \in 1..L /\ L \in Nat \ {0}
      BY <2>1, <2>2
    <3>2. CASE \A t \in span : older(t)
      BY <3>1, <3>2
    <3>3. CASE ~(\A t \in span : older(t)) /\ older(s)
      <4>1. LastRun(s).hits # 1
        BY <3>3, <2>6a
      <4> QED BY <3>1, <3>3, <4>1
    <3>4. CASE ~(\A t \in span : older(t)) /\ ~older(s)
      BY <3>1, <3>4
    <3> QED BY <3>2, <3>3, <3>4
  <2>8. ASSUME NEW s \in span, NEW t \in span, number[s] = number[t]
        PROVE  s = t
    <3>1. LastRun(s).hits \in 1..L /\ LastRun(t).hits \in 1..L
          /\ LastRun(s).ends \in Nat /\ LastRun(t).ends \in Nat
      BY <2>1 DEF Run
    <3>2. LastRun(s).hits = LastRun(t).hits
          /\ (older(s) <=> older(t))
      BY <2>2, <2>8, <3>1
    <3>3. LastRun(s).ends = LastRun(t).ends
      BY <2>6, <3>1, <3>2
    <3> QED BY <2>3, <2>4, <3>2, <3>3
  <2>9. number \in Injection(span, 1..2 * L - 1)
    BY <2>7, <2>8 DEF Injection, IsInjective
  <2>10. IsFiniteSet(1..2 * L - 1) /\ Cardinality(1..2 * L - 1) = 2 * L - 1
    BY <2>2, FS_Interval
  <2>11. Cardinality(span) <= 2 * L - 1
    BY <2>9, <2>10, FS_Injection
  <2> QED BY <2>11 DEF span, L, W
<1> QED BY <1>1, InvHolds, PTL

(* Whoever is blocked spent the budget itself, in the length of a window.  *)
THEOREM BlocksAreEarned ==
  Spec => []EarnedBlock
<1>1. Inv => EarnedBlock
  <2> SUFFICES ASSUME Inv, NEW r \in Requests, pc[r] = "blocked",
                      NEW j \in 1..Limit[arg[r].limiter]
               PROVE  \E s \in Requests : \E i \in 1..Len(runs[s]) :
                        /\ Payer(arg[s]) = Payer(arg[r])
                        /\ runs[s][i].gen = LastRun(r).gen
                        /\ runs[s][i].hits = j
                        /\ runs[s][i].at > LastRun(r).at - Window[arg[r].limiter]
    BY DEF EarnedBlock
  <2> DEFINE n == Len(runs[r])
  <2>1. /\ runs[r] \in Seq(Run) /\ runs[r] # <<>>
        /\ runs[r][n].hits > Limit[arg[r].limiter]
    BY DEF Inv, TypeOK, VerdictsFollowRuns, LastRun
  <2>2. n \in 1..Len(runs[r]) /\ runs[r][n] \in Run
    BY <2>1
  <2>3. arg[r] \in Arrivals /\ Limit[arg[r].limiter] \in Nat
    BY UnderWay DEF Inv
  <2>4. j \in 1..runs[r][n].hits
    <3>1. runs[r][n].hits \in Nat
      BY <2>2 DEF Run
    <3> QED BY <3>1, <2>1, <2>3
  <2>5. PICK s \in Requests : \E i \in 1..Len(runs[s]) :
          SameWindow(r, n, s, i) /\ runs[s][i].hits = j
    BY <2>2, <2>4 DEF Inv, NoGaps
  <2>6. PICK i \in 1..Len(runs[s]) : SameWindow(r, n, s, i) /\ runs[s][i].hits = j
    BY <2>5
  <2>7. /\ arg[s] \in Arrivals /\ runs[s][i] \in Run
        /\ Window[arg[s].limiter] \in Nat
    BY RunnerArrived DEF Inv
  <2>8. Payer(arg[s]) = Payer(arg[r]) /\ arg[s].limiter = arg[r].limiter
    BY <2>3, <2>6, <2>7, KeysAreIdentities, KeyFacts DEF SameWindow
  <2>9. /\ runs[s][i].ends <= runs[s][i].at + Window[arg[s].limiter]
        /\ runs[r][n].at < runs[r][n].ends
    BY <2>2 DEF Inv, RunsInWindow
  <2>10. runs[s][i].at > LastRun(r).at - Window[arg[r].limiter]
    <3>1. /\ runs[s][i].at \in Nat /\ runs[s][i].ends \in Nat
          /\ runs[r][n].at \in Nat /\ runs[r][n].ends \in Nat
      BY <2>2, <2>7 DEF Run
    <3>2. runs[s][i].ends = runs[r][n].ends
      BY <2>6 DEF SameWindow
    <3>3. Window[arg[s].limiter] = Window[arg[r].limiter]
      BY <2>8
    <3>4. runs[s][i].at > runs[r][n].at - Window[arg[r].limiter]
      <4>1. runs[r][n].at < runs[s][i].ends
        BY <3>2, <2>9
      <4>2. runs[s][i].ends <= runs[s][i].at + Window[arg[r].limiter]
        BY <3>3, <2>9
      <4>3. Window[arg[r].limiter] \in Nat
        BY <3>3, <2>7
      <4> QED BY <4>1, <4>2, <4>3, <3>1
    <3> QED BY <3>4 DEF LastRun
  <2> QED BY <2>6, <2>8, <2>10 DEF SameWindow, LastRun
<1> QED BY <1>1, InvHolds, PTL

(* A limiter is off for a request only because of an outage.               *)
THEOREM EnforcementHolds ==
  Spec => []EnforcedWhenHealthy
<1>1. Inv => EnforcedWhenHealthy
  BY DEF Inv
<1> QED BY <1>1, InvHolds, PTL

-----------------------------------------------------------------------------
(* The refinement. *)

(* The keys of Redis are the identities of the abstract limiter, and its   *)
(* windows are the counters.                                               *)
LEMMA WindowsAreCounters ==
  Payers = Keys /\ [k \in Payers |-> IF k \in Keys THEN store[k] ELSE None]
                      = [k \in Keys |-> store[k]]
<1>1. Payers = Keys
  BY KeysAreIdentities DEF Payers, Keys
<1> QED BY <1>1

(* A hit in Redis is a hit of the abstract window.                         *)
LEMMA HitIsCounted ==
  ASSUME TypeOK, NEW k \in Keys
  PROVE  FW!Counted(k) = Hit(k)
<1>1. k \in Payers
  BY WindowsAreCounters
<1>2. CASE store[k] = None
  BY <1>1, <1>2 DEF FW!Counted, FW!Open, Hit
<1>3. CASE store[k] # None
  <2>1. store[k].ends \in Nat /\ now \in Nat
    BY <1>3 DEF TypeOK
  <2>2. FW!Open(k) <=> ~(store[k].ends <= now)
    BY <1>1, <1>3, <2>1 DEF FW!Open
  <2> QED BY <1>1, <1>3, <2>2 DEF FW!Counted, Hit
<1> QED BY <1>2, <1>3

(* What a request under way is in the abstract limiter.                    *)
LEMMA IsPending ==
  ASSUME TypeOK, NEW r \in Requests, pc[r] \in {"sent", "reload"}
  PROVE  FW!Pending(r) /\ Payer(arg[r]) = Key(arg[r]) /\ Key(arg[r]) \in Keys
         /\ Key(arg[r])[1] = arg[r].limiter
<1>1. arg[r] \in Arrivals
  BY DEF TypeOK
<1>2. Payer(arg[r]) # None
  <2>1. Payer(arg[r]) \in Limiters \X (Users \cup Addresses) \X (Codes \cup {None})
    BY <1>1, ArrivalsAssumption DEF Payer, Identity
  <2> QED BY <2>1, DeploymentAssumption
<1> QED BY <1>1, <1>2, KeyFacts, KeysAreIdentities DEF FW!Pending

(* A step of a request that only waits, of a process, or of Redis.         *)
LEMMA NothingSeen ==
  ASSUME UNCHANGED <<now, store, arg>>,
         \A r \in Requests : pc'[r] = pc[r] \/ {pc[r], pc'[r]} \subseteq {"sent", "reload"}
  PROVE  UNCHANGED FW!vars
<1>1. UNCHANGED [k \in Payers |-> IF k \in Keys THEN store[k] ELSE None]
  OBVIOUS
<1>2. UNCHANGED [r \in Requests |-> IF pc[r] = "new" THEN None ELSE Payer(arg[r])]
  OBVIOUS
<1>3. UNCHANGED [r \in Requests |->
         IF pc[r] \in {"passed", "blocked", "uncounted"} THEN pc[r] ELSE "pending"]
  OBVIOUS
<1> QED BY <1>1, <1>2, <1>3 DEF FW!vars

(* Every step of the processes, of Redis and of its clock is a step of the *)
(* one limiter, or is not seen there.                                      *)
LEMMA FixedWindowStep ==
  Inv /\ [Next]_vars => [FW!Next]_(FW!vars)
<1> SUFFICES ASSUME Inv, [Next]_vars PROVE [FW!Next]_(FW!vars)
  OBVIOUS
<1> DEFINE windows == [k \in Payers |-> IF k \in Keys THEN store[k] ELSE None]
           payers == [r \in Requests |-> IF pc[r] = "new" THEN None ELSE Payer(arg[r])]
           verdicts == [r \in Requests |->
                          IF pc[r] \in {"passed", "blocked", "uncounted"}
                          THEN pc[r] ELSE "pending"]
<1>0. TypeOK
  BY DEF Inv
<1>1. ASSUME NEW r \in Requests, NEW a \in Arrivals, Arrive(r, a)
      PROVE  FW!Next
  <2>1. Payer(a) \in Payers /\ payers[r] = None
    BY <1>1 DEF Arrive, Payers
  <2>2. payers' = [payers EXCEPT ![r] = Payer(a)]
    BY <1>0, <1>1 DEF Arrive, TypeOK
  <2>3. UNCHANGED <<now, windows, verdicts>>
    BY <1>0, <1>1 DEF Arrive, TypeOK
  <2>4. FW!Ask(r, Payer(a))
    BY <2>1, <2>2, <2>3 DEF FW!Ask
  <2> QED BY <2>1, <2>4 DEF FW!Next
<1>2. ASSUME NEW r \in Requests, pc[r] = "sent", RunScript(r), UNCHANGED <<now, arg>>,
             NEW k \in Keys, k = Key(arg[r])
      PROVE  /\ FW!Pending(r) /\ payers[r] = k
             /\ windows' = [windows EXCEPT ![k] = FW!Counted(k)]
  <2>1. FW!Pending(r) /\ Payer(arg[r]) = Key(arg[r])
    BY <1>0, <1>2, IsPending
  <2>2. payers[r] = k
    BY <1>2, <2>1
  <2>3. store' = [store EXCEPT ![k] = FW!Counted(k)]
    BY <1>0, <1>2, HitIsCounted DEF RunScript
  <2>4. windows = store
    BY <1>0, WindowsAreCounters DEF TypeOK
  <2>5. windows' = store'
    BY <1>0, <2>3, WindowsAreCounters DEF TypeOK
  <2> QED BY <2>1, <2>2, <2>3, <2>4, <2>5
<1>3. ASSUME NEW r \in Requests, Increment(r)
      PROVE  FW!Next
  <2> DEFINE k == Key(arg[r])
             answer == Verdict(arg[r].limiter, Hit(k).hits)
  <2>1. /\ pc[r] = "sent" /\ RunScript(r) /\ UNCHANGED <<now, arg>>
        /\ pc' = [pc EXCEPT ![r] = answer]
        /\ answer \in {"passed", "blocked"}
    BY <1>3 DEF Increment, Ready, redis, Verdict
  <2>2. k \in Keys /\ k[1] = arg[r].limiter
    BY <1>0, <2>1, IsPending
  <2>3. /\ FW!Pending(r) /\ payers[r] = k
        /\ windows' = [windows EXCEPT ![k] = FW!Counted(k)]
    BY <1>2, <2>1, <2>2
  <2>4. verdicts' = [verdicts EXCEPT ![r] = answer]
    BY <1>0, <2>1 DEF TypeOK
  <2>5. answer = IF FW!Counted(k).hits > [l \in Payers |-> Limit[l[1]]][k]
                 THEN "blocked" ELSE "passed"
    BY <1>0, <2>2, HitIsCounted, WindowsAreCounters DEF Verdict
  <2>6. UNCHANGED payers
    BY <1>0, <2>1 DEF TypeOK
  <2> HIDE DEF k, answer, windows, verdicts
  <2>7. FW!Decide(r)
    BY <2>1, <2>3, <2>4, <2>5, <2>6 DEF FW!Decide, windows, verdicts
  <2> QED BY <2>7 DEF FW!Next
<1>4. ASSUME NEW r \in Requests, IncrementUnheard(r)
      PROVE  FW!Next
  <2> DEFINE k == Key(arg[r])
  <2>1. pc[r] = "sent" /\ RunScript(r) /\ UNCHANGED <<now, arg, pc>>
    BY <1>4 DEF IncrementUnheard, Ready
  <2>2. k \in Keys
    BY <1>0, <2>1, IsPending
  <2>3. /\ FW!Pending(r) /\ payers[r] = k
        /\ windows' = [windows EXCEPT ![k] = FW!Counted(k)]
    BY <1>2, <2>1, <2>2
  <2>4. UNCHANGED <<payers, verdicts>>
    BY <2>1
  <2> HIDE DEF k, windows, verdicts
  <2>5. FW!Waste(r)
    BY <2>1, <2>3, <2>4 DEF FW!Waste, windows, verdicts
  <2> QED BY <2>5 DEF FW!Next
<1>5. ASSUME NEW r \in Requests, ReloadFails(r) \/ PassOnStoreError(r)
      PROVE  FW!Next
  <2>1. /\ pc[r] \in {"sent", "reload"} /\ pc' = [pc EXCEPT ![r] = "uncounted"]
        /\ UNCHANGED <<now, store, arg>>
    BY <1>5 DEF ReloadFails, PassOnStoreError, redis
  <2>2. FW!Pending(r)
    BY <1>0, <2>1, IsPending
  <2>3. verdicts' = [verdicts EXCEPT ![r] = "uncounted"]
    BY <1>0, <2>1 DEF TypeOK
  <2>4. UNCHANGED <<now, windows, payers>>
    BY <1>0, <2>1 DEF TypeOK
  <2>5. FW!Skip(r)
    BY <2>2, <2>3, <2>4 DEF FW!Skip
  <2> QED BY <2>5 DEF FW!Next
<1>6. ASSUME NEW r \in Requests, NoScript(r) \/ Reload(r)
      PROVE  UNCHANGED FW!vars
  <2>1. /\ UNCHANGED <<now, store, arg>>
        /\ \A s \in Requests : pc'[s] = pc[s] \/ {pc[s], pc'[s]} \subseteq {"sent", "reload"}
    BY <1>0, <1>6 DEF NoScript, Reload, Ready, redis, TypeOK
  <2> QED BY <2>1, NothingSeen
<1>7. ASSUME \/ \E p \in Processes : LoadScript(p) \/ LoadFails(p)
             \/ GoDown
             \/ UNCHANGED vars
      PROVE  UNCHANGED FW!vars
  <2>1. UNCHANGED <<now, store, arg, pc>>
    BY <1>7 DEF LoadScript, LoadFails, GoDown, vars, redis
  <2> QED BY <2>1, NothingSeen
<1>8. ASSUME ComeBack
      PROVE  [FW!Next]_(FW!vars)
  <2>1. UNCHANGED <<now, arg, pc>>
    BY <1>8 DEF ComeBack
  <2>2. CASE UNCHANGED store
    <3>1. UNCHANGED FW!vars
      BY <2>1, <2>2, NothingSeen
    <3> QED BY <3>1
  <2>3. CASE store' = [k \in Keys |-> None]
    <3>1. windows' = [k \in Payers |-> None]
      BY <2>3
    <3>2. UNCHANGED <<now, payers, verdicts>>
      BY <2>1
    <3>3. FW!Forget
      BY <3>1, <3>2 DEF FW!Forget
    <3> QED BY <3>3 DEF FW!Next
  <2> QED BY <1>8, <2>2, <2>3 DEF ComeBack
<1>9. ASSUME Tick
      PROVE  FW!Next
  <2>1. now' = now + 1 /\ UNCHANGED <<store, pc, arg>>
    BY <1>9 DEF Tick
  <2>2. UNCHANGED <<windows, payers, verdicts>>
    BY <2>1
  <2>3. FW!Pass
    BY <2>1, <2>2 DEF FW!Pass
  <2> QED BY <2>3 DEF FW!Next
<1> QED BY <1>1, <1>3, <1>4, <1>5, <1>6, <1>7, <1>8, <1>9 DEF Next

(* Any number of processes, proxies and outages: what the clients see is   *)
(* one fixed window each.                                                  *)
THEOREM RateLimitImplementsFixedWindow ==
  Spec => ImplementsFixedWindow
<1>1. Init => FW!Init
  BY DEF Init, FW!Init
<1> QED BY InvHolds, <1>1, FixedWindowStep, PTL DEF Spec, ImplementsFixedWindow, FW!Spec
==============================================================================
