---------------------------- MODULE MC_RateLimit ----------------------------
EXTENDS RateLimit, TLC

CONSTANTS r1, r2, r3, p1, p2, c1, c2, lb

\* Two clients behind one proxy log in at two processes; one of them claims
\* the other's address.
Login(p, c, h) ==
  [process |-> p, limiter |-> "auth-login", client |-> c, header |-> h,
   user |-> None, code |-> None]

MCArrivals == {Login(p1, c1, <<>>), Login(p2, c1, <<c2>>), Login(p2, c2, <<>>)}
MCProxies == <<lb>>
MCLimit == [l \in Limiters |-> 1]
MCWindow == [l \in Limiters |-> 2]

Symmetry == Permutations(Requests)
==============================================================================
