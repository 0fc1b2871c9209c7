----------------------------- MODULE MC_Accounts -----------------------------
(* Accounts with two spellings of one address and another address.         *)
EXTENDS Accounts, TLC

CONSTANTS a, A, b

LowerA == (a :> a) @@ (A :> a) @@ (b :> b)

Symmetry == Permutations(Requests) \union Permutations(Passwords) \union Permutations(Subs)
=============================================================================
