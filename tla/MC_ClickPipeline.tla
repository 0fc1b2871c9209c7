-------------------------- MODULE MC_ClickPipeline --------------------------
(* ClickPipeline with all its clicks on one link, where their transactions *)
(* wait for each other.                                                    *)
EXTENDS ClickPipeline

CONSTANTS c1, l1

OneLink == [c \in Clicks |-> l1]

(* The add of c1 may reach Redis twice.                                    *)
C1Twice == [c \in Clicks |-> IF c = c1 THEN 2 ELSE 1]

(* A click whose job reached the queue settles.  Checked for c1, the click *)
(* that may be added twice; c2 competes with it for slots and the link.    *)
EveryJobSettles == Settles(c1)
=============================================================================
