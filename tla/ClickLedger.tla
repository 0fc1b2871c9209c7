----------------------------- MODULE ClickLedger -----------------------------
(***************************************************************************)
(* What click recording promises, without queue, workers or transactions:  *)
(* a click of an existing link is recorded at most once, its row and the   *)
(* increment of its link's counter appear together, and deleting a link    *)
(* takes its clicks with it (clickProcessor.ts:6-22).                      *)
(***************************************************************************)
EXTENDS Naturals

CONSTANTS
  Clicks,   \* click ids
  Links,    \* link ids
  LinkOf    \* the link each click is on

VARIABLES
  links,    \* the links that exist
  recorded, \* the clicks that have a row
  count     \* click_count of each link, 0 when it is gone

ledgerVars == <<links, recorded, count>>

LedgerInit ==
  /\ links = Links
  /\ recorded = {}
  /\ count = [l \in Links |-> 0]

Record(c) ==
  /\ LinkOf[c] \in links
  /\ c \notin recorded
  /\ recorded' = recorded \union {c}
  /\ count' = [count EXCEPT ![LinkOf[c]] = @ + 1]
  /\ UNCHANGED links

Remove(l) ==
  /\ l \in links
  /\ links' = links \ {l}
  /\ recorded' = {c \in recorded : LinkOf[c] # l}
  /\ count' = [count EXCEPT ![l] = 0]

LedgerNext ==
  \/ \E c \in Clicks : Record(c)
  \/ \E l \in Links : Remove(l)

LedgerSpec == LedgerInit /\ [][LedgerNext]_ledgerVars
=============================================================================
