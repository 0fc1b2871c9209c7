---------------------------- MODULE MC_LinkStore ----------------------------
EXTENDS LinkStore, TLC

CONSTANTS r1, r2, r3, u1, u2

\* Two links of one user, with room for a row between and behind them; one of
\* them has had clicks.
Row(c, clicked) == [owner |-> u1, code |-> c, content |-> None, clicked |-> clicked]
MCStored == [i \in Ids |-> CASE i = 1 -> Row("sale", FALSE)
                             [] i = 3 -> Row("a1B2c3D", TRUE)
                             [] OTHER -> None]

MCLower ==
  [c \in Codes |-> CASE c = "Docs" -> "docs" [] c = "a1B2c3D" -> "a1b2c3d"
                     [] c = "x9Y8z7W" -> "x9y8z7w" [] OTHER -> c]

\* The other user creates with an alias and tries a link that is not its own.
MCInputs ==
  [kind: {"create"}, user: {u1}, alias: {"Docs", None}]
  \cup [kind: {"create"}, user: {u2}, alias: {"new"}]
  \cup [kind: {"get", "stats", "update", "delete"}, user: {u1}, id: {1}]
  \cup [kind: {"delete"}, user: {u2}, id: {1}]
  \cup [kind: {"list"}, user: {u1}]

Symmetry == Permutations(Requests)
==============================================================================
