\* Two clicks on one link, two slots: duplicates of a job in two slots while
\* the other click's increment is open.  No symmetry: liveness is checked.
SPECIFICATION FairSpec
CONSTANTS
  c1 = c1
  l1 = l1
  Clicks = {c1, c2}
  Links = {l1}
  LinkOf <- OneLink
  Slots = {s1, s2}
  NoSlot = NoSlot
  NoClick = NoClick
  MaxAttempts = 2
  MaxStalls = 1
  MaxAdds <- C1Twice
INVARIANTS CountMatchesRows CompletedIsRecorded Inv
PROPERTIES ImplementsLedger JobsWearOut EveryJobSettles
\* The clicks are finitely many: once all are dealt with nothing is left to do.
CHECK_DEADLOCK FALSE
