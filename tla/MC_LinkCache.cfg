\* Two lookups, two writers, three writes: a write can overtake a fill while
\* another write's DEL is pending.
SPECIFICATION FairSpec
CONSTANTS
  Readers = {r1, r2}
  Writers = {w1, w2}
  MaxVersion = 3
  NoRow = NoRow
  Absent = Absent
INVARIANTS StaleEntryExplained Inv
PROPERTIES AnswersExplained AgreementLasts StalenessEnds
