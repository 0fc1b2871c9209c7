SPECIFICATION FairSpec
CONSTANTS
  q1 = q1
  Requests = {q1, q2, q3}
  States = {s1, s2}
  None = None
INVARIANTS Inv StatesSingleUse OnlyOthersFail AnsweredAtTheEnd
PROPERTIES HandlersAdvance OutageTolerated
