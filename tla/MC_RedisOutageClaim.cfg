SPECIFICATION PatientSpec
CONSTANTS
  q1 = q1
  Requests = {q1, q2}
  States = {s1, s2}
  None = None
PROPERTIES OutageIsAnswered
