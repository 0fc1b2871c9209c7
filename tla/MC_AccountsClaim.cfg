\* Two sign-ins of one Google account (a double click).
SPECIFICATION Spec
CONSTANTS
  a = a
  A = A
  b = b
  Requests = {q1, q2}
  Emails = {a, A, b}
  Lower <- LowerA
  Passwords = {p1}
  Subs = {g1}
  None = None
PROPERTIES OAuthConflictIsForeign
\* Every request is handled once.
CHECK_DEADLOCK FALSE
