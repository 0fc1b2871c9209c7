\* Three requests in every mix of signup, login and Google sign-in.
SPECIFICATION Spec
CONSTANTS
  a = a
  A = A
  b = b
  Requests = {q1, q2, q3}
  Emails = {a, A, b}
  Lower <- LowerA
  Passwords = {p1, p2}
  Subs = {g1, g2}
  None = None
SYMMETRY Symmetry
INVARIANTS IdentitiesUnique SessionsMatchIdentity OneSignupWins Inv
PROPERTY ImplementsDirectory
\* Every request is handled once.
CHECK_DEADLOCK FALSE
