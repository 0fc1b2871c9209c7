CONSTANTS
  r1 = r1
  r2 = r2
  r3 = r3
  u1 = u1
  u2 = u2
  None = None
  Gone = Gone
  Requests = {r1, r2, r3}
  Users = {u1, u2}
  Ids = {1, 2, 3, 4}
  Codes = {"sale", "Docs", "new", "a1B2c3D", "x9Y8z7W"}
  Generated = {"a1B2c3D", "x9Y8z7W"}
  Aliases = {"Docs", "new"}
  Lower <- MCLower
  Inputs <- MCInputs
  Stored <- MCStored
  PageSize = 1
  MaxAttempts = 2
SPECIFICATION Spec
INVARIANTS ScanComplete EveryLinkReachable Inv
PROPERTY ImplementsRegistry
SYMMETRY Symmetry
CHECK_DEADLOCK FALSE
