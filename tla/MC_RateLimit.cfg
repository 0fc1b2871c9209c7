CONSTANTS
  r1 = r1
  r2 = r2
  r3 = r3
  p1 = p1
  p2 = p2
  c1 = c1
  c2 = c2
  lb = lb
  None = None
  Requests = {r1, r2, r3}
  Processes = {p1, p2}
  Addresses = {c1, c2, lb}
  Users = {}
  Codes = {}
  Arrivals <- MCArrivals
  Proxies <- MCProxies
  TrustProxy = 1
  Limit <- MCLimit
  Window <- MCWindow
  MaxRetries = 1
  MaxOutages = 1
  MaxTime = 3
SPECIFICATION Spec
INVARIANTS LimitPerWindow BurstBound EarnedBlock EnforcedWhenHealthy Inv
PROPERTY ImplementsFixedWindow
SYMMETRY Symmetry
CHECK_DEADLOCK FALSE
