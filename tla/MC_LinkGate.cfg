SPECIFICATION Spec
CONSTANTS
  Visitors = {v1}
  Passwords = {p1, p2}
  Expiries = {}
  Caps = {}
  LongTTL = 2
  CappedTTL = 1
  MissTTL = 1
  UnlockTTL = 3
  MaxLag = 1
  MaxTime = 4
  MaxEdits = 3
  MaxClicks = 0
  None = None
INVARIANTS Inv
PROPERTIES GateHolds
CHECK_DEADLOCK FALSE
