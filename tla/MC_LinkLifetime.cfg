SPECIFICATION Spec
CONSTANTS
  Visitors = {v1}
  Passwords = {}
  Expiries = {1, 3}
  Caps = {1}
  LongTTL = 2
  CappedTTL = 1
  MissTTL = 1
  UnlockTTL = 1
  MaxLag = 1
  MaxTime = 5
  MaxEdits = 3
  MaxClicks = 1
  None = None
INVARIANTS Inv
PROPERTIES DeadBriefly
CHECK_DEADLOCK FALSE
