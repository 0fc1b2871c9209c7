SPECIFICATION ClaimSpec
CONSTANTS
  Readers = {r1, r2}
  Writers = {w1}
  MaxVersion = 2
  NoRow = NoRow
  Absent = Absent
INVARIANTS SingleStaleRead
