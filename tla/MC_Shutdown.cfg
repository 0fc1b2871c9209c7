SPECIFICATION FairSpec
CONSTANTS
  Units = {u1, u2, u3}
  Signals = {s1, s2, s3}
  None = None
INVARIANTS Inv WorkCutOnlyByTimer ConnectionsOutliveQueues
PROPERTIES Ends
CHECK_DEADLOCK FALSE
