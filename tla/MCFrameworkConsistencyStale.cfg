SPECIFICATION Safety
CONSTANTS
  TaskNumber = 1
  OthersDelete = {}
  MaxAttempt = 0
  MaxTaskAttempt = 0
  MaxLag = 1
  MaxLost = 0
  MaxCrashes = 0
INVARIANT ConsistencyGuarantee4
CHECK_DEADLOCK FALSE
