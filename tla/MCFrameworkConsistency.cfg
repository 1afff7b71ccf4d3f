SPECIFICATION Safety
CONSTANTS
  TaskNumber = 1
  OthersDelete = {"ConfigMap", "Pod"}
  MaxAttempt = 1
  MaxTaskAttempt = 1
  MaxLag = 1
  MaxLost = 1
  MaxCrashes = 1
INVARIANTS TypeOK ConsistencyGuarantee2 ConsistencyGuarantee3 NoEventLost
CHECK_DEADLOCK FALSE
