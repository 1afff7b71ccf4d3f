SPECIFICATION Safety
CONSTANTS
  Roles = {"a", "b"}
  MaxNumber = 2
  UserSpecs <- MCUserSpecs
  MaxEvents = 3
INVARIANTS TypeOK ScaleEffective CompletedWithinTotal PodsAreExposed
PROPERTIES ScaleDownCommitted RemovedOnceExposed
CHECK_DEADLOCK FALSE
