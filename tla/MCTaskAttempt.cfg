SPECIFICATION Safety
CONSTANTS
  MaxRetryCount = 1
  FancyRetryPolicy = TRUE
  PodFailedCodes = {"ContainerTransientFailed", "ContainerUnrecognizedFailed"}
  MaxAttempt = 2
  MaxEdits = 1
  MaxLag = 1
  MaxLost = 1
  MaxCrashes = 1
VIEW View
INVARIANTS TypeOK NoPodLeak DeletedAfterPersisted DeletionRequestedIsTrue RetriesWithinPolicy
PROPERTIES ExposedOnce ForcedOnlyIfExposed
CHECK_DEADLOCK FALSE
