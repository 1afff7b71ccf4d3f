SPECIFICATION Safety
CONSTANTS
  ExecutionTypes = {"Create", "Start", "Stop"}
  MaxRetryCount = 1
  FancyRetryPolicy = FALSE
  MaxTries = 1
  MaxVersions = 50
  MaxUid = 1
  MaxCrashes = 1
  MaxLag = 1
  MaxAttempt = 2
  MaxLost = 1
VIEW View
INVARIANTS DeletedAfterPersisted DeletionRequestedIsTrue RetriesWithinPolicy NoConfigMapLeak
PROPERTY ImplementsLifecycle
CHECK_DEADLOCK FALSE
