SPECIFICATION Safety
CONSTANTS
  ExecutionTypes = {"Start", "Stop"}
  MaxRetryCount = 1
  FancyRetryPolicy = FALSE
  MaxTries = 1
  MaxVersions = 50
  MaxUid = 1
  MaxCrashes = 0
  MaxLag = 1
  MaxAttempt = 1
  MaxLost = 0
VIEW View
INVARIANT ExternalDeletedIsExternal
CHECK_DEADLOCK FALSE
