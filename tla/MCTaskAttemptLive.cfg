SPECIFICATION FairSpec
CONSTANTS
  MaxRetryCount = 1
  FancyRetryPolicy = FALSE
  PodFailedCodes = {"ContainerUnrecognizedFailed"}
  MaxAttempt = 1
  MaxEdits = 1
  MaxLag = 1
  MaxLost = 0
  MaxCrashes = 0
VIEW View
PROPERTIES NeverStuck ScaleDownEnds
CHECK_DEADLOCK FALSE
