SPECIFICATION Safety
CONSTANTS
  PodFailureSpec <- MCPodFailureSpec
  Strings <- MCStrings
  Roles = {"a", "b"}
  MaxNumber = 2
  Specs <- MCSpecs
  InitialSpec <- MCInitialSpec
  AppEnds <- MCAppEnds
  CreationErrors <- MCCreationErrors
  MaxRetryCount = 1
  MaxPods = 3
  MaxFaults = 2
INVARIANTS TypeOK InjectsCurrentPods CompletionCodeAsDocumented
PROPERTIES StartsAfterPersisted AllOrNothing BarrierExitHonoured
CHECK_DEADLOCK FALSE
