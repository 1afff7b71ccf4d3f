SPECIFICATION FairSpec
CONSTANTS
  Specs = {s1, s2}
  NoSpec = NoSpec
  Statuses <- MCStatuses
  NilStatus = 0
  Leq <- MCLeq
  MaxTries = 2
  MaxVersions = 4
  MaxUid = 2
  MaxCrashes = 1
INVARIANTS TypeOK SyncsAgainstPersisted SpecNeverReverted StatusOfOwnIncarnation
PROPERTIES MonotonicallyExposed SpecEventuallySynced ExpectedEventuallyPersisted
CHECK_DEADLOCK FALSE
