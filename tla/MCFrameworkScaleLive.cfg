SPECIFICATION FairSpec
CONSTANTS
  Roles = {"a"}
  MaxNumber = 2
  UserSpecs <- MCSmallSpecs
  MaxEvents = 3
PROPERTIES RescaleCompletes
CHECK_DEADLOCK FALSE
