SPECIFICATION Spec
CONSTANTS
  Platforms = {"desktop", "mobile"}
  MaxChanges = 1
  MaxFaults = 1
INVARIANTS
  FollowUpOwned
PROPERTIES
  CooldownRespected
  FailureIsRetried
  EveryChangeSynced
CHECK_DEADLOCK FALSE
