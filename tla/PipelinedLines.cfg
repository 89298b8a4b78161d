SPECIFICATION FairSpec
CONSTANTS
  MaxSession = 1
  MaxTyped = 2
  MaxMessages = 0
  UserWaits = FALSE
PROPERTIES
  EveryLineAnswered
CHECK_DEADLOCK FALSE
