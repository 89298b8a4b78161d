SPECIFICATION FairSpec
CONSTANTS
  MaxSession = 1
  MaxTyped = 3
  MaxMessages = 2
  UserWaits = TRUE
INVARIANTS
  TypeOK
  LinesHandledInOrder
  TextsShownInOrder
PROPERTIES
  EveryLineAnswered
  ReaderIsJoined
  SessionEnds
CHECK_DEADLOCK FALSE
