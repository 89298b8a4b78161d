SPECIFICATION FairSpec
CONSTANTS
  ClientIds = {c1, c2}
  Names = {a, b}
  Topics = {t1}
  IoFaults = {}
  MaxSession = 2
  MaxPublish = 1
  MaxQueue = 4
  OneLoginPerSession = TRUE
  AllowRestart = FALSE
  None = None
  NoTopic = NoTopic
  Absent = Absent
  Torn = Torn
PROPERTIES
  FlushedToOpenSocket
CHECK_DEADLOCK FALSE
