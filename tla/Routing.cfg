SPECIFICATION SpecWithFiles
CONSTANTS
  ClientIds = {c1, c2}
  Names = {a, b}
  Topics = {t1}
  IoFaults = {}
  MaxSession = 2
  MaxPublish = 2
  MaxQueue = 4
  OneLoginPerSession = FALSE
  AllowRestart = TRUE
  None = None
  NoTopic = NoTopic
  Absent = Absent
  Torn = Torn
INVARIANTS
  OneCopyPerSubscriber
  PublishOrderKept
PROPERTIES
  ImplementsPubSub
SYMMETRY Symmetry
CHECK_DEADLOCK FALSE
