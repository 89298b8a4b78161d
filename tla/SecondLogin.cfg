SPECIFICATION SpecWithFiles
CONSTANTS
  ClientIds = {c1, c2}
  Names = {a, b}
  Topics = {t1}
  IoFaults = {}
  MaxSession = 1
  MaxPublish = 0
  MaxQueue = 4
  OneLoginPerSession = FALSE
  AllowRestart = FALSE
  None = None
  NoTopic = NoTopic
  Absent = Absent
  Torn = Torn
INVARIANTS
  ReleasedWithSession
CHECK_DEADLOCK FALSE
