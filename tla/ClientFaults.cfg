SPECIFICATION DurableSpec
CONSTANTS
  ClientIds = {c1, c2}
  Names = {a, b}
  Topics = {}
  IoFaults = {"write", "tear"}
  MaxSession = 2
  MaxPublish = 0
  MaxQueue = 3
  OneLoginPerSession = TRUE
  AllowRestart = FALSE
  None = None
  NoTopic = NoTopic
  Absent = Absent
  Torn = Torn
  Unknown = Unknown
INVARIANTS
  DurableTypeOK
  FileKeepsClients
  FileIsMemory
CHECK_DEADLOCK FALSE
