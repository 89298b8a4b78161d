SPECIFICATION Spec
CONSTANTS
  ClientIds = {c1, c2}
  Names = {a, b}
  Topics = {t1}
  IoFaults = {"write"}
  MaxSession = 2
  MaxPublish = 1
  MaxQueue = 5
  OneLoginPerSession = TRUE
  AllowRestart = TRUE
  None = None
  NoTopic = NoTopic
  Absent = Absent
  Torn = Torn
INVARIANTS
  TypeOK
  NoOrphanedLogin
  ClosedSessionReleases
  WriteInFlight
  SubscribersRegistered
SYMMETRY Symmetry
CHECK_DEADLOCK FALSE
