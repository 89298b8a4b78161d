SPECIFICATION Spec
CONSTANTS
  ClientIds = {c1, c2}
  Topics = {t1, t2}
  NoTopic = NoTopic
  Absent = Absent
  Torn = Torn
  IoFaults = {"write", "tear"}
INVARIANTS
  TypeOK
  FileKeepsPromises
  FileWithinMemory
PROPERTIES
  TopicsSurvive
  AnswersMatchMemory
