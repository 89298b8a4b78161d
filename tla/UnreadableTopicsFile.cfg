SPECIFICATION Spec
CONSTANTS
  ClientIds = {c1}
  Topics = {t1}
  NoTopic = NoTopic
  Absent = Absent
  Torn = Torn
  IoFaults = {"read"}
INVARIANTS
  FileKeepsPromises
