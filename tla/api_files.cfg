SPECIFICATION Spec
CONSTANTS
  c1 = c1
  nobody = nobody
  Nobody = nobody
  Clients = {c1}
  Threads <- AllThreads
  Locks <- AllLocks
  Subjects <- AllSubjects
  EventTypes <- AllEventTypes
  MaxEvents = 1
  Handlers = {"jobs", "syncJob"}
  NFiles = 2
  FileSize = 1
INVARIANTS
  CompleteIsWhole
  ProgressNeverGoesBack
CHECK_DEADLOCK FALSE
