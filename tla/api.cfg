SPECIFICATION FairSpec
CONSTANTS
  c1 = c1
  nobody = nobody
  Nobody = nobody
  Clients = {c1}
  Threads <- AllThreads
  Locks <- AllLocks
  Subjects <- AllSubjects
  EventTypes <- AllEventTypes
  MaxEvents = 2
  Handlers = {"downloads", "download", "jobs", "syncJob", "stats", "timeline"}
  NFiles = 1
  FileSize = 2
INVARIANTS
  TypeOK
  NewestFirst
  CompleteIsWhole
  ErrorsAreExplained
  EventsFollowStates
  ProgressNeverGoesBack
PROPERTIES
  OldestGoFirst
  RequestsAnswered
CHECK_DEADLOCK FALSE
