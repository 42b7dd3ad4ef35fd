SPECIFICATION FairSpec
CONSTANTS
  box1 = box1
  box2 = box2
  hostA = hostA
  hostB = hostB
  noHost = noHost
  app1 = app1
  t1 = t1
  t2 = t2
  Names = {box1, box2}
  Apps = {app1}
  Hosts = {hostA, hostB}
  NoHost = noHost
  Transfers = {t1, t2}
  MaxRequests = 1
  Configs <- SomeConfigs
INVARIANTS
  TypeOK
  OneConnection
  PollsReady
  CleanExit
  SessionOutlivesTransfers
PROPERTIES
  ShutdownEnds
CHECK_DEADLOCK FALSE
