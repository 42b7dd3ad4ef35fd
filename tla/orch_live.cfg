SPECIFICATION FairSpec
CONSTANTS
  d1 = d1
  d2 = d2
  h1 = h1
  h2 = h2
  n1 = n1
  n2 = n2
  j1 = j1
  j2 = j2
  r1 = r1
  r2 = r2
  nil = nil
  box = box
  box2 = box2
  catA = catA
  catB = catB
  catX = catX
  pathA = pathA
  pathB = pathB
  pathAbox = pathAbox
  pathBbox = pathBbox
  Downloads <- OneTorrent
  Hashes = {h1}
  HashOf <- OwnHash
  Names = {n1}
  NameOf <- OwnName
  NFiles = 2
  JobIds = {j1}
  Runs = {r1}
  MaxConcurrent = 1
  Truncated = {}
  Nil = nil
  PromptStart = TRUE
  PromptImport = TRUE
  Outages = FALSE
  Faults = FALSE
  Downloaders = {box}
  DlOf <- OneBox
  CleanOnChange = {}
  CleanOnRemove = {}
  UserActs = {"recategorise"}
  MayStop = TRUE
  AppOutages = FALSE
  MaxCrashes = 0
  Categories = {catA, catX}
  AppCategories = {catA}
  SyncDest <- OneAppSync
  MigrateDest <- OneAppMigrate
  Dests = {pathA, pathAbox}
PROPERTIES
  EventuallyComplete
  StopEnds
  RunsEnd
CHECK_DEADLOCK FALSE
