SPECIFICATION Spec
CONSTANTS
  d1 = d1
  d2 = d2
  h1 = h1
  h2 = h2
  n1 = n1
  n2 = n2
  j1 = j1
  j2 = j2
  r1 = r1
  r2 = r2
  nil = nil
  box = box
  box2 = box2
  catA = catA
  catB = catB
  catX = catX
  pathA = pathA
  pathB = pathB
  pathAbox = pathAbox
  pathBbox = pathBbox
  Downloads <- OneTorrent
  Hashes = {h1}
  HashOf <- OwnHash
  Names = {n1}
  NameOf <- OwnName
  NFiles = 1
  JobIds = {j1}
  Runs = {r1}
  MaxConcurrent = 1
  Truncated = {}
  Nil = nil
  PromptStart = TRUE
  PromptImport = TRUE
  Outages = FALSE
  Faults = TRUE
  Downloaders = {box}
  DlOf <- OneBox
  CleanOnChange = {}
  CleanOnRemove = {}
  UserActs = {"recategorise", "take"}
  MayStop = TRUE
  AppOutages = FALSE
  MaxCrashes = 0
  Categories = {catA, catB}
  AppCategories = {catA, catB}
  SyncDest <- TwoAppSync
  MigrateDest <- TwoAppMigrate
  Dests = {pathA, pathB, pathAbox, pathBbox}
SYMMETRY Slots
INVARIANTS
  JobsAreOwned
PROPERTIES
  CompletedFilesSurvive
  ImplementsSyncService
CHECK_DEADLOCK FALSE
