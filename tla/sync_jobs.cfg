SPECIFICATION Spec
CONSTANTS
  d1 = d1
  d2 = d2
  h1 = h1
  h2 = h2
  n1 = n1
  n2 = n2
  j1 = j1
  j2 = j2
  r1 = r1
  r2 = r2
  r3 = r3
  destA = destA
  destB = destB
  nil = nil
  Downloads <- OneTorrent
  Hashes = {h1}
  HashOf <- OwnHash
  Names = {n1}
  NameOf <- OwnName
  NFiles = 1
  JobIds = {j1, j2}
  Runs = {r1, r2}
  Dests = {destA, destB}
  MaxConcurrent = 1
  Truncated = {}
  Nil = nil
  PromptStart = TRUE
  PromptImport = TRUE
  Outages = TRUE
  Faults = FALSE
SYMMETRY SlotSymmetry
INVARIANTS
  TypeOK
  OneRunPerJob
  CompleteIsBacked
  TransferredIsKept
PROPERTIES
  MoveDelivers
CHECK_DEADLOCK FALSE
