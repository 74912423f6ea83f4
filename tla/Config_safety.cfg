SPECIFICATION ConfigFairSpec
CONSTANTS
  dex = dex
  page = page
  Operators = {o1, o2}
  Clients = {dex, page}
  Kind <- MCKind
  AsksFor <- MCEnv
  Requests = {"stop", "recover", "update", "create", "promote", "activate", "rollback"}
  Inputs <- MCInputs
  Production = TRUE
  MaxRows = 3
  MaxRequests = 2
  MaxOutages = 1
  NoRow = NoRow
INVARIANTS
  VersionsAreSound
CHECK_DEADLOCK TRUE
PROPERTY
  KillSwitchConverges
