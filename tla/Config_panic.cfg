SPECIFICATION ConfigSpec
CONSTANTS
  dex = dex
  page = page
  Operators = {o1}
  Clients = {dex, page}
  Kind <- MCKind
  AsksFor <- MCEnv
  Requests = {"stop"}
  Inputs <- MCInputs
  Production = TRUE
  MaxRows = 3
  MaxRequests = 1
  MaxOutages = 1
  NoRow = NoRow
INVARIANT
  PanicStopHalts
