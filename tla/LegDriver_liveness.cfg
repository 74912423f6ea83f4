SPECIFICATION DriverFairSpec
CONSTANTS
  p1 = p1
  p2 = p2
  buy = buy
  sell = sell
  paper = paper
  w1 = w1
  w2 = w2
  w3 = w3
  Plans = {p1, p2}
  Legs = {buy, sell, paper}
  Workers = {w1, w2, w3}
  Keys = {}
  PlanOf <- MCPlanOf
  Kind <- MCKind
  LegIndex <- MCLegIndex
  Target = 1
  Take = 1
  AutoFail = FALSE
  HttpClients = FALSE
  MaxCrashes = 1
  NoLeg = NoLeg
  NoWorker = NoWorker
  NoPlan = NoPlan
  NoKey = NoKey
PROPERTY LegsMoveOn
