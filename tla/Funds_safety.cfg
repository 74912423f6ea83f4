SPECIFICATION FundsSpec
CONSTANTS
  i1 = i1
  i2 = i2
  i3 = i3
  c1 = c1
  c2 = c2
  k1 = k1
  k2 = k2
  k3 = k3
  d1 = d1
  d2 = d2
  Ids = {i1, i2, i3}
  Callers = {c1, c2}
  Correlations = {k1, k2}
  Amounts = {0, 1}
  Ceiling = 1
  MaxPositions = 1
  None = None
  NumRows = 4
  Type <- TwoFills
  Drains = {d1, d2}
  BatchSize = 2
  KafkaBridge = TRUE
  MaxFaults = 2
INVARIANTS
  OneActivePerCorrelation
  RelayedMeansReleased
  SlotFreedAfterCapital
PROPERTIES
  TerminalIsFinal
  HeldWithinBounds
  PlanRowsSettle
