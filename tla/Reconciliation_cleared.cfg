SPECIFICATION ReconSpec
CONSTANTS
  Kinds = {1}
  PortfolioKind = 1
  Subjects = {"s1"}
  MockOnly = {}
  DetectorLimit = 1
  Detectors = {"cron"}
  Hooks = {"h1", "h2"}
  MaxRows = 1
  MaxReconSteps = 3
PROPERTY OperatorWorkIsKept
CHECK_DEADLOCK FALSE
