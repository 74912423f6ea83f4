SPECIFICATION LiveSpec
CONSTANTS
  Callers = {tick, trigger}
  Opps = {1}
  Evaluations = {e1}
  KeyOf <- MCKeyOf
  MaxDecisions = 2
  MaxPlans = 2
  MaxReservations = 2
  MaxConcurrentPlans = 1
  BatchSize = 1
  MaxCrashes = 0
  None = None
  Nil = Nil
INVARIANT
  LosersLoseCleanly
CHECK_DEADLOCK FALSE
