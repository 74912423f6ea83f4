SPECIFICATION LiveSpec
CONSTANTS
  Callers = {tick, trigger}
  Opps = {1}
  Evaluations = {e1}
  KeyOf <- MCKeyOf
  MaxDecisions = 2
  MaxPlans = 2
  MaxReservations = 2
  MaxConcurrentPlans = 1
  BatchSize = 1
  MaxCrashes = 1
  None = None
  Nil = Nil
PROPERTIES
  MarkersHold
  KeepsPlanContract
SYMMETRY MCSymmetry
CHECK_DEADLOCK FALSE
