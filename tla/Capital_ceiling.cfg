SPECIFICATION CapitalSpec
CONSTANTS
  i1 = i1
  i2 = i2
  i3 = i3
  c1 = c1
  c2 = c2
  k1 = k1
  k2 = k2
  k3 = k3
  Ids = {i1, i2, i3}
  Callers = {c1, c2}
  Correlations = {k1, k2}
  Amounts = {1}
  Ceiling = 1
  MaxPositions = 0
  None = None
PROPERTY AdmittedWithinCeiling
