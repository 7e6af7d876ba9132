SPECIFICATION Spec
CONSTANTS
  p1 = p1
  p2 = p2
  m1 = m1
  m2 = m2
  i1 = i1
  i2 = i2
  Photos = {p1, p2}
  Models = {m1}
  Setups = {i1}
  None = None
  Limited = {m1}
  Limit = 1
  MaxAnalyses = 1
  MaxUse = 0
  MaxFaults = 0
INVARIANT
  QuotaKept
CHECK_DEADLOCK FALSE
