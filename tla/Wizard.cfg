SPECIFICATION FairSpec
CONSTANTS
  p1 = p1
  p2 = p2
  m1 = m1
  m2 = m2
  i1 = i1
  i2 = i2
  Photos = {p1, p2}
  Models = {m1}
  Setups = {i1}
  None = None
  Limited = {m1}
  Limit = 2
  MaxAnalyses = 2
  MaxUse = 1
  MaxFaults = 2
INVARIANTS
  WizardTypeOK
  EditsOfTheseResults
  SavedIsTheseResults
  ChargesMatchRuns
  OvershootBounded
PROPERTIES
  KeepsLedger
  AnalysisEnds
CHECK_DEADLOCK FALSE
