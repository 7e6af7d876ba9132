\* A tab that seeds the policies while an administrator saves one.
SPECIFICATION PolicySpec
CONSTANTS
  PolicyTabs = {a1, a2}
  SeededModels = {w1}
  Seeds <- MCSeeds
  NoPolicy = NoPolicy
  NoPolicyJob = NoPolicyJob
  PolicyRoles = {"admin", "user"}
  MaxLimit = 1
  MaxPolicySaves = 1
INVARIANT EditsOutliveSeeding
CHECK_DEADLOCK FALSE
