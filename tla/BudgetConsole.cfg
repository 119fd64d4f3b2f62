SPECIFICATION Spec
CONSTANTS
  Missing = Missing
  t1 = t1
  t2 = t2
  m1 = m1
  m2 = m2
  Teams = {t1, t2}
  Models = {m1, m2}
  Regions = {1}
  MaxQuota = 2
  MaxInputs = 5
  MaxOther = 1
  Budgeted <- MCBudgeted
  Legacy <- MCLegacy
  Foundation <- MCFoundation
  ProfileOnly <- MCProfileOnly
  Profiles <- MCProfiles
  MantleModels <- MCMantleModels
INVARIANTS SavedWhereTyped ShownIsStored AllowedWhenSteady
SYMMETRY MCSymmetry
CHECK_DEADLOCK FALSE
