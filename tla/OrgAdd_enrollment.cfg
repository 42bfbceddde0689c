SPECIFICATION ObedientAddSpec
CONSTANTS
  Org = {o1, o2, n}
  Founding = {o1, o2}
  First = o1
  New = n
  Version = {v1, v2}
  v1 = v1
  v2 = v2
  MaxSequence = 2
  None = None
  MaxPackages = 2
  MaxFailures = 1
  FailStages = {2}
  AddTarget <- FirstRelease
PROPERTY RerunAddsMember
CHECK_DEADLOCK FALSE
