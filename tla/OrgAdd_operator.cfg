SPECIFICATION AddSpec
CONSTANTS
  Org = {o1, o2, n}
  Founding = {o1, o2}
  First = o1
  New = n
  Version = {v1, v2}
  v1 = v1
  v2 = v2
  MaxSequence = 2
  None = None
  MaxPackages = 2
  MaxFailures = 2
  FailStages = {1, 2, 3, 4, 5, 6, 7}
  AddTarget <- FirstRelease
INVARIANTS SinglePackageServes NeverBlocked
PROPERTIES ServingSurvives NewMemberServes
CHECK_DEADLOCK FALSE
