SPECIFICATION Spec
CONSTANTS
  Keys = {k1}
  Values = {v1}
  NoValue = NoValue
  Savers = {periodic, s1, s2}
  Periodic = periodic
  s1 = s1
  s2 = s2
  Nobody = Nobody
  Missing = Missing
  Corrupt = Corrupt
  MaxGeneration = 2
  MaxFaults = 2
PROPERTIES NewestSnapshotKept
