SPECIFICATION FairSpec
CONSTANTS
  Keys = {k1}
  Values = {v1}
  NoValue = NoValue
  Savers = {periodic, s1}
  Periodic = periodic
  s1 = s1
  s2 = s2
  Nobody = Nobody
  Missing = Missing
  Corrupt = Corrupt
  MaxGeneration = 2
  MaxFaults = 2
INVARIANTS TypeOK CleanIsOnDisk AckedSurvives
PROPERTIES EventuallyOnDisk CloseReturns ImplementsDurableStore
