SPECIFICATION FairSpec
CONSTANTS
  k1 = k1
  k2 = k2
  c1 = c1
  NoKey = NoKey
  Keys <- MCKeys
  Conns <- MCConns
  Capacity = 1
  Casts <- MCCasts
  MaxTime = 2
INVARIANTS TypeOK NoLostWakeup TokensAccounted 
PROPERTIES DueServed CancelEndsLoop
CHECK_DEADLOCK FALSE
