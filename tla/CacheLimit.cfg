CONSTANTS
  k1 = k1
  k2 = k2
  k3 = k3
  k4 = k4
  c1 = c1
  c2 = c2
  w1 = w1
  t1 = t1
  Keys = {k1, k2, k3, k4}
  Conns = {c1, c2}
  Workers = {w1}
  Tidiers = {t1}
  CACHE_MAX_ENTRIES = 2
  CACHE_PRUNE_TARGET = 1
  MaxHits = 2
  MaxStores = 3
  Casts <- TheCasts

SPECIFICATION Spec
INVARIANTS TypeOK NoUseCountedTwice OverflowIsUnjudged
CHECK_DEADLOCK FALSE
