SPECIFICATION FairSpec
CONSTANTS
  socketmap = socketmap
  metrics = metrics
  s1 = s1
  s2 = s2
  m1 = m1
  m2 = m2
  Listeners = {socketmap, metrics}
  Metrics = {metrics}
  Clients = {s1, s2, m1, m2}
  MAX_CONNECTIONS <- MCLimits
  From <- MCFrom
  MaxHups = 1
INVARIANTS TypeOK ServedWithinLimit NothingServedAtClose
PROPERTIES StopsOnSignal
