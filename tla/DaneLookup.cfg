SPECIFICATION FairSpec
CONSTANTS
  h1 = h1
  h2 = h2
  h3 = h3
  Hosts <- MCHosts
  DANE_MX_LOOKUP_CONCURRENCY = 2
  POLICY_ATTEMPTS = 2
  Worlds <- MCWorlds
INVARIANTS TypeOK  BoundedLookups
PROPERTIES LookupReturns NoGoroutineLeft
CHECK_DEADLOCK FALSE
