SPECIFICATION Spec
CONSTANTS
  CACHE_NOTFOUND_TTL = 2
  CACHE_MIN_TTL = 1
  CACHE_MAX_TTL = 6
  CACHE_MAX_AGE = 2
  POLICY_BRANCH_RECHECK = 3
  MTA_STS_FETCH_RETRY_INTERVAL = 1
  EXPIRY_JITTER = 0
  PREFETCH_INTERVAL = 1
  PREFETCH_RETRY_MAX_AGE = 2
  PREFETCH_RETRY_MAX_INTERVAL = 1
  BATCH_SPREAD = 0
  c1 = c1
  c2 = c2
  DaneOutcomes <- MCDaneOutcomes
  MtaStsOutcomes <- TwoMtaStsOutcomes
  InitialEntries <- NothingCached
  Conns = {c1, c2}
  Prefetch = FALSE
  Housekeeping = {}
  StartTime = 1
  MaxTime = 4
PROPERTIES
  UnexpiredMtaStsKept
