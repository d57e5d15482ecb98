SPECIFICATION FairSpec
CONSTANTS
  POLICY_ATTEMPTS = 3
  MTASTS_MAX_AGE = 5
  UINT32 = 16
  Number <- MCNumber
  Server <- MCServer
  Extensions = {"x"}
  ExtensionValues = {"3", "{x}"}
  Braces = {"{x}"}
  Texts <- MCTexts
  Lines <- MCLines
  MaxFields = 3
  MaxLines = 5
INVARIANTS FetchedIfAnnounced PolicyAsPublished TempOnlyAfterAttempts
PROPERTIES LookupReturns
CHECK_DEADLOCK FALSE
