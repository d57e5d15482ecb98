SPECIFICATION FairSpec
CONSTANTS
  g1 = g1
  Getters = {g1}
  MaxChanges = 4
INVARIANTS TypeOK 
 
CHECK_DEADLOCK FALSE
