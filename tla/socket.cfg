SPECIFICATION FairSpec
CONSTANTS
  MaxSent = 2
  MaxQuery = 2
INVARIANTS
  TypeOK
  AtMostOnce
PROPERTIES
  ChangesNeedLogin
  
