CONSTANTS
  Tokens = {t1, t2, t3, t4}
  NoToken = NoToken
SPECIFICATION FairSpec
INVARIANTS
  OneNeededLogin
  CacheIsNewest
PROPERTIES
  LoginsAreCollected
CHECK_DEADLOCK FALSE
