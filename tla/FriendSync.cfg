CONSTANTS
  Players = {p1, p2}
  Delays = {1}
  Hold = 1
  UpdateInterval = 1
  ExpiryCheck = 2
  FullListPlayers = 2
  AutoFriend = TRUE
  ExpiryEnabled = TRUE
  MaxDue = 1
SPECIFICATION FairSpec
CHECK_DEADLOCK FALSE
INVARIANTS
  
  RefusalsAreRemembered
  TimerIsExact
PROPERTIES
  
  ExpiryIsNotStalled
  FullIsTemporary
