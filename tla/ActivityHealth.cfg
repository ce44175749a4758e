CONSTANTS
  Publications = {p1, p2, p3, p4}
  NoPublication = NoPublication
  Grace = 2
  Cooldown = 10
  Limit = 3
  Freshness = 5
  Tolerance = 15
SPECIFICATION FairSpec
PROPERTIES
  ChecksAreSound
  
CHECK_DEADLOCK FALSE
