CONSTANTS
  Sessions = {s1, s2}
  Signalings = {g1, g2}
  NoSession = NoSession
  NoSignaling = NoSignaling
  ConfSignaling = NoSignaling
  HideOldSessions = TRUE
  RotateMembers = 2
  MemberCap = 2
  Attempts = 2
  FailureLimit = 1
SPECIFICATION FairSpec
PROPERTIES
  DownIsRepaired
  FullIsReplaced
  WorkEnds
