CONSTANTS
  Sessions = {s1, s2, s3}
  Signalings = {g1}
  NoSession = NoSession
  NoSignaling = NoSignaling
  ConfSignaling = g1
  HideOldSessions = FALSE
  RotateMembers = 2
  MemberCap = 2
  Attempts = 2
  FailureLimit = 2
SPECIFICATION Spec
SYMMETRY SessionSymmetry
PROPERTIES
  StaticIsKept
