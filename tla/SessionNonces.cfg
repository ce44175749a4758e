CONSTANTS
  Players = {p1, p2}
  Sessions = {s1, s2}
  Nonces = {n1, n2}
  Calls = {c1}
  NoSession = NoSession
  NoNonce = NoNonce
  NoStatus = NoStatus
  Ambiguous = FALSE
  Statuses <- MCStatuses
  Hidden <- MCHidden
  Restriction <- MCRestriction
SPECIFICATION FairSpec
INVARIANTS
  DocumentIsTrue
PROPERTIES
  WritesAskedStatus
  NonceIsStable
  
CHECK_DEADLOCK FALSE
