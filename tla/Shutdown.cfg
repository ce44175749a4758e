CONSTANTS
  Loop = Loop
  Sync = Sync
  Others = {u1}
  Uploads = {u1}
  Dials = {d1, d2}
  Deaf = {d2}
  NoSource = NoSource
  ConfSource = ConfSource
SPECIFICATION FairSpec
INVARIANTS
  ConnectionsAreOwned
  ClientOutlivesUsers
  FailureIsReported
PROPERTIES
  SourceIsKept
  Exits
CHECK_DEADLOCK FALSE
