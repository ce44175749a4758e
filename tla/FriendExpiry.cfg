CONSTANTS
  Players = {p1}
  Guests = {}
  Window = 1
  MaxDrift = 1
  NoOne = NoOne
  Never = Never
SPECIFICATION FairSpec
INVARIANTS
  RecordsAreTrue
PROPERTIES
  ScansConverge
CHECK_DEADLOCK FALSE
