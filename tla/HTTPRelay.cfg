CONSTANTS
  Offers = {o1, o2}
  Keys = {k1, k2}
  Candidates = {c1, c2}
  NoOffer = NoOffer
  NoKey = NoKey
SPECIFICATION FairSpec
INVARIANTS
  NoCandidateLost
  ClosedIsQuiet
  JoinsAreAnswered
PROPERTIES
  PromiseKept
  BegunIsEnded
CHECK_DEADLOCK FALSE
