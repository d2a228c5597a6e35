SPECIFICATION FairSpec
CONSTANTS
  Callers = {c1, c2}
  NoCaller = NoCaller
  Skew = 2
  Lifetimes = {1, 4, 5}
  FetchMax = 1
  Fallback = 3
INVARIANTS
  OneRequestAtATime
PROPERTIES
  NoNeedlessRequest
  CachedTokensAreValid
  Recovers
