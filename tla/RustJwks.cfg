SPECIFICATION FairSpec
CONSTANTS
  Callers = {c1, c2}
  Kids = {k1, k2}
  NoKid = NoKid
  NoCaller = NoCaller
  Lifetime = 3
  MinRefetch = 2
  FetchMax = 1
  BackoffBase = 2
  BackoffCap = 2
  MaxFailures = 1
  MaxRotations = 1
  Horizon = 4
PROPERTIES
  AnswersAreJust
  ImplementsPolicy
  Recovers
