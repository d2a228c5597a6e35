SPECIFICATION FairSpec
CONSTANTS
  Callers = {c1, c2}
  Kids = {k1, k2}
  NoKid = NoKid
  Lifetime = 3
  MinRefetch = 2
  FetchMax = 2
  BackoffBase = 2
  BackoffCap = 4
  MaxFailures = 2
  MaxRotations = 2
  Horizon = 5
  SlowImport = FALSE
PROPERTIES
  AnswersAreJust
  RestIsKept
  ImplementsPolicy
  EveryCallReturns
