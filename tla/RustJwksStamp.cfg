SPECIFICATION Spec
CONSTANTS
  Callers = {c1, c2}
  Kids = {k1, k2}
  NoKid = NoKid
  NoCaller = NoCaller
  Lifetime = 4
  MinRefetch = 2
  FetchMax = 1
  BackoffBase = 3
  BackoffCap = 3
  MaxFailures = 2
  MaxRotations = 1
  Horizon = 2
PROPERTIES
  RefusalsFollowARequest
