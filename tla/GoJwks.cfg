SPECIFICATION Spec
CONSTANTS
  Callers = {c1, c2}
  Kids = {k1, k2}
  NoKid = NoKid
  Flights = {f1, f2}
  NoFlight = NoFlight
  Lifetime = 3
  MinRefetch = 2
  FetchMax = 1
  BackoffBase = 2
  BackoffCap = 4
  MaxFailures = 2
  MaxRotations = 1
  Horizon = 4
SYMMETRY Symmetry
INVARIANTS
  OneFlightServesAll
PROPERTIES
  WithdrawnKeysExpire
  RefusalsAreExplained
  ImplementsPolicy
