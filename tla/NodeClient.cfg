SPECIFICATION Spec
CONSTANTS
  Callers = {c1, c2}
  Nobody = Nobody
  Ops = {"admin", "readOne", "create", "write", "grant", "exchange", "logout"}
  Cap = 4
  ReadChunk = 2
  MaxPieces = 4
  MaxCalls = 3
CHECK_DEADLOCK FALSE
INVARIANTS
  OneOfEach
  FailuresAreFresh
  OutcomesTellTheTruth
  RepliesAreJudged
PROPERTIES
  EveryCallReturns
