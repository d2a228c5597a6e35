SPECIFICATION Spec
CONSTANTS
  MaxEdits = 2
  MaxMembers = 2
INVARIANTS
  OkMeansAgreement
  CopiesAreTheGate
  DriftIsReal
  UnknownIsRefused
