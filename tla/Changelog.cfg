SPECIFICATION Spec
CONSTANTS
  ROOT_MAX_BYTES = 6
  BULLET_MAX_BYTES = 2
  MaxReleases = 4
  MaxTampers = 1
  MaxCrashes = 1
INVARIANTS
  OneLedger
  NothingLeavesTheTree
  RotationSettles
PROPERTY
  ImplementsRecord
CHECK_DEADLOCK FALSE
