SPECIFICATION Spec
CONSTANTS
  MaxItems = 2
  MaxJavaItems = 3
  MaxRuns = 3
  MaxFaults = 3
INVARIANTS
  ReportsAreOfTheLastRun
  NumbersAreTrue
  OkIsDeserved
