SPECIFICATION Spec
CONSTANTS
  Frameworks <- MCFrameworks
  Published <- MCPublished
  MaxRuns = 2
  MaxClock = 3
PROPERTY OnlyBenchmarkedStaged
CHECK_DEADLOCK FALSE
