SPECIFICATION Spec
CONSTANTS
  Frameworks <- MCFrameworks
  ComposeFiles <- MCComposeFiles
  ComposeDownMayFail = FALSE
  Loops <- MCLoops
  Tests <- MCTests
  Disabled <- MCDisabled
  LiteProfiles <- MCTable
  Save = TRUE
  LiteOrder <- MCLite
  ZrkInstalled = TRUE
INVARIANTS
  RunMeasuresItsOwnServer
  TrapLeavesHostClean
PROPERTIES
  DbRunSeesFreshPostgres
  KeepsPromise
CHECK_DEADLOCK FALSE
