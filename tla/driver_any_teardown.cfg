SPECIFICATION FairSpec
CONSTANTS
  f1 = f1
  f2 = f2
  Frameworks <- MCFrameworks
  ComposeFiles <- MCComposeFiles
  List <- MCList
  ProfilesToRun <- MCWsProfiles
  Conns <- MCConns
  Tests <- MCWsTests
  Save = TRUE
  ComposeDownMayFail = TRUE
  MayBeKilled = TRUE
  OtherRedis = TRUE
CHECK_DEADLOCK FALSE
INVARIANT StackRunMeasuresItsOwnStack
PROPERTY WorkflowFinishes
