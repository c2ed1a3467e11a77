SPECIFICATION Spec
CONSTANTS
  f1 = f1
  f2 = f2
  Frameworks <- MCFrameworks
  ComposeFiles <- MCComposeFiles
  List <- MCList
  ProfilesToRun <- MCProfiles
  Conns <- MCConns
  Tests <- MCTests
  Save = TRUE
  ComposeDownMayFail = FALSE
  MayBeKilled = TRUE
  OtherRedis = TRUE
CHECK_DEADLOCK FALSE
INVARIANTS
  TypeOK
  DbProfileSeesFreshPostgres
  StackHasPostgres
  RunMeasuresItsOwnServer
  StackRunUsesItsOwnCache
  TrapLeavesHostClean
  EverySubscribedRunIsTried
  SuccessPublishesEverything
PROPERTIES
  PostgresRestartsUnseen
  KeepsPromise
