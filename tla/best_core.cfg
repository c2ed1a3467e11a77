SPECIFICATION Spec
CONSTANTS
  RUNS = 3
  Outcomes <- MCOutcomes
INVARIANTS
  RowIsOneRun
  FastestIsSaved
  ScoredIsNotOutdone
  UnscoredIsCheapest
CHECK_DEADLOCK FALSE
