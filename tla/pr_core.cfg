SPECIFICATION Spec
CONSTANTS
  Frameworks <- MCFrameworks
  Published <- MCPublished
  MaxRuns = 2
  MaxClock = 4
PROPERTIES
  CommittedIsMeasured
  NewEntriesKeepResults
  SavedStaysMergeable
  BaselineIsMain
CHECK_DEADLOCK FALSE
