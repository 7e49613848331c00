\* Two runs at a time, at most two connections of one of them, one crash.
CONSTANTS
  app = app
  other = other
  Runs <- MCRuns
  Cases <- MCCases
SPECIFICATION Spec
INVARIANTS
  TypeOK
  RecordIds
  StoredOnce
  RowNamesItsRecord
  GoodStopStands
  DefinitionOnce
PROPERTY DeadRunsEnd
CHECK_DEADLOCK FALSE
