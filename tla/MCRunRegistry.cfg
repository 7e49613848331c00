\* One connection breaks and another takes over, while two browsers subscribe.
CONSTANTS
  r1 = r1
  p1 = p1
  w1 = w1
  Runs <- MCRuns
  MaxConns <- MCMaxConns
  Watchers <- MCWatchers
  Pages <- MCPages
  PageCap = 1
  Reconnects = {"settled", "closed", "overlap"}
SPECIFICATION FairSpec
INVARIANTS TypeOK OneTaskPerRun NothingDiscarded GlobalsReleased LiveRunsAreGlobal RowTellsLastEnd
PROPERTY EveryMessageHandled
CHECK_DEADLOCK FALSE
