\* A buffer is full with two records, so that three fill more than one batch.
CONSTANTS
  w1 = w1
  w2 = w2
  Watchers <- MCWatchers
  Wanted <- MCWanted
  Orphan <- MCOrphan
  MaxBufCount = 1
  MaxRecords = 3
SPECIFICATION FairSpec
INVARIANTS TypeOK StoredInOrder NothingLost FeedComplete
PROPERTIES SentIsStored TaskEnds WatcherServed ImplementsRunLog
