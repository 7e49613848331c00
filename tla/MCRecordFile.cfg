\* Two threads, so that records can arrive out of order; two runs on one file.
CONSTANTS
  RECORD_BLOCK_SIZE = 3
  Threads = 2
  MaxIndex = 7
  MaxInstances = 2
SPECIFICATION Spec
INVARIANTS TypeOK ReadsBack CommittedStays
CHECK_DEADLOCK FALSE
