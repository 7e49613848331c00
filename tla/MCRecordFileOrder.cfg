\* Two threads.
CONSTANTS
  RECORD_BLOCK_SIZE = 3
  Threads = 2
  MaxIndex = 7
  MaxInstances = 2
SPECIFICATION Spec
INVARIANTS NextBlockAtMost
CHECK_DEADLOCK FALSE
