\* One thread: the records arrive in order.
CONSTANTS
  RECORD_BLOCK_SIZE = 3
  Threads = 1
  MaxIndex = 7
  MaxInstances = 2
SPECIFICATION Spec
INVARIANTS LaterBlocksAreNext
CHECK_DEADLOCK FALSE
