\* What the server receives first.
CONSTANTS
  RECORD_BLOCK_SIZE = 2
  IdAhead = {1}
  Window = 2
  MaxIndex = 4
  MaxBreaks <- MCMaxBreaks
SPECIFICATION Spec
INVARIANT FirstIsAppStart
CHECK_DEADLOCK FALSE
