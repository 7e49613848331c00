\* What a connection that took over has brought when the application stops.
CONSTANTS
  RECORD_BLOCK_SIZE = 8
  IdAhead = {1}
  Window = 1
  MaxIndex = 4
  MaxBreaks <- MCMaxBreaks
SPECIFICATION Spec
INVARIANT ReconnectResumes
CHECK_DEADLOCK FALSE
