\* Four records in blocks of two; up to two connections break.
CONSTANTS
  RECORD_BLOCK_SIZE = 2
  IdAhead = {1}
  Window = 2
  MaxIndex = 4
  MaxBreaks <- MCMaxBreaks
SPECIFICATION FairSpec
INVARIANTS TypeOK NoGaps StopComplete ReplyFindsSender CloseFindsReader
PROPERTY ClientEnds
CHECK_DEADLOCK FALSE
