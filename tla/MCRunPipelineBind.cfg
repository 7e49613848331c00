\* The default record_max_buf_count; one full buffer is enough.
CONSTANTS
  w1 = w1
  w2 = w2
  Watchers <- MCWatchers
  Wanted <- MCWanted
  Orphan <- MCOrphan
  MaxBufCount <- DefaultBufCount
  MaxRecords = 4
SPECIFICATION Spec
INVARIANT BindParamsFit
