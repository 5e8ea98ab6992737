CONSTANTS
  D = 8
  M = 4
  LUT_ENTRY_NUM = 2
  SUB_PE_NUM = 2
  FLOATS = 6
  depth <- MCdepth
  Requests <- MCRequests
SPECIFICATION FairSpec
INVARIANT RowsAreDistances
PROPERTY LUTEnds
