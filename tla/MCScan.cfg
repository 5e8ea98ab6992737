CONSTANTS
  DDR_BANK_NUM = 1
  ADC_PE_PER_CHANNEL = 2
  LUT_ENTRY_NUM = 2
  CELLS_PER_WORD = 2
  nlist = 2
  depth <- MCdepth
  start_addr <- MCstart_addr
  num_vecs <- MCnum_vecs
  Requests <- MCRequests
SPECIFICATION FairSpec
INVARIANTS OwnTable OffsetMatchesCode EachVectorOnce
PROPERTY ScanEnds
