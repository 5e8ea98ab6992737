CONSTANTS
  WORD = 1
  QUERY_WORDS = 2
  TOPK = 1
  IDS_PER_WORD = 1
  DISTS_PER_WORD = 1
  RX_SPACE = 8
  TX_SPACE = 3
  Undefined = Undefined
  depth <- MCdepth1
  Requests <- MCAhead
SPECIFICATION FairSpec
PROPERTY DeadlockResolved
CHECK_DEADLOCK FALSE
