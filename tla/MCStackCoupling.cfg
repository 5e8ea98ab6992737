CONSTANTS
  WORD = 2
  QUERY_WORDS = 2
  TOPK = 3
  IDS_PER_WORD = 2
  DISTS_PER_WORD = 4
  RX_SPACE = 4
  TX_SPACE = 6
  Undefined = Undefined
  depth <- MCdepth2
  Requests <- MCRequests
SPECIFICATION FairSpec
INVARIANTS TypeOK WordsInOrder AnswersInOrder AnnouncedWithData OnePacketAtATime
PROPERTY AnswersArrive
CHECK_DEADLOCK FALSE
