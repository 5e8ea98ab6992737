CONSTANTS
  DDR_BANK_NUM = 1
  ADC_PE_PER_CHANNEL = 1
  PRIORITY_QUEUE_LEN_L1 = 2
  TOPK = 3
  nlist = 2
  LARGE_NUM = 4
  Undefined = Undefined
  depth <- MCdepth
  start_addr <- MCstart_addr
  Requests <- MCRequests
SPECIFICATION FairSpec
INVARIANTS AnswersBelong MissedOnlyIfCrowded
PROPERTY Answered
