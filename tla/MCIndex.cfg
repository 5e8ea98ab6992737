SPECIFICATION FairSpec
CONSTANTS
  num_FPGA = 2
  SockCap = 1
  MaxResets = 1
  batch_size = 2
  total_batch_num = 3
  query_window_size = 1
  batch_window_size = 2
  InOrder = TRUE
CHECK_DEADLOCK FALSE
INVARIANTS
  WithinWindows
  AnswersMatchQueries
  FramingInSync
  LostAnswersBounded
PROPERTY Termination
