SPECIFICATION Spec
CONSTANTS
  num_FPGA = 2
  SockCap = 1
  MaxResets = 2
  batch_size = 2
  total_batch_num = 3
  query_window_size = 2
  batch_window_size = 1
  G2C_C2F_QUEUE_SIZE = 1
  NoBatch = NoBatch
  InOrder = FALSE
CHECK_DEADLOCK FALSE
INVARIANTS
  WithinWindows
  FramingInSync
  LostAnswersBounded
  StaleBatchOnlyAfterReset
