SPECIFICATION Spec
CONSTANTS
  num_FPGA = 1
  SockCap = 1
  MaxResets = 0
  batch_size = 2
  total_batch_num = 2
  query_window_size = 2
  batch_window_size = 1
  G2C_C2F_QUEUE_SIZE = 2
  NoBatch = NoBatch
  InOrder = TRUE
INVARIANT NetworkOrderSuffices
