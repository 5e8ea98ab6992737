SPECIFICATION FairSpec
CONSTANTS
  num_FPGA = 2
  SockCap = 1
  MaxResets = 0
  batch_size = 2
  total_batch_num = 3
  query_window_size = 2
  batch_window_size = 2
  G2C_C2F_QUEUE_SIZE = 3
  NoBatch = NoBatch
  InOrder = TRUE
INVARIANTS
  TypeOK
  InFlightWithinWindow
  QueriesInOrder
  AnswersMatchQueries
  DataAfterSetup
  CleanFinish
PROPERTIES
  Termination
  ImplementsServer
