SPECIFICATION Spec
CONSTANTS
  num_slots_ = 3
  batch_window_size = 3
  MaxBatch = 7
  NoBatch = NoBatch
  Torn = Torn
PROPERTY NotForwardedAgain
