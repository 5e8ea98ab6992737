SPECIFICATION Spec
CONSTANTS
  num_slots_ = 4
  batch_window_size = 3
  MaxBatch = 9
  NoBatch = NoBatch
  Torn = Torn
INVARIANTS
  TypeOK
  BatchesReadInOrder
PROPERTY ImplementsQueue
