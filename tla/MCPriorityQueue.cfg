SPECIFICATION Spec
CONSTANTS
  queue_size = 4
  LARGE_NUM = 3
  Dist = {1, 2, 3}
  MaxIter = 5
  MaxQuery = 2
INVARIANTS
  TypeOK
  KeepsSmallest
  NoDuplicate
  NoStaleRegister
  OddDominates
