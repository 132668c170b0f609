CONSTANTS
  Frequencies = {1, 2, 3, 4, 5, 6, 7, 8}
  MAX_UPDATES = 40
SPECIFICATION MCSpec
INVARIANTS IInv NoDrift CountersBounded
CHECK_DEADLOCK FALSE
