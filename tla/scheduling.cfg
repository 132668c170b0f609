SPECIFICATION Spec
CONSTANTS
  b1 = b1  b2 = b2  b3 = b3  q1 = q1  q2 = q2
  Bank = {b1, b2, b3}
  Row = {1, 2}
  Queue = {q1, q2}
  QueueOf <- SharedQueue
  Closed = 0
  Depth = 4
  Accesses = 3
  AutoPrecharge = FALSE
INVARIANTS
  IInv
  NeverStuck
