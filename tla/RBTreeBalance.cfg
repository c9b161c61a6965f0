CONSTANTS
  Keys = {1, 2, 3, 4, 5}
  Sentinel = Sentinel
  Null = Null
SPECIFICATION EraseSpec
INVARIANTS CheckRbTree IterationInOrder
CHECK_DEADLOCK FALSE
