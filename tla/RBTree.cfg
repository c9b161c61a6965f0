CONSTANTS
  Keys = {1, 2, 3, 4, 5, 6, 7, 8, 9}
  Sentinel = Sentinel
  Null = Null
SPECIFICATION Spec
INVARIANTS TypeOK CheckRbTree OneViolation IterationInOrder
PROPERTY ImplementsDictionary
