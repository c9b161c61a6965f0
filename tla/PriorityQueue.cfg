CONSTANTS
  Vals = {0, 1, 2, 3}
  MaxSize = 7
SPECIFICATION Spec
INVARIANTS TypeOK ValidHeap SameElements
