CONSTANTS
  Vals = {0, 1, 2}
  MaxSize = 4
SPECIFICATION Spec
INVARIANT HeapAfterPop
