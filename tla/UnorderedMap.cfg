CONSTANTS
  Keys = {k1, k2, k3, k4}
  Vals = {v1, v2}
  Hashes = {0, 1, 3}
  InitCapacity = 2
  MaxCapacity = 8
  WordMod = 64
  None = None
SPECIFICATION Spec
SYMMETRY Symmetry
INVARIANTS TypeOK FindAgrees
PROPERTY ImplementsDictionary
