CONSTANTS
  Keys = {k1, k2, k3}
  Vals = {v1}
  Hashes = {0, 1, 3}
  InitCapacity = 4
  MaxCapacity = 8
  WordMod = 64
  None = None
SPECIFICATION Spec
INVARIANT ReturnsKey
