CONSTANTS
  Keys = {k1, k2}
  Vals = {Dummy}
  Hashes = {0, 1, 3}
  InitCapacity = 4
  MaxCapacity = 4
  WordMod = 64
  None = None
SPECIFICATION SetSpec
INVARIANT KeysUnique
