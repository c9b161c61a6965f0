CONSTANTS
  Keys = {k1, k2, k3, k4}
  Vals = {Dummy}
  Hashes = {0, 1, 3}
  InitCapacity = 2
  MaxCapacity = 4
  WordMod = 64
  None = None
SPECIFICATION SetSpec
INVARIANTS ProbePathUnbroken IteratorAtElement
PROPERTIES NothingLost CallsReturn
