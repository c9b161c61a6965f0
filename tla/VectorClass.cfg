CONSTANTS
  Vecs = {v1}
  Buffers = {b1, b2}
  Vals = {x1, x2}
  MaxCapacity = 4
  Raw = Raw
  Null = Null
SPECIFICATION AnySpec
INVARIANT NoLeak
