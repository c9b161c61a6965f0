CONSTANTS
  Vecs = {v1, v2}
  Buffers = {b1, b2, b3}
  Vals = {x1, x2}
  MaxCapacity = 4
  Raw = Raw
  Null = Null
SPECIFICATION Spec
SYMMETRY Symmetry
INVARIANTS TypeOK ElementsLive NoLeak
PROPERTY ImplementsSequence
