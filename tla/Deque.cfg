CONSTANTS
  Vals = {x1, x2}
  ChunkSizes = {1, 2, 3}
  MaxChunks = 6
  MaxSize = 5
  Vacant = Vacant
  Wild = Wild
  Null = Null
SPECIFICATION Spec
INVARIANTS TypeOK ElementsInPlace IteratorsAgree
PROPERTY CallsTakeEffect
SYMMETRY Symmetry
