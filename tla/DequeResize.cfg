CONSTANTS
  Vals = {x1, x2}
  ChunkSizes = {2, 3}
  MaxChunks = 6
  MaxSize = 5
  Vacant = Vacant
  Wild = Wild
  Null = Null
SPECIFICATION ResizeSpec
PROPERTY ResizeReachesCount
