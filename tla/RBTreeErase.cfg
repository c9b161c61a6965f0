CONSTANTS
  Keys = {1, 2, 3, 4, 5, 6}
  Sentinel = Sentinel
  Null = Null
SPECIFICATION EraseBelowSpec
INVARIANT SearchTree
PROPERTY EraseRemovesKey
