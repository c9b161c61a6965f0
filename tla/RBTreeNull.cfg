CONSTANTS
  Keys = {1, 2, 3, 4, 5}
  Sentinel = Sentinel
  Null = Null
SPECIFICATION Spec
INVARIANTS MissingIsEnd SentinelExists
