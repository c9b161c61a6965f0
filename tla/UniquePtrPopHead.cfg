CONSTANTS
  Roots = {s1, s2}
  Objects = {o1, o2, o3}
  Null = Null
SPECIFICATION PopHeadSpec
INVARIANT NoUseAfterFree
