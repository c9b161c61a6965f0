CONSTANTS
  Roots = {s1, s2}
  Objects = {o1, o2, o3, o4}
  Null = Null
SPECIFICATION Spec
SYMMETRY Symmetry
INVARIANTS TypeOK ExactlyOneHolder NoUseAfterFree NoLeak
