CONSTANTS
  Threads = {t1, t2}
  SharedPtrs = {p1, p2}
  WeakPtrs = {w1, w2}
  Blocks = {b1, b2}
  Null = Null
  CntMod = 4
SPECIFICATION WeakSpec
INVARIANT NoWeakUseAfterFree
CHECK_DEADLOCK FALSE
