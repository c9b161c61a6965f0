CONSTANTS
  Threads = {t1}
  SharedPtrs = {p1, p2}
  WeakPtrs = {w1, w2}
  Blocks = {b1, b2}
  Null = Null
  CntMod = 4
SPECIFICATION WeakCopySpec
INVARIANT ObserverSeesLiveBlock
CHECK_DEADLOCK FALSE
