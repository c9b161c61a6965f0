CONSTANTS
  Threads = {t1}
  SharedPtrs = {p1, p2, p3}
  Blocks = {b1, b2}
  Null = Null
  CntMod = 4
SPECIFICATION ResetNullSpec
INVARIANT OwnerSeesLiveObject
CHECK_DEADLOCK FALSE
