CONSTANTS
  Threads = {t1, t2, t3}
  SharedPtrs = {p1, p2, p3}
  Blocks = {b1, b2}
  Null = Null
  CntMod = 5
SPECIFICATION FairSpec
INVARIANTS TypeOK CountExact OwnerSeesLiveObject NoUseAfterFree
PROPERTIES ImplementsOwnership AbandonedIsFreed
