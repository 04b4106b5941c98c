\* Two goroutines and a thread of C register and call callbacks, also from within callbacks, beyond the limit.
SPECIFICATION FairSpec
CONSTANTS
  Goroutines = {g1, g2}
  CThreads = {c1}
  Functions = {f1, f2}
  MaxCallbacks = 2
  MaxDepth = 2
  None = None
INVARIANTS TypeOK CallbackIsTheOneGiven
PROPERTIES EverybodyIsServed
